----------------------------- MODULE Validation -----------------------------
(***************************************************************************)
(* The texts and numbers the services take from outside: repository slugs, *)
(* API_ADMIN_KEYS, the x-hub-signature-256 header, and ids and pull        *)
(* request numbers on their way between u64 and the i64 of a BIGINT.       *)
(*                                                                         *)
(* The state is an input that grows by a character, or counts up: every    *)
(* text of up to MaxLength characters and every u64.                       *)
(***************************************************************************)
EXTENDS Integers, Sequences, FiniteSets, FiniteSetsExt, Functions

CONSTANTS
    MaxLength,  \* bound: characters of a text
    MaxI64,     \* i64::MAX (2^63 - 1 in the code)
    Digest      \* the HMAC-SHA256 of a body: its bytes (32 in the code)

ASSUME ValidationAssumption ==
    /\ MaxLength \in Nat /\ MaxI64 \in Nat
    /\ Digest \in Seq(0..255)

VARIABLES text, number

vvars == <<text, number>>

(* Characters by name.  "sha256" is the prefix sha256= of a signature,     *)
(* which counts as one; "g" stands for those that are no hex digits.       *)
Char == {"sha256", "slash", "blank", "comma", "g", "a", "A", "7"}
HexValue == [digit \in {"7", "a", "A"} |-> IF digit = "7" THEN 7 ELSE 10]

-----------------------------------------------------------------------------
(* str::split and str::trim. *)

Positions(s, char) == {i \in DOMAIN s : s[i] = char}

Split(s, char) ==
    LET cuts == {0, Len(s) + 1} \cup Positions(s, char)
    IN  {SubSeq(s, i + 1, Min({j \in cuts : j > i}) - 1) : i \in cuts \ {Len(s) + 1}}

Trim(s) ==
    LET ink == DOMAIN s \ Positions(s, "blank")
    IN  IF ink = {} THEN <<>> ELSE SubSeq(s, Min(ink), Max(ink))

-----------------------------------------------------------------------------
(* Repository slugs: the API's rule and the contract's. *)

MutantEmptyName(repo) ==
    /\ Cardinality(Positions(repo, "slash")) = 1
    /\ \A part \in Split(repo, "slash") : "blank" \notin Range(part)
validate_github_repo(repo) ==
    /\ Cardinality(Positions(repo, "slash")) = 1
    /\ \A part \in Split(repo, "slash") : part # <<>> /\ "blank" \notin Range(part)

validate_repo(repo) ==
    /\ Cardinality(Positions(repo, "slash")) = 1
    /\ repo[1] # "slash" /\ repo[Len(repo)] # "slash"

(* Every slug the API stores can be registered on chain; the other way     *)
(* round only blanks stand in between.                                     *)
SlugsAgree == validate_github_repo(text) <=> validate_repo(text) /\ "blank" \notin Range(text)

-----------------------------------------------------------------------------
(* The admin keys: AppConfig::from_env, require_admin_key, /ready. *)

MutantNoTrim(var) == Split(var, "comma") \ {<<>>}
api_admin_keys(var) == {Trim(part) : part \in Split(var, "comma")} \ {<<>>}

(* The answer to a request with this x-api-key; "next" lets it pass.       *)
require_admin_key(keys, header) ==
    IF keys = {} THEN "INTERNAL_SERVER_ERROR"
    ELSE IF header \in keys THEN "next" ELSE "UNAUTHORIZED"

MutantRawVariable(db_ok, var) == db_ok /\ var # <<>>
ready(db_ok, var) == db_ok /\ api_admin_keys(var) # {}

(* What stands between two commas, less the blanks around it, where it     *)
(* stands at from..to: read off the text, not computed by split and trim.  *)
StandsAt(from, to) ==
    /\ text[from] # "blank" /\ text[to] # "blank" /\ "comma" \notin Range(SubSeq(text, from, to))
    /\ \E left \in 0..(from - 1) :
          /\ left = 0 \/ text[left] = "comma"
          /\ \A k \in (left + 1)..(from - 1) : text[k] = "blank"
    /\ \E right \in (to + 1)..(Len(text) + 1) :
          /\ right = Len(text) + 1 \/ text[right] = "comma"
          /\ \A k \in (to + 1)..(right - 1) : text[k] = "blank"

(* A request passes with exactly the keys the operator wrote into          *)
(* API_ADMIN_KEYS; empty entries and blanks open nothing, and without a    *)
(* key nobody passes.                                                      *)
KeysAsWritten ==
    LET written == {SubSeq(text, span[1], span[2]) : span \in
                       {s \in (DOMAIN text) \X (DOMAIN text) :
                           s[1] <= s[2] /\ StandsAt(s[1], s[2])}}
        answer(header) == require_admin_key(api_admin_keys(text), header)
    IN  /\ \A header \in written : answer(header) = "next"
        /\ \A i, j \in DOMAIN text :
              answer(SubSeq(text, i, j)) = "next" => SubSeq(text, i, j) \in written
        /\ answer(<<>>) = IF written = {} THEN "INTERNAL_SERVER_ERROR" ELSE "UNAUTHORIZED"

(* A service that reports ready does not answer an admin request with 500  *)
(* for want of a key, and one that would is not ready.                     *)
ReadyMeansConfigured ==
    ready(TRUE, text) <=>
        require_admin_key(api_admin_keys(text), <<>>) # "INTERNAL_SERVER_ERROR"

-----------------------------------------------------------------------------
(* verify_github_signature. *)

(* hex::decode: the bytes, or none. *)
decode(hex) ==
    IF Len(hex) % 2 = 1 \/ ~ Range(hex) \subseteq DOMAIN HexValue THEN {}
    ELSE {[i \in 1..(Len(hex) \div 2) |->
              16 * HexValue[hex[2 * i - 1]] + HexValue[hex[2 * i]]]}

MutantPrefixOfDigest(header) ==
    IF header = <<>> \/ header[1] # "sha256" \/ decode(Tail(header)) = {} THEN "Webhook"
    ELSE IF \E provided \in decode(Tail(header)) :
                \A i \in DOMAIN provided : i \in DOMAIN Digest => provided[i] = Digest[i]
         THEN "verified" ELSE "Unauthorized"
verify_github_signature(header) ==
    IF header = <<>> \/ header[1] # "sha256" \/ decode(Tail(header)) = {} THEN "Webhook"
    ELSE IF decode(Tail(header)) = {Digest} THEN "verified" ELSE "Unauthorized"

(* hex::encode of a byte, in either case. *)
Encodes(hex, byte) ==
    /\ HexValue[hex[1]] = byte \div 16
    /\ HexValue[hex[2]] = byte % 16

(* A delivery is accepted with the encoding of its digest, whole and in    *)
(* either case of the digits, and with nothing else; 401 says that the     *)
(* header was well-formed, 400 that it was not.                            *)
WellFormed(header) ==
    /\ header # <<>> /\ header[1] = "sha256"
    /\ Range(Tail(header)) \subseteq DOMAIN HexValue /\ Len(header) % 2 = 1
SignatureVerdict ==
    LET verdict == verify_github_signature(text)
    IN  /\ verdict # "Webhook" <=> WellFormed(text)
        /\ verdict = "verified" <=>
              /\ WellFormed(text) /\ Len(text) = 1 + 2 * Len(Digest)
              /\ \A i \in DOMAIN Digest :
                    Encodes(SubSeq(text, 2 * i, 2 * i + 1), Digest[i])

-----------------------------------------------------------------------------
(* u64 to i64 and back. *)

Wrap == 2 * (MaxI64 + 1)  \* where a u64 wraps (2^64 in the code)
U64 == 0..(Wrap - 1)

(* i64::try_from(n).unwrap_or(i64::MAX), i64::try_from(n)?, `as u64`. *)
MutantMasked(n) == n % (MaxI64 + 1)
clamped(n) == IF n <= MaxI64 THEN n ELSE MaxI64
MutantStoresClamped(n) == {clamped(n)}
checked(n) == IF n <= MaxI64 THEN {n} ELSE {}
as_u64(i) == i % Wrap

(* The pull requests for which fetch_payout_id finds a row. *)
FoundBy(stored) == {pr \in U64 : clamped(pr) = stored}

(* persist_payout stores a payout under a number that list_payouts gives   *)
(* back and fetch_payout_id finds, and no other number finds it, but for   *)
(* the row of i64::MAX: there the numbers beyond, which cannot be stored,  *)
(* end up as well.                                                         *)
PayoutFound ==
    \A stored \in checked(number) :
        /\ as_u64(stored) = number
        /\ FoundBy(stored) = {number} \cup {pr \in U64 : number = MaxI64 /\ pr > MaxI64}

(* The program a merge is attested for (resolve_program_id) is the one the *)
(* admin named (create_program), or, beyond what a BIGINT holds, the last  *)
(* one: never a small id that belongs to another program.                  *)
AttestedProgram(on_chain_program_id) == as_u64(clamped(on_chain_program_id))
ProgramIdKept ==
    AttestedProgram(number) = IF number <= MaxI64 THEN number ELSE MaxI64

-----------------------------------------------------------------------------
Type(char) ==
    /\ Len(text) < MaxLength /\ number = 0
    /\ text' = Append(text, char)
    /\ UNCHANGED number

Count ==
    /\ text = <<>> /\ number + 1 \in U64
    /\ number' = number + 1
    /\ UNCHANGED text

Reset == <<text, number>> # <<<<>>, 0>> /\ text' = <<>> /\ number' = 0

Init == text = <<>> /\ number = 0
Next == Reset \/ Count \/ \E char \in Char : Type(char)
Spec == Init /\ [][Next]_vvars

=============================================================================
