--------------------------- MODULE ValidationProof ---------------------------
(* Theorems about the operators of Validation: what TLC checks on short    *)
(* texts and small numbers, for every text, digest and integer width.      *)
EXTENDS Validation, SumsProof, SequenceTheorems

InputOK == text \in Seq(Char) /\ number \in U64

LEMMA InputInvariant == Spec => []InputOK
<1>1. Init => InputOK
  BY ValidationAssumption DEF Init, InputOK, U64, Wrap
<1>2. InputOK /\ [Next]_vvars => InputOK'
  <2> SUFFICES ASSUME InputOK, [Next]_vvars PROVE InputOK'
    OBVIOUS
  <2>1. ASSUME NEW char \in Char, Type(char) PROVE InputOK'
    BY <2>1, AppendProperties DEF Type, InputOK
  <2>2. CASE Count
    BY <2>2 DEF Count, InputOK
  <2>3. CASE Reset
    BY <2>3, ValidationAssumption DEF Reset, InputOK, U64, Wrap
  <2> QED BY <2>1, <2>2, <2>3 DEF Next, vvars, InputOK
<1> QED BY <1>1, <1>2, PTL DEF Spec

-----------------------------------------------------------------------------
(* Numbers on their way through a BIGINT. *)

(* What fits a u64 is its own remainder. *)
LEMMA Unwrapped == ASSUME NEW n \in U64 PROVE as_u64(n) = n
<1>1. Wrap \in Nat /\ Wrap > 0 /\ n \in Nat /\ n < Wrap
  BY ValidationAssumption DEF U64, Wrap
<1> QED BY <1>1 DEF as_u64

(* A program is attested under the id its admin named, or, if a BIGINT     *)
(* cannot hold that, under i64::MAX: never under a small one.              *)
THEOREM ProgramIdsKept == Spec => []ProgramIdKept
<1>1. InputOK => ProgramIdKept
  <2> SUFFICES ASSUME InputOK PROVE ProgramIdKept
    OBVIOUS
  <2>1. clamped(number) \in U64
    BY ValidationAssumption DEF InputOK, clamped, U64, Wrap
  <2> QED BY <2>1, Unwrapped DEF ProgramIdKept, AttestedProgram, clamped
<1> QED BY <1>1, InputInvariant, PTL

(* A stored payout is given back and found under its own number; only the  *)
(* numbers no BIGINT holds share a row, that of i64::MAX.                  *)
THEOREM PayoutsFound == Spec => []PayoutFound
<1>1. InputOK => PayoutFound
  <2> SUFFICES ASSUME InputOK, NEW stored \in checked(number)
               PROVE  /\ as_u64(stored) = number
                      /\ FoundBy(stored) =
                             {number} \cup {pr \in U64 : number = MaxI64 /\ pr > MaxI64}
    BY DEF PayoutFound
  <2>1. stored = number /\ number <= MaxI64 /\ number \in U64
    BY DEF checked, InputOK
  <2>2. \A pr \in U64 : clamped(pr) = number <=>
            pr = number \/ (number = MaxI64 /\ pr > MaxI64)
    BY <2>1, ValidationAssumption DEF clamped, U64, Wrap
  <2> QED BY <2>1, <2>2, Unwrapped DEF FoundBy
<1> QED BY <1>1, InputInvariant, PTL

-----------------------------------------------------------------------------
(* Least and greatest elements. *)

LEMMA LeastExists ==
    ASSUME NEW S, S \subseteq Nat, S # {}
    PROVE  \E m \in S : \A k \in S : m <= k
<1> SUFFICES ASSUME \A m \in S : \E k \in S : k < m PROVE FALSE
  OBVIOUS
<1> DEFINE Missed == {n \in Nat : \A k \in 0..n : k \notin S}
<1>1. 0 \in Missed
  OBVIOUS
<1>2. \A n \in Nat : n \in Missed => n + 1 \in Missed
  <2> SUFFICES ASSUME NEW n \in Nat, n \in Missed, n + 1 \in S PROVE FALSE
    OBVIOUS
  <2>1. PICK k \in S : k < n + 1
    OBVIOUS
  <2> QED BY <2>1
<1>3. Nat \subseteq Missed
  <2> HIDE DEF Missed
  <2> QED BY <1>1, <1>2, SetInduction
<1>4. PICK m \in S : m \in Nat
  OBVIOUS
<1>5. m \in Missed /\ m \in 0..m
  BY <1>3, <1>4
<1> QED BY <1>4, <1>5

LEMMA GreatestExists ==
    ASSUME NEW n \in Nat, NEW S, S \subseteq 0..n, S # {}
    PROVE  \E m \in S : \A k \in S : k <= m
<1> DEFINE mirrored == {n - k : k \in S}
<1>1. mirrored \subseteq Nat /\ mirrored # {}
  <2>1. PICK k \in S : n - k \in mirrored
    OBVIOUS
  <2> QED BY <2>1
<1>2. PICK d \in mirrored : \A k \in mirrored : d <= k
  <2> HIDE DEF mirrored
  <2> QED BY <1>1, LeastExists
<1>3. PICK m \in S : d = n - m
  OBVIOUS
<1>4. \A k \in S : n - m <= n - k
  BY <1>2, <1>3
<1> QED BY <1>4

LEMMA MinIs ==
    ASSUME NEW S, S \subseteq Int, NEW m \in S, \A k \in S : m <= k
    PROVE  Min(S) = m
<1>1. Min(S) \in S /\ \A k \in S : Min(S) <= k
  BY DEF Min
<1>2. Min(S) <= m /\ m <= Min(S) /\ Min(S) \in Int /\ m \in Int
  BY <1>1
<1> QED BY <1>2

LEMMA MaxIs ==
    ASSUME NEW S, S \subseteq Int, NEW m \in S, \A k \in S : k <= m
    PROVE  Max(S) = m
<1>1. Max(S) \in S /\ \A k \in S : Max(S) >= k
  BY DEF Max
<1>2. Max(S) >= m /\ Max(S) <= m /\ Max(S) \in Int /\ m \in Int
  BY <1>1
<1> QED BY <1>2

-----------------------------------------------------------------------------
(* str::split and str::trim. *)

LEMMA TextIs ==
    ASSUME NEW s \in Seq(Char)
    PROVE  /\ Len(s) \in Nat /\ DOMAIN s = 1..Len(s)
           /\ \A k \in 1..Len(s) : s[k] \in Char
BY LenProperties

(* Position i is a cut of s, n the next one. *)
Gap(s, char, i, n) ==
    /\ i \in 0..Len(s) /\ n \in (i + 1)..(Len(s) + 1)
    /\ i = 0 \/ s[i] = char
    /\ n = Len(s) + 1 \/ s[n] = char
    /\ \A k \in (i + 1)..(n - 1) : s[k] # char

(* The parts of a text are what stands in its gaps. *)
LEMMA SplitIs ==
    ASSUME NEW s \in Seq(Char), NEW char, NEW part
    PROVE  part \in Split(s, char) <=>
               \E i \in 0..Len(s), n \in 1..(Len(s) + 1) :
                   Gap(s, char, i, n) /\ part = SubSeq(s, i + 1, n - 1)
<1> DEFINE cuts == {0, Len(s) + 1} \cup Positions(s, char)
           next(i) == Min({j \in cuts : j > i})
<1>0. Len(s) \in Nat /\ DOMAIN s = 1..Len(s)
  BY TextIs
<1>1. /\ cuts \subseteq 0..(Len(s) + 1)
      /\ \A k \in 1..Len(s) : k \in cuts <=> s[k] = char
      /\ 0 \in cuts /\ Len(s) + 1 \in cuts
  BY <1>0 DEF Positions
<1>2. part \in Split(s, char) <=>
          \E i \in cuts \ {Len(s) + 1} : part = SubSeq(s, i + 1, next(i) - 1)
  BY DEF Split
<1> HIDE DEF cuts
<1>3. ASSUME NEW i \in cuts, NEW n \in cuts, i < n, \A k \in cuts : k > i => n <= k
      PROVE  next(i) = n /\ Gap(s, char, i, n)
  <2> DEFINE later == {j \in cuts : j > i}
  <2>1. /\ \A k \in later : k \in Int /\ n <= k
        /\ n \in later
    BY <1>0, <1>1, <1>3
  <2>2. next(i) = n
    <3> HIDE DEF later
    <3>1. later \subseteq Int
      BY <2>1
    <3>2. Min(later) = n
      BY <2>1, <3>1, MinIs
    <3> QED BY <3>2 DEF later
  <2>3. i \in 0..Len(s) /\ n \in (i + 1)..(Len(s) + 1)
    BY <1>0, <1>1, <1>3
  <2>4. \A k \in (i + 1)..(n - 1) : k \in 1..Len(s) /\ k \notin cuts
    BY <1>0, <1>3, <2>3
  <2>5. (i = 0 \/ s[i] = char) /\ (n = Len(s) + 1 \/ s[n] = char)
    BY <1>0, <1>1, <1>3, <2>3
  <2> QED BY <1>1, <2>2, <2>3, <2>4, <2>5 DEF Gap
<1>4. ASSUME part \in Split(s, char)
      PROVE  \E i \in 0..Len(s), n \in 1..(Len(s) + 1) :
                 Gap(s, char, i, n) /\ part = SubSeq(s, i + 1, n - 1)
  <2>1. PICK i \in cuts \ {Len(s) + 1} : part = SubSeq(s, i + 1, next(i) - 1)
    BY <1>2, <1>4
  <2> DEFINE later == {j \in cuts : j > i}
  <2>2. i \in 0..Len(s)
    BY <1>0, <1>1
  <2>3. /\ \A k \in later : k \in Nat
        /\ Len(s) + 1 \in later
    BY <1>0, <1>1, <2>2
  <2>4. PICK n \in later : \A k \in later : n <= k
    <3> HIDE DEF later
    <3> QED BY <2>3, LeastExists
  <2>5. next(i) = n /\ Gap(s, char, i, n)
    BY <1>3, <2>4
  <2>6. n \in 1..(Len(s) + 1)
    BY <1>0, <2>2, <2>5 DEF Gap
  <2> QED BY <2>1, <2>2, <2>5, <2>6
<1>5. ASSUME NEW i \in 0..Len(s), NEW n \in 1..(Len(s) + 1), Gap(s, char, i, n),
             part = SubSeq(s, i + 1, n - 1)
      PROVE  part \in Split(s, char)
  <2>0. /\ i \in Int /\ n \in Int /\ 0 <= i /\ i < n /\ n <= Len(s) + 1
        /\ i = 0 \/ s[i] = char
        /\ n = Len(s) + 1 \/ s[n] = char
        /\ \A k \in (i + 1)..(n - 1) : s[k] # char
    BY <1>0, <1>5 DEF Gap
  <2>1. /\ i \in cuts \ {Len(s) + 1} /\ n \in cuts /\ i < n
        /\ \A k \in (i + 1)..(n - 1) : k \notin cuts
    <3>1. i \in cuts
      BY <1>0, <1>1, <2>0
    <3>2. n \in cuts
      BY <1>0, <1>1, <2>0
    <3>3. ASSUME NEW k \in (i + 1)..(n - 1) PROVE k \notin cuts
      BY <1>0, <1>1, <2>0
    <3> QED BY <1>0, <2>0, <3>1, <3>2, <3>3
  <2>2. \A k \in cuts : k > i => n <= k
    BY <1>0, <1>1, <2>1
  <2>3. next(i) = n
    BY <1>3, <2>1, <2>2
  <2> QED BY <1>2, <1>5, <2>1, <2>3
<1> QED BY <1>4, <1>5

LEMMA GapIsPart ==
    ASSUME NEW s \in Seq(Char), NEW char, NEW i \in 0..Len(s), NEW n \in 1..(Len(s) + 1),
           Gap(s, char, i, n)
    PROVE  SubSeq(s, i + 1, n - 1) \in Split(s, char)
BY SplitIs

(* What a part of a text holds. *)
LEMMA PartIs ==
    ASSUME NEW s \in Seq(Char), NEW i \in 1..(Len(s) + 1), NEW j \in 0..Len(s)
    PROVE  /\ SubSeq(s, i, j) \in Seq(Char)
           /\ Len(SubSeq(s, i, j)) = IF i <= j THEN j - i + 1 ELSE 0
           /\ \A k \in 1..(j - i + 1) : SubSeq(s, i, j)[k] = s[i + k - 1]
           /\ SubSeq(s, i, j) = <<>> <=> j < i
           /\ \A char : char \notin Range(SubSeq(s, i, j)) <=> \A k \in i..j : s[k] # char
<1> DEFINE part == SubSeq(s, i, j)
<1>1. Len(s) \in Nat /\ \A k \in i..j : s[k] \in Char
  BY TextIs
<1>2. /\ part \in Seq(Char)
      /\ Len(part) = IF i <= j THEN j - i + 1 ELSE 0
      /\ \A k \in 1..(j - i + 1) : part[k] = s[i + k - 1]
  BY <1>1, SubSeqProperties
<1>3. part = <<>> <=> j < i
  BY <1>1, <1>2, SubSeqEmpty, EmptySeq
<1>4. DOMAIN part = 1..(j - i + 1)
  BY <1>1, <1>2, TextIs
<1>5. ASSUME NEW char PROVE char \notin Range(part) <=> \A k \in i..j : s[k] # char
  <2>1. char \notin Range(part) <=> \A k \in 1..(j - i + 1) : s[i + k - 1] # char
    BY <1>2, <1>4 DEF Range
  <2>2. ASSUME \A k \in 1..(j - i + 1) : s[i + k - 1] # char, NEW k \in i..j
        PROVE  s[k] # char
    <3>1. k - i + 1 \in 1..(j - i + 1) /\ i + (k - i + 1) - 1 = k
      BY <1>1
    <3> QED BY <2>2, <3>1
  <2>3. \A k \in 1..(j - i + 1) : i + k - 1 \in i..j
    BY <1>1
  <2> QED BY <2>1, <2>2, <2>3
<1> QED BY <1>2, <1>3, <1>5

(* One position in a text has the character. *)
LEMMA OneOccurrence ==
    ASSUME NEW s \in Seq(Char), NEW char, Cardinality(Positions(s, char)) = 1
    PROVE  \E p \in 1..Len(s) : s[p] = char /\ \A k \in 1..Len(s) : s[k] = char => k = p
<1>1. Positions(s, char) \subseteq 1..Len(s) /\ IsFiniteSet(1..Len(s))
  <2>1. Len(s) \in Nat /\ DOMAIN s = 1..Len(s)
    BY TextIs
  <2>2. IsFiniteSet(1..Len(s))
    BY <2>1, FS_Interval
  <2> QED BY <2>1, <2>2 DEF Positions
<1>2. IsFiniteSet(Positions(s, char))
  BY <1>1, FS_Subset
<1>3. PICK p : Positions(s, char) = {p}
  BY <1>2, FS_Singleton
<1> QED BY <1>1, <1>3, TextIs DEF Positions

(* The API and the contract take the same slugs, but for blanks. *)
THEOREM SlugRulesAgree == Spec => []SlugsAgree
<1>1. InputOK => SlugsAgree
  <2> SUFFICES ASSUME text \in Seq(Char), Cardinality(Positions(text, "slash")) = 1
               PROVE  (\A part \in Split(text, "slash") : part # <<>> /\ "blank" \notin Range(part))
                      <=> /\ text[1] # "slash" /\ text[Len(text)] # "slash"
                          /\ "blank" \notin Range(text)
    BY DEF InputOK, SlugsAgree, validate_github_repo, validate_repo
  <2>0. Len(text) \in Nat /\ DOMAIN text = 1..Len(text)
    BY TextIs
  <2>1. PICK p \in 1..Len(text) :
            text[p] = "slash" /\ \A k \in 1..Len(text) : text[k] = "slash" => k = p
    BY OneOccurrence
  <2>2. /\ Gap(text, "slash", 0, p) /\ Gap(text, "slash", p, Len(text) + 1)
        /\ SubSeq(text, 1, p - 1) \in Split(text, "slash")
        /\ SubSeq(text, p + 1, Len(text)) \in Split(text, "slash")
    <3>1. Gap(text, "slash", 0, p) /\ Gap(text, "slash", p, Len(text) + 1)
      BY <2>0, <2>1 DEF Gap
    <3>2. /\ 0 \in 0..Len(text) /\ p \in 0..Len(text)
          /\ p \in 1..(Len(text) + 1) /\ Len(text) + 1 \in 1..(Len(text) + 1)
      BY <2>0
    <3>3. /\ SubSeq(text, 0 + 1, p - 1) \in Split(text, "slash")
          /\ SubSeq(text, p + 1, Len(text) + 1 - 1) \in Split(text, "slash")
      BY <3>1, <3>2, GapIsPart
    <3>4. 0 + 1 = 1 /\ Len(text) + 1 - 1 = Len(text)
      BY <2>0
    <3> QED BY <3>1, <3>3, <3>4
  <2>3. "blank" \notin Range(text) <=> \A k \in 1..Len(text) : text[k] # "blank"
    BY <2>0 DEF Range
  <2>4. ASSUME \A part \in Split(text, "slash") : part # <<>> /\ "blank" \notin Range(part)
        PROVE  text[1] # "slash" /\ text[Len(text)] # "slash" /\ "blank" \notin Range(text)
    <3>1. /\ p - 1 >= 1 /\ \A k \in 1..(p - 1) : text[k] # "blank"
          /\ Len(text) >= p + 1 /\ \A k \in (p + 1)..Len(text) : text[k] # "blank"
      <4>1. /\ 1 \in 1..(Len(text) + 1) /\ p - 1 \in 0..Len(text)
            /\ p + 1 \in 1..(Len(text) + 1) /\ Len(text) \in 0..Len(text)
        BY <2>0
      <4>2. /\ SubSeq(text, 1, p - 1) # <<>> /\ "blank" \notin Range(SubSeq(text, 1, p - 1))
            /\ SubSeq(text, p + 1, Len(text)) # <<>>
            /\ "blank" \notin Range(SubSeq(text, p + 1, Len(text)))
        BY <2>2, <2>4
      <4>3. ~(p - 1 < 1) /\ \A k \in 1..(p - 1) : text[k] # "blank"
        BY <4>1, <4>2, PartIs
      <4>4. ~(Len(text) < p + 1) /\ \A k \in (p + 1)..Len(text) : text[k] # "blank"
        BY <4>1, <4>2, PartIs
      <4> QED BY <2>0, <4>3, <4>4
    <3> QED BY <2>0, <2>1, <2>3, <3>1
  <2>5. ASSUME text[1] # "slash", text[Len(text)] # "slash", "blank" \notin Range(text),
               NEW part \in Split(text, "slash")
        PROVE  part # <<>> /\ "blank" \notin Range(part)
    <3>1. PICK i \in 0..Len(text), n \in 1..(Len(text) + 1) :
              Gap(text, "slash", i, n) /\ part = SubSeq(text, i + 1, n - 1)
      BY SplitIs
    <3>2. i + 1 \in 1..(Len(text) + 1) /\ n - 1 \in 0..Len(text)
      BY <2>0
    <3>3. n - 1 >= i + 1
      BY <2>0, <2>1, <2>5, <3>1 DEF Gap
    <3>4. \A k \in (i + 1)..(n - 1) : text[k] # "blank"
      BY <2>0, <2>3, <2>5
    <3>5. ~(n - 1 < i + 1)
      BY <2>0, <3>3
    <3>6. /\ SubSeq(text, i + 1, n - 1) # <<>>
          /\ "blank" \notin Range(SubSeq(text, i + 1, n - 1))
      BY <3>2, <3>4, <3>5, PartIs
    <3> QED BY <3>1, <3>6
  <2> QED BY <2>4, <2>5
<1> QED BY <1>1, InputInvariant, PTL

(* a and b are the first and the last position of s that is not blank. *)
Ends(s, a, b) ==
    /\ a \in 1..Len(s) /\ b \in a..Len(s) /\ s[a] # "blank" /\ s[b] # "blank"
    /\ \A k \in 1..Len(s) : s[k] # "blank" => a <= k /\ k <= b

LEMMA TrimIs ==
    ASSUME NEW s \in Seq(Char)
    PROVE  /\ \A a, b : Ends(s, a, b) => Trim(s) = SubSeq(s, a, b)
           /\ Trim(s) # <<>> => \E a \in 1..Len(s), b \in 1..Len(s) : Ends(s, a, b)
<1> DEFINE ink == DOMAIN s \ Positions(s, "blank")
<1>0. Len(s) \in Nat /\ DOMAIN s = 1..Len(s)
  BY TextIs
<1>1. \A k : k \in ink <=> k \in 1..Len(s) /\ s[k] # "blank"
  BY <1>0 DEF Positions
<1>2. Trim(s) = IF ink = {} THEN <<>> ELSE SubSeq(s, Min(ink), Max(ink))
  BY DEF Trim
<1> HIDE DEF ink
<1>3. ink \subseteq Nat /\ ink \subseteq 0..Len(s) /\ ink \subseteq Int
  BY <1>0, <1>1
<1>4. ASSUME NEW a, NEW b, Ends(s, a, b) PROVE Trim(s) = SubSeq(s, a, b)
  <2>1. a \in ink /\ b \in ink /\ \A k \in ink : a <= k /\ k <= b
    BY <1>0, <1>1, <1>4 DEF Ends
  <2>2. Min(ink) = a /\ Max(ink) = b
    BY <1>3, <2>1, MinIs, MaxIs
  <2> QED BY <1>2, <2>1, <2>2
<1>5. ASSUME Trim(s) # <<>>
      PROVE  \E a \in 1..Len(s), b \in 1..Len(s) : Ends(s, a, b)
  <2>1. ink # {}
    BY <1>2, <1>5
  <2>2. PICK a \in ink : \A k \in ink : a <= k
    BY <1>3, <2>1, LeastExists
  <2>3. PICK b \in ink : \A k \in ink : k <= b
    BY <1>0, <1>3, <2>1, GreatestExists
  <2>4. a \in 1..Len(s) /\ b \in 1..Len(s) /\ a <= b
    BY <1>1, <2>2, <2>3
  <2>5. Ends(s, a, b)
    BY <1>0, <1>1, <2>2, <2>3, <2>4 DEF Ends
  <2> QED BY <2>4, <2>5
<1> QED BY <1>4, <1>5

-----------------------------------------------------------------------------
(* The admin keys. *)

(* A key stands between two commas, less the blanks around it. *)
LEMMA StandingIsKey ==
    ASSUME text \in Seq(Char), NEW from \in 1..Len(text), NEW to \in from..Len(text),
           StandsAt(from, to)
    PROVE  SubSeq(text, from, to) \in api_admin_keys(text)
<1>0. Len(text) \in Nat
  BY TextIs
<1>1. PICK left \in 0..(from - 1) :
          /\ left = 0 \/ text[left] = "comma"
          /\ \A k \in (left + 1)..(from - 1) : text[k] = "blank"
  BY DEF StandsAt
<1>2. PICK right \in (to + 1)..(Len(text) + 1) :
          /\ right = Len(text) + 1 \/ text[right] = "comma"
          /\ \A k \in (to + 1)..(right - 1) : text[k] = "blank"
  BY DEF StandsAt
<1>3. /\ text[from] # "blank" /\ text[to] # "blank"
      /\ \A k \in from..to : text[k] # "comma"
  <2>1. from \in 1..(Len(text) + 1) /\ to \in 0..Len(text)
    BY <1>0
  <2> QED BY <2>1, PartIs DEF StandsAt
<1>4. Gap(text, "comma", left, right)
  <2>1. \A k \in (left + 1)..(right - 1) :
            k \in (left + 1)..(from - 1) \/ k \in from..to \/ k \in (to + 1)..(right - 1)
    BY <1>0
  <2>2. \A k \in (left + 1)..(right - 1) : text[k] # "comma"
    BY <1>1, <1>2, <1>3, <2>1
  <2>3. left \in 0..Len(text) /\ right \in (left + 1)..(Len(text) + 1)
    BY <1>0
  <2> QED BY <1>1, <1>2, <2>2, <2>3 DEF Gap
<1> DEFINE part == SubSeq(text, left + 1, right - 1)
           a == from - left
           b == to - left
<1>5. /\ left \in 0..Len(text) /\ right \in 1..(Len(text) + 1)
      /\ left + 1 \in 1..Len(text) /\ right - 1 \in 1..Len(text)
      /\ left + 1 \in 1..(Len(text) + 1) /\ right - 1 \in 0..Len(text)
      /\ left + 1 <= right - 1 /\ (right - 1) - (left + 1) + 1 = right - left - 1
  BY <1>0
<1>6. part \in Split(text, "comma")
  BY <1>4, <1>5, GapIsPart
<1>7. /\ part \in Seq(Char) /\ Len(part) = right - left - 1
      /\ \A k \in 1..(right - left - 1) : part[k] = text[left + 1 + k - 1]
  BY <1>5, PartIs
<1>8. Ends(part, a, b)
  <2>1. /\ a \in 1..(right - left - 1) /\ b \in a..(right - left - 1)
        /\ left + 1 + a - 1 = from /\ left + 1 + b - 1 = to
    BY <1>0
  <2>2. part[a] # "blank" /\ part[b] # "blank"
    BY <1>3, <1>7, <2>1
  <2>3. ASSUME NEW k \in 1..(right - left - 1), part[k] # "blank" PROVE a <= k /\ k <= b
    <3>1. text[left + k] # "blank" /\ left + k \in (left + 1)..(right - 1)
      BY <1>0, <1>7, <2>3
    <3>2. left + k \notin (left + 1)..(from - 1) /\ left + k \notin (to + 1)..(right - 1)
      BY <1>1, <1>2, <3>1
    <3> QED BY <1>0, <3>1, <3>2
  <2> HIDE DEF part
  <2> QED BY <1>7, <2>1, <2>2, <2>3 DEF Ends
<1>9. Trim(part) = SubSeq(text, from, to)
  <2>1. Trim(part) = SubSeq(part, a, b)
    BY <1>7, <1>8, TrimIs
  <2>2. /\ a \in 1..((right - 1) - (left + 1) + 1) /\ b \in 1..((right - 1) - (left + 1) + 1)
        /\ left + 1 + a - 1 = from /\ left + 1 + b - 1 = to
    BY <1>0
  <2>3. SubSeq(part, a, b) = SubSeq(text, left + 1 + a - 1, left + 1 + b - 1)
    <3> HIDE DEF a, b
    <3> QED BY <1>5, <2>2, SubSeqOfSubSeq
  <2> QED BY <2>1, <2>2, <2>3
<1>10. SubSeq(text, from, to) # <<>>
  <2>1. from \in 1..(Len(text) + 1) /\ to \in 0..Len(text) /\ ~(to < from)
    BY <1>0
  <2> QED BY <2>1, PartIs
<1> QED BY <1>6, <1>9, <1>10 DEF api_admin_keys

LEMMA KeyIsStanding ==
    ASSUME text \in Seq(Char), NEW key \in api_admin_keys(text)
    PROVE  \E from \in 1..Len(text), to \in 1..Len(text) :
               from <= to /\ StandsAt(from, to) /\ key = SubSeq(text, from, to)
<1>0. Len(text) \in Nat
  BY TextIs
<1>1. PICK part \in Split(text, "comma") : key = Trim(part) /\ Trim(part) # <<>>
  BY DEF api_admin_keys
<1>2. PICK i \in 0..Len(text), n \in 1..(Len(text) + 1) :
          Gap(text, "comma", i, n) /\ part = SubSeq(text, i + 1, n - 1)
  BY SplitIs
<1>3. /\ i + 1 \in 1..(Len(text) + 1) /\ n - 1 \in 0..Len(text) /\ i + 1 <= n
      /\ (n - 1) - (i + 1) + 1 = n - i - 1
  BY <1>0, <1>2 DEF Gap
<1>4. /\ part \in Seq(Char)
      /\ Len(part) = IF i + 1 <= n - 1 THEN n - i - 1 ELSE 0
      /\ \A k \in 1..(n - i - 1) : part[k] = text[i + 1 + k - 1]
  BY <1>2, <1>3, PartIs
<1>5. PICK a \in 1..Len(part), b \in 1..Len(part) : Ends(part, a, b)
  BY <1>1, <1>4, TrimIs
<1> DEFINE from == i + a
           to == i + b
<1>6. /\ a <= b /\ a \in 1..(n - i - 1) /\ b \in 1..(n - i - 1)
      /\ part[a] # "blank" /\ part[b] # "blank"
      /\ \A k \in 1..(n - i - 1) : part[k] # "blank" => a <= k /\ k <= b
  BY <1>0, <1>3, <1>4, <1>5 DEF Ends
<1>7. /\ from \in 1..Len(text) /\ to \in 1..Len(text) /\ from <= to
      /\ i + 1 + a - 1 = from /\ i + 1 + b - 1 = to
  BY <1>0, <1>6
<1>8. key = SubSeq(text, from, to)
  <2>1. key = SubSeq(part, a, b)
    BY <1>1, <1>4, <1>5, TrimIs
  <2>2. /\ i + 1 \in 1..Len(text) /\ n - 1 \in 1..Len(text)
        /\ a \in 1..((n - 1) - (i + 1) + 1) /\ b \in 1..((n - 1) - (i + 1) + 1)
    BY <1>0, <1>3, <1>6
  <2>3. SubSeq(SubSeq(text, i + 1, n - 1), a, b) = SubSeq(text, i + 1 + a - 1, i + 1 + b - 1)
    BY <2>2, SubSeqOfSubSeq
  <2> QED BY <1>2, <1>7, <2>1, <2>3
<1>9. StandsAt(from, to)
  <2>1. text[from] # "blank" /\ text[to] # "blank"
    BY <1>4, <1>6, <1>7
  <2>2. "comma" \notin Range(SubSeq(text, from, to))
    <3>1. \A k \in from..to : k \in (i + 1)..(n - 1)
      BY <1>0, <1>6
    <3>2. \A k \in from..to : text[k] # "comma"
      BY <1>2, <3>1 DEF Gap
    <3>3. from \in 1..(Len(text) + 1) /\ to \in 0..Len(text)
      BY <1>0, <1>7
    <3> HIDE DEF from, to
    <3> QED BY <3>2, <3>3, PartIs
  <2>3. ASSUME NEW k \in (i + 1)..(n - 1), k < from \/ to < k PROVE text[k] = "blank"
    <3>1. k - i \in 1..(n - i - 1) /\ i + 1 + (k - i) - 1 = k /\ (k - i < a \/ b < k - i)
      BY <1>0, <1>6, <2>3
    <3>2. ~(a <= k - i /\ k - i <= b)
      BY <1>6, <3>1
    <3> QED BY <1>4, <1>6, <3>1, <3>2
  <2>4. i \in 0..(from - 1) /\ \A k \in (i + 1)..(from - 1) : k \in (i + 1)..(n - 1) /\ k < from
    BY <1>0, <1>6
  <2>5. /\ n \in (to + 1)..(Len(text) + 1)
        /\ \A k \in (to + 1)..(n - 1) : k \in (i + 1)..(n - 1) /\ to < k
    BY <1>0, <1>3, <1>6
  <2>6. (i = 0 \/ text[i] = "comma") /\ (n = Len(text) + 1 \/ text[n] = "comma")
    BY <1>2 DEF Gap
  <2> HIDE DEF from, to
  <2> QED BY <2>1, <2>2, <2>3, <2>4, <2>5, <2>6 DEF StandsAt
<1> HIDE DEF from, to
<1> QED BY <1>7, <1>8, <1>9

(* A request passes with the keys that API_ADMIN_KEYS spells out, and with *)
(* no other; when it spells out none, nobody passes.                       *)
THEOREM KeysWritten == Spec => []KeysAsWritten
<1>1. InputOK => KeysAsWritten
  <2> SUFFICES ASSUME text \in Seq(Char) PROVE KeysAsWritten
    BY DEF InputOK
  <2> DEFINE spans == {s \in (DOMAIN text) \X (DOMAIN text) :
                           s[1] <= s[2] /\ StandsAt(s[1], s[2])}
             written == {SubSeq(text, span[1], span[2]) : span \in spans}
  <2>0. Len(text) \in Nat /\ DOMAIN text = 1..Len(text)
    BY TextIs
  <2>1. ASSUME NEW key \in written PROVE key \in api_admin_keys(text)
    <3>1. PICK s \in spans : key = SubSeq(text, s[1], s[2])
      OBVIOUS
    <3>2. s[1] \in 1..Len(text) /\ s[2] \in s[1]..Len(text) /\ StandsAt(s[1], s[2])
      BY <2>0
    <3> QED BY <3>1, <3>2, StandingIsKey
  <2>2. ASSUME NEW key \in api_admin_keys(text) PROVE key \in written
    <3>1. PICK from \in 1..Len(text), to \in 1..Len(text) :
              from <= to /\ StandsAt(from, to) /\ key = SubSeq(text, from, to)
      BY KeyIsStanding
    <3>2. <<from, to>> \in spans
      BY <2>0, <3>1
    <3>3. <<from, to>>[1] = from /\ <<from, to>>[2] = to
      OBVIOUS
    <3> HIDE DEF spans
    <3> QED BY <3>1, <3>2, <3>3
  <2>3. written = api_admin_keys(text) /\ <<>> \notin api_admin_keys(text)
    <3> HIDE DEF written
    <3> QED BY <2>1, <2>2 DEF api_admin_keys
  <2>4. /\ \A header \in written : require_admin_key(written, header) = "next"
        /\ \A header : require_admin_key(written, header) = "next" => header \in written
        /\ require_admin_key(written, <<>>) =
               IF written = {} THEN "INTERNAL_SERVER_ERROR" ELSE "UNAUTHORIZED"
    <3> HIDE DEF written
    <3> QED BY <2>3 DEF require_admin_key
  <2> HIDE DEF written
  <2>5. /\ \A header \in written : require_admin_key(api_admin_keys(text), header) = "next"
        /\ \A i, j \in DOMAIN text :
              require_admin_key(api_admin_keys(text), SubSeq(text, i, j)) = "next"
                  => SubSeq(text, i, j) \in written
        /\ require_admin_key(api_admin_keys(text), <<>>) =
               IF written = {} THEN "INTERNAL_SERVER_ERROR" ELSE "UNAUTHORIZED"
    BY <2>3, <2>4
  <2> QED BY <2>5 DEF KeysAsWritten, written
<1> QED BY <1>1, InputInvariant, PTL

(* Readiness and the middleware agree on whether a key is configured. *)
THEOREM ReadyIsConfigured == Spec => []ReadyMeansConfigured
<1>1. ReadyMeansConfigured
  BY DEF ReadyMeansConfigured, ready, require_admin_key
<1> QED BY <1>1, PTL

-----------------------------------------------------------------------------
(* The signature header. *)

LEMMA HexValueIs ==
    /\ DOMAIN HexValue = {"7", "a", "A"}
    /\ \A digit \in DOMAIN HexValue : HexValue[digit] \in 0..15
BY DEF HexValue

(* A byte and its two digits. *)
LEMMA TwoDigits ==
    ASSUME NEW high \in 0..15, NEW low \in 0..15, NEW byte \in 0..255
    PROVE  16 * high + low = byte <=> high = byte \div 16 /\ low = byte % 16
OBVIOUS

LEMMA Halved ==
    ASSUME NEW n \in Nat, n % 2 = 0
    PROVE  n \div 2 \in Nat /\ n = 2 * (n \div 2)
OBVIOUS

Bytes(hex) == [i \in 1..(Len(hex) \div 2) |->
                  16 * HexValue[hex[2 * i - 1]] + HexValue[hex[2 * i]]]

LEMMA DecodeIs ==
    ASSUME NEW hex
    PROVE  /\ decode(hex) = {} <=> Len(hex) % 2 = 1 \/ ~ Range(hex) \subseteq DOMAIN HexValue
           /\ decode(hex) # {} => decode(hex) = {Bytes(hex)}
BY DEF decode, Bytes

LEMMA DigestIs ==
    /\ Len(Digest) \in Nat /\ DOMAIN Digest = 1..Len(Digest)
    /\ \A i \in 1..Len(Digest) : Digest[i] \in 0..255
    /\ Digest = [i \in 1..Len(Digest) |-> Digest[i]]
<1>1. Digest \in Seq(0..255)
  BY ValidationAssumption
<1>2. Len(Digest) \in Nat /\ Digest \in [1..Len(Digest) -> 0..255]
  BY <1>1, LenProperties
<1> QED BY <1>2

(* The bytes are the digest if and only if the digits encode it. *)
LEMMA BytesAreDigest ==
    ASSUME NEW hex \in Seq(Char), Len(hex) % 2 = 0, Range(hex) \subseteq DOMAIN HexValue
    PROVE  Bytes(hex) = Digest <=>
               /\ Len(hex) = 2 * Len(Digest)
               /\ \A i \in 1..Len(Digest) :
                      /\ HexValue[hex[2 * i - 1]] = Digest[i] \div 16
                      /\ HexValue[hex[2 * i]] = Digest[i] % 16
<1>0. /\ Len(hex) \in Nat /\ DOMAIN hex = 1..Len(hex)
      /\ Len(Digest) \in Nat /\ DOMAIN Digest = 1..Len(Digest)
      /\ \A i \in 1..Len(Digest) : Digest[i] \in 0..255
      /\ Digest = [i \in 1..Len(Digest) |-> Digest[i]]
  <2>1. Len(hex) \in Nat /\ DOMAIN hex = 1..Len(hex)
    BY TextIs
  <2> QED BY <2>1, DigestIs
<1> DEFINE half == Len(hex) \div 2
<1>1. half \in Nat /\ Len(hex) = 2 * half
  BY <1>0, Halved
<1>2. \A i \in 1..half : HexValue[hex[2 * i - 1]] \in 0..15 /\ HexValue[hex[2 * i]] \in 0..15
  <2> SUFFICES ASSUME NEW i \in 1..half
               PROVE  HexValue[hex[2 * i - 1]] \in 0..15 /\ HexValue[hex[2 * i]] \in 0..15
    OBVIOUS
  <2>1. 2 * i - 1 \in DOMAIN hex /\ 2 * i \in DOMAIN hex
    BY <1>0, <1>1
  <2>2. hex[2 * i - 1] \in DOMAIN HexValue /\ hex[2 * i] \in DOMAIN HexValue
    BY <2>1 DEF Range
  <2> QED BY <2>2, HexValueIs
<1>3. /\ DOMAIN Bytes(hex) = 1..half
      /\ \A i \in 1..half : Bytes(hex)[i] = 16 * HexValue[hex[2 * i - 1]] + HexValue[hex[2 * i]]
      /\ Bytes(hex) = [i \in 1..half |-> Bytes(hex)[i]]
  BY DEF Bytes
<1> HIDE DEF half
<1>4. Bytes(hex) = Digest <=>
          half = Len(Digest) /\ \A i \in 1..half : Bytes(hex)[i] = Digest[i]
  <2>1. Bytes(hex) = Digest => 1..half = 1..Len(Digest)
    BY <1>0, <1>3
  <2>2. 1..half = 1..Len(Digest) => half = Len(Digest)
    BY <1>0, <1>1
  <2>3. half = Len(Digest) /\ (\A i \in 1..half : Bytes(hex)[i] = Digest[i])
            => Bytes(hex) = Digest
    BY <1>0, <1>3
  <2> QED BY <2>1, <2>2, <2>3
<1>5. ASSUME half = Len(Digest), NEW i \in 1..half
      PROVE  Bytes(hex)[i] = Digest[i] <=>
                 /\ HexValue[hex[2 * i - 1]] = Digest[i] \div 16
                 /\ HexValue[hex[2 * i]] = Digest[i] % 16
  <2>1. Digest[i] \in 0..255
    BY <1>0, <1>5
  <2>2. HexValue[hex[2 * i - 1]] \in 0..15 /\ HexValue[hex[2 * i]] \in 0..15
    BY <1>2
  <2>3. 16 * HexValue[hex[2 * i - 1]] + HexValue[hex[2 * i]] = Digest[i] <=>
            /\ HexValue[hex[2 * i - 1]] = Digest[i] \div 16
            /\ HexValue[hex[2 * i]] = Digest[i] % 16
    <3> DEFINE high == HexValue[hex[2 * i - 1]]
               low == HexValue[hex[2 * i]]
               byte == Digest[i]
    <3>1. high \in 0..15 /\ low \in 0..15 /\ byte \in 0..255
      BY <2>1, <2>2
    <3> HIDE DEF high, low, byte
    <3>2. 16 * high + low = byte <=> high = byte \div 16 /\ low = byte % 16
      BY <3>1, TwoDigits
    <3> QED BY <3>2 DEF high, low, byte
  <2>4. Bytes(hex)[i] = 16 * HexValue[hex[2 * i - 1]] + HexValue[hex[2 * i]]
    BY <1>3
  <2> QED BY <2>3, <2>4
<1> QED BY <1>0, <1>1, <1>4, <1>5

(* A delivery is accepted with the hex digits of its digest, all of them,  *)
(* in either case, and with nothing else.                                  *)
THEOREM VerdictOnSignature == Spec => []SignatureVerdict
<1>1. InputOK => SignatureVerdict
  <2> SUFFICES ASSUME text \in Seq(Char) PROVE SignatureVerdict
    BY DEF InputOK
  <2> DEFINE hex == Tail(text)
             verdict == verify_github_signature(text)
             encoded == /\ Len(text) = 1 + 2 * Len(Digest)
                        /\ \A i \in DOMAIN Digest :
                              Encodes(SubSeq(text, 2 * i, 2 * i + 1), Digest[i])
  <2>0. /\ Len(text) \in Nat
        /\ Len(Digest) \in Nat /\ DOMAIN Digest = 1..Len(Digest)
    BY TextIs, LenProperties, ValidationAssumption
  <2>1. verdict # "Webhook" <=>
            text # <<>> /\ text[1] = "sha256" /\ decode(hex) # {}
    BY DEF verify_github_signature
  <2>2. CASE text = <<>>
    BY <2>1, <2>2 DEF SignatureVerdict, WellFormed, verify_github_signature
  <2>3. CASE text # <<>>
    <3>1. /\ hex \in Seq(Char) /\ Len(hex) = Len(text) - 1 /\ Len(text) >= 1
          /\ \A i \in 1..Len(hex) : hex[i] = text[i + 1]
      BY <2>0, <2>3, HeadTailProperties, EmptySeq
    <3>2. Len(hex) % 2 = 1 <=> Len(text) % 2 # 1
      BY <2>0, <3>1
    <3>3. verdict # "Webhook" <=> WellFormed(text)
      BY <2>1, <2>3, <3>2, DecodeIs DEF WellFormed
    <3>4. verdict = "verified" <=> verdict # "Webhook" /\ Bytes(hex) = Digest
      BY <2>1, DecodeIs DEF verify_github_signature
    <3>5. ASSUME WellFormed(text) PROVE Bytes(hex) = Digest <=> encoded
      <4>1. Len(hex) % 2 = 0 /\ Range(hex) \subseteq DOMAIN HexValue
        BY <2>0, <3>1, <3>5 DEF WellFormed
      <4>2. Len(hex) = 2 * Len(Digest) <=> Len(text) = 1 + 2 * Len(Digest)
        <5> HIDE DEF hex, verdict, encoded
        <5> QED BY <2>0, <3>1
      <4>3. ASSUME Len(hex) = 2 * Len(Digest), NEW i \in 1..Len(Digest)
            PROVE  Encodes(SubSeq(text, 2 * i, 2 * i + 1), Digest[i]) <=>
                       /\ HexValue[hex[2 * i - 1]] = Digest[i] \div 16
                       /\ HexValue[hex[2 * i]] = Digest[i] % 16
        <5>1. /\ 2 * i \in 1..(Len(text) + 1) /\ 2 * i + 1 \in 0..Len(text)
              /\ 2 * i - 1 \in 1..Len(hex) /\ 2 * i \in 1..Len(hex)
              /\ (2 * i + 1) - 2 * i + 1 = 2
              /\ 2 * i + 1 - 1 = 2 * i /\ 2 * i + 2 - 1 = 2 * i + 1
              /\ 2 * i - 1 + 1 = 2 * i
          BY <2>0, <3>1, <4>3
        <5>2. \A k \in 1..2 : SubSeq(text, 2 * i, 2 * i + 1)[k] = text[2 * i + k - 1]
          BY <5>1, PartIs
        <5>3. /\ SubSeq(text, 2 * i, 2 * i + 1)[1] = hex[2 * i - 1]
              /\ SubSeq(text, 2 * i, 2 * i + 1)[2] = hex[2 * i]
          <6> HIDE DEF hex
          <6> QED BY <3>1, <5>1, <5>2
        <5> QED BY <5>3 DEF Encodes
      <4> HIDE DEF hex
      <4>4. Bytes(hex) = Digest <=>
                /\ Len(hex) = 2 * Len(Digest)
                /\ \A i \in 1..Len(Digest) :
                       /\ HexValue[hex[2 * i - 1]] = Digest[i] \div 16
                       /\ HexValue[hex[2 * i]] = Digest[i] % 16
        BY <3>1, <4>1, BytesAreDigest
      <4> QED BY <2>0, <4>2, <4>3, <4>4
    <3> HIDE DEF verdict, encoded, hex
    <3>6. verdict = "verified" <=> WellFormed(text) /\ encoded
      BY <3>3, <3>4, <3>5
    <3> QED BY <3>3, <3>6 DEF SignatureVerdict, verdict, encoded
  <2> QED BY <2>2, <2>3
<1> QED BY <1>1, InputInvariant, PTL

=============================================================================
