---------------------------- MODULE KeywordJobProofs ----------------------------
(***************************************************************************)
(* Theorems about KeywordJob, for any keywords, any chain of rules, any    *)
(* number of attempts and any bound on the rows.                           *)
(***************************************************************************)
EXTENDS KeywordJob, SequenceTheorems, TLAPS

-----------------------------------------------------------------------------
(* Sequences from which something was taken.                               *)

\* t has entries of s, each at most once.
Thins(s, t) ==
    /\ Len(t) <= Len(s)
    /\ \E m \in [1 .. Len(t) -> 1 .. Len(s)] :
          /\ \A i, j \in 1 .. Len(t) : m[i] = m[j] => i = j
          /\ \A i \in 1 .. Len(t) : t[i] = s[m[i]]

\* RemoveAt takes one entry out, and moves those behind it up by one.
LEMMA RemoveAtEntries ==
  ASSUME NEW S, NEW s \in Seq(S), NEW i \in 1 .. Len(s)
  PROVE  /\ RemoveAt(s, i) \in Seq(S) /\ Len(RemoveAt(s, i)) = Len(s) - 1
         /\ \A j \in 1 .. Len(s) - 1 :
               RemoveAt(s, i)[j] = IF j < i THEN s[j] ELSE s[j + 1]
<1> DEFINE a == SubSeq(s, 1, i - 1)
           b == SubSeq(s, i + 1, Len(s))
<1>1. Len(s) \in Nat /\ i - 1 \in Nat /\ i - 1 <= Len(s)
  OBVIOUS
<1>2. a \in Seq(S) /\ Len(a) = i - 1 /\ \A j \in 1 .. i - 1 : a[j] = s[j]
  BY <1>1, SubSeqProperties
<1>3. b \in Seq(S) /\ Len(b) = Len(s) - i
      /\ \A j \in 1 .. Len(s) - i : b[j] = s[i + j]
  <2>1. CASE i = Len(s)
    BY <2>1, <1>1, SubSeqProperties, SubSeqEmpty
  <2>2. CASE i < Len(s)
    BY <2>2, <1>1, SubSeqProperties
  <2>3. QED
    BY <2>1, <2>2, <1>1
<1> HIDE DEF a, b
<1>4. RemoveAt(s, i) = a \o b
  BY DEF RemoveAt, a, b
<1>5. a \o b \in Seq(S) /\ Len(a \o b) = Len(s) - 1
      /\ \A j \in 1 .. Len(s) - 1 :
            (a \o b)[j] = IF j <= i - 1 THEN a[j] ELSE b[j - (i - 1)]
  <2>1. /\ a \o b \in Seq(S) /\ Len(a \o b) = Len(a) + Len(b)
        /\ \A j \in 1 .. Len(a) + Len(b) :
              (a \o b)[j] = IF j <= Len(a) THEN a[j] ELSE b[j - Len(a)]
    BY <1>2, <1>3, ConcatProperties
  <2>2. Len(a) + Len(b) = Len(s) - 1
    BY <1>1, <1>2, <1>3
  <2>3. QED
    BY <2>1, <2>2, <1>2
<1>6. ASSUME NEW j \in 1 .. Len(s) - 1
      PROVE  (a \o b)[j] = IF j < i THEN s[j] ELSE s[j + 1]
  <2>1. CASE j < i
    <3>1. j <= i - 1 /\ j \in 1 .. i - 1
      BY <2>1, <1>1
    <3>2. (a \o b)[j] = a[j]
      BY <3>1, <1>5
    <3>3. QED
      BY <2>1, <3>1, <3>2, <1>2
  <2>2. CASE ~(j < i)
    <3>1. j - (i - 1) \in 1 .. Len(s) - i /\ i + (j - (i - 1)) = j + 1
      BY <2>2, <1>1
    <3>2. (a \o b)[j] = b[j - (i - 1)]
      BY <2>2, <1>1, <1>5
    <3>3. QED
      BY <2>2, <3>1, <3>2, <1>3
  <2>3. QED
    BY <2>1, <2>2
<1>7. QED
  BY <1>4, <1>5, <1>6

LEMMA RemoveAtThins ==
  ASSUME NEW S, NEW s \in Seq(S), NEW i \in 1 .. Len(s)
  PROVE  Thins(s, RemoveAt(s, i))
<1> DEFINE t == RemoveAt(s, i)
           m == [j \in 1 .. Len(s) - 1 |-> IF j < i THEN j ELSE j + 1]
<1>1. m \in [1 .. Len(s) - 1 -> 1 .. Len(s)]
  OBVIOUS
<1>2. \A j, k \in 1 .. Len(s) - 1 : m[j] = m[k] => j = k
  OBVIOUS
<1>3. /\ Len(t) = Len(s) - 1
      /\ \A j \in 1 .. Len(s) - 1 : t[j] = s[m[j]]
  BY RemoveAtEntries
<1> HIDE DEF t, m
<1>4. Thins(s, t)
  BY <1>1, <1>2, <1>3 DEF Thins
<1>5. QED
  BY <1>4 DEF t

\* In a sequence without repetition, RemoveAt takes away one value and no other.
LEMMA RemoveAtValues ==
  ASSUME NEW S, NEW s \in Seq(S), NEW i \in 1 .. Len(s),
         \A j, k \in 1 .. Len(s) : s[j] = s[k] => j = k
  PROVE  ToSet(RemoveAt(s, i)) = ToSet(s) \ {s[i]}
<1> DEFINE t == RemoveAt(s, i)
<1>1. /\ Len(s) \in Nat /\ DOMAIN s = 1 .. Len(s) /\ DOMAIN t = 1 .. Len(s) - 1
      /\ \A j \in 1 .. Len(s) - 1 : t[j] = IF j < i THEN s[j] ELSE s[j + 1]
  BY RemoveAtEntries
<1> HIDE DEF t
<1>2. ASSUME NEW j \in 1 .. Len(s) - 1 PROVE t[j] \in ToSet(s) \ {s[i]}
  <2>1. CASE j < i
    <3>1. j \in 1 .. Len(s) /\ j # i /\ t[j] = s[j]
      BY <2>1, <1>1
    <3>2. QED
      BY <3>1, <1>1 DEF ToSet
  <2>2. CASE ~(j < i)
    <3>1. j + 1 \in 1 .. Len(s) /\ j + 1 # i /\ t[j] = s[j + 1]
      BY <2>2, <1>1
    <3>2. QED
      BY <3>1, <1>1 DEF ToSet
  <2>3. QED
    BY <2>1, <2>2
<1>3. ASSUME NEW j \in 1 .. Len(s), s[j] # s[i] PROVE s[j] \in ToSet(t)
  <2>1. CASE j < i
    <3>1. j \in 1 .. Len(s) - 1 /\ t[j] = s[j]
      BY <2>1, <1>1
    <3>2. QED
      BY <3>1, <1>1 DEF ToSet
  <2>2. CASE i < j
    <3>1. j - 1 \in 1 .. Len(s) - 1 /\ ~(j - 1 < i) /\ (j - 1) + 1 = j
      BY <2>2, <1>1
    <3>2. t[j - 1] = s[j]
      BY <3>1, <1>1
    <3>3. QED
      BY <3>1, <3>2, <1>1 DEF ToSet
  <2>3. QED
    BY <2>1, <2>2, <1>1, <1>3
<1>4. ToSet(t) = ToSet(s) \ {s[i]}
  BY <1>1, <1>2, <1>3 DEF ToSet
<1>5. QED
  BY <1>4 DEF t

\* What is left of t when a write breaks off.
LEMMA PrefixThins ==
  ASSUME NEW S, NEW s \in Seq(S), NEW t \in Seq(S), Thins(s, t), NEW n \in 0 .. Len(t)
  PROVE  /\ SubSeq(t, 1, n) \in Seq(S) /\ Len(SubSeq(t, 1, n)) = n
         /\ Thins(s, SubSeq(t, 1, n))
<1> DEFINE u == SubSeq(t, 1, n)
<1>1. Len(t) \in Nat /\ u \in Seq(S) /\ Len(u) = n /\ \A j \in 1 .. n : u[j] = t[j]
  BY SubSeqProperties, SubSeqEmpty
<1> HIDE DEF u
<1>2. PICK m \in [1 .. Len(t) -> 1 .. Len(s)] :
        /\ \A i, j \in 1 .. Len(t) : m[i] = m[j] => i = j
        /\ \A i \in 1 .. Len(t) : t[i] = s[m[i]]
  BY DEF Thins
<1> DEFINE l == [j \in 1 .. n |-> m[j]]
<1>3. 1 .. n \subseteq 1 .. Len(t) /\ l \in [1 .. n -> 1 .. Len(s)]
  <2>1. 1 .. n \subseteq 1 .. Len(t)
    BY <1>1
  <2>2. QED
    BY <2>1
<1>4. /\ \A i, j \in 1 .. n : l[i] = l[j] => i = j
      /\ \A i \in 1 .. n : u[i] = s[l[i]]
  BY <1>1, <1>2, <1>3
<1> HIDE DEF l
<1>5. Len(u) <= Len(s)
  BY <1>1, LenProperties DEF Thins
<1>6. Thins(s, u)
  BY <1>1, <1>3, <1>4, <1>5 DEF Thins
<1>7. QED
  BY <1>1, <1>6 DEF u

-----------------------------------------------------------------------------
(* Types.                                                                  *)

\* A file has at most as many rows as were ever written, each with a number of its own, in
\* all the files together.
Written == \A f \in Files : /\ Len(file[f]) <= rows
                            /\ \A i \in 1 .. Len(file[f]) : file[f][i] \in 1 .. rows
Distinct ==
    \A f, g \in Files : \A i \in 1 .. Len(file[f]), j \in 1 .. Len(file[g]) :
        file[f][i] = file[g][j] => f = g /\ i = j
\* The row that was listed is where it was, as long as no row of its file is removed.
SeenThere ==
    Picked /\ ~shifted => /\ pick.pos \in 1 .. Len(file[pick.file])
                          /\ file[pick.file][pick.pos] = pick.row

Filed == TypeOK /\ Written /\ Distinct

LEMMA InitFiled == Init => Filed
<1> SUFFICES ASSUME Init PROVE Filed
  OBVIOUS
<1>1. Len(Rules) \in Nat /\ NoneReceived \in [DOMAIN Rules -> Nat]
  BY RulesHaveKinds, LenProperties DEF NoneReceived
<1>2. <<>> \in Seq(Row) /\ Len(<<>>) = 0
  OBVIOUS
<1>3. TypeOK
  <2>1. rows \in 0 .. MaxRows /\ file \in [Files -> Seq(Row)]
    BY <1>2, Bounds DEF Init
  <2>2. /\ rule \in 1 .. Len(Rules) + 1 /\ attempts \in 0 .. Retries
        /\ received \in [DOMAIN Rules -> Nat]
    BY <1>1, Bounds DEF Init
  <2>3. QED
    BY <2>1, <2>2 DEF Init, TypeOK
<1>4. \A f \in Files : Len(file[f]) = 0
  BY <1>2 DEF Init
<1>5. Written /\ Distinct
  BY <1>4 DEF Init, Written, Distinct
<1>6. QED
  BY <1>3, <1>5 DEF Filed

\* The types of what the files do not hold.
RestOK ==
    /\ page \subseteq Keywords /\ cooling \subseteq Keywords /\ results \subseteq Keywords
    /\ pc \in {"idle", "record", "count", "chain"}
    /\ rule \in 1 .. Len(Rules) + 1 /\ attempts \in 0 .. Retries
    /\ received \in [DOMAIN Rules -> Nat]
UserOK ==
    /\ pick \in [file : Files, pos : Row, row : Row] \cup {NoPick, Failed} /\ shifted \in BOOLEAN
DiskOK == rows \in 0 .. MaxRows /\ file \in [Files -> Seq(Row)]

LEMMA TypeParts == TypeOK <=> RestOK /\ UserOK /\ DiskOK
BY DEF TypeOK, RestOK, UserOK, DiskOK

\* Rows that are taken away leave the others with their numbers.
LEMMA ThinnedFiles ==
  ASSUME Filed, rows' = rows, file' \in [Files -> Seq(Row)],
         \A f \in Files : Thins(file[f], file'[f])
  PROVE  DiskOK' /\ Written' /\ Distinct'
<1>1. \A f \in Files : Len(file[f]) \in Nat /\ Len(file'[f]) \in Nat
  BY LenProperties DEF Filed, TypeOK
<1>2. DiskOK'
  BY DEF Filed, TypeOK, DiskOK
<1>3. Written'
  <2>1. SUFFICES ASSUME NEW f \in Files
                 PROVE  /\ Len(file'[f]) <= rows
                        /\ \A i \in 1 .. Len(file'[f]) : file'[f][i] \in 1 .. rows
    BY DEF Written
  <2>2. rows \in Nat
    BY Bounds DEF Filed, TypeOK
  <2>3. /\ Len(file[f]) <= rows
        /\ \A i \in 1 .. Len(file[f]) : file[f][i] \in 1 .. rows
    BY DEF Filed, Written
  <2>4. Len(file'[f]) <= Len(file[f])
    BY DEF Thins
  <2>5. PICK m \in [1 .. Len(file'[f]) -> 1 .. Len(file[f])] :
          \A i \in 1 .. Len(file'[f]) : file'[f][i] = file[f][m[i]]
    BY DEF Thins
  <2>6. ASSUME NEW i \in 1 .. Len(file'[f]) PROVE file'[f][i] \in 1 .. rows
    <3>1. m[i] \in 1 .. Len(file[f]) /\ file'[f][i] = file[f][m[i]]
      BY <2>5
    <3>2. QED
      BY <2>3, <3>1
  <2>7. Len(file'[f]) <= rows
    BY <1>1, <2>2, <2>3, <2>4
  <2>8. QED
    BY <2>6, <2>7
<1>4. Distinct'
  <2>1. SUFFICES ASSUME NEW f \in Files, NEW g \in Files, NEW i \in 1 .. Len(file'[f]),
                        NEW j \in 1 .. Len(file'[g]), file'[f][i] = file'[g][j]
                 PROVE  f = g /\ i = j
    BY DEF Distinct
  <2>2. PICK m \in [1 .. Len(file'[f]) -> 1 .. Len(file[f])] :
          /\ \A k, l \in 1 .. Len(file'[f]) : m[k] = m[l] => k = l
          /\ \A k \in 1 .. Len(file'[f]) : file'[f][k] = file[f][m[k]]
    BY DEF Thins
  <2>3. PICK n \in [1 .. Len(file'[g]) -> 1 .. Len(file[g])] :
          \A k \in 1 .. Len(file'[g]) : file'[g][k] = file[g][n[k]]
    BY DEF Thins
  <2>4. file[f][m[i]] = file[g][n[j]]
    BY <2>1, <2>2, <2>3
  <2>5. f = g
    BY <2>4 DEF Filed, Distinct
  <2>6. file[f][m[i]] = file[f][m[j]]
    BY <2>1, <2>2, <2>5
  <2>7. m[i] \in 1 .. Len(file[f]) /\ m[j] \in 1 .. Len(file[f])
    BY <2>5
  <2>8. \A k, l \in 1 .. Len(file[f]) : file[f][k] = file[f][l] => k = l
    BY DEF Filed, Distinct
  <2>9. m[i] = m[j]
    BY <2>6, <2>7, <2>8
  <2>10. QED
    BY <2>2, <2>5, <2>9
<1>5. QED
  BY <1>2, <1>3, <1>4

LEMMA ThinsSelf ==
  ASSUME NEW S, NEW s \in Seq(S)
  PROVE  Thins(s, s)
<1> DEFINE m == [i \in 1 .. Len(s) |-> i]
<1>1. /\ m \in [1 .. Len(s) -> 1 .. Len(s)] /\ Len(s) \in Nat
      /\ \A i, j \in 1 .. Len(s) : m[i] = m[j] => i = j
      /\ \A i \in 1 .. Len(s) : s[i] = s[m[i]]
  BY LenProperties
<1> HIDE DEF m
<1>2. QED
  BY <1>1 DEF Thins

\* A new row has a number no row has had.
LEMMA AppendFiled ==
  ASSUME Filed, NEW f \in Files, AppendRow(f)
  PROVE  /\ DiskOK' /\ Written' /\ Distinct'
         /\ \A g \in Files : /\ Len(file[g]) <= Len(file'[g])
                             /\ \A i \in 1 .. Len(file[g]) : file'[g][i] = file[g][i]
<1>1. /\ \A g \in Files : file[g] \in Seq(Row) /\ Len(file[g]) \in Nat
      /\ rows \in Nat /\ MaxRows \in Nat /\ file \in [Files -> Seq(Row)]
  BY Bounds, LenProperties DEF Filed, TypeOK
<1>2. CASE UNCHANGED disk
  BY <1>1, <1>2 DEF disk, Filed, TypeOK, DiskOK, Written, Distinct
<1>3. CASE /\ rows < MaxRows /\ rows' = rows + 1
           /\ file' = [file EXCEPT ![f] = Append(file[f], rows + 1)]
  <2>1. rows + 1 \in Row
    BY <1>1, <1>3 DEF Row
  <2>2. /\ file'[f] \in Seq(Row) /\ Len(file'[f]) = Len(file[f]) + 1
        /\ file'[f][Len(file[f]) + 1] = rows + 1
        /\ \A i \in 1 .. Len(file[f]) : file'[f][i] = file[f][i]
    BY <1>1, <1>3, <2>1, AppendProperties
  <2>3. \A g \in Files \ {f} : file'[g] = file[g]
    BY <1>1, <1>3
  <2>4. DiskOK'
    BY <1>1, <1>3, <2>2, <2>3 DEF DiskOK
  <2>5. Written'
    <3>1. SUFFICES ASSUME NEW g \in Files
                   PROVE  /\ Len(file'[g]) <= rows'
                          /\ \A i \in 1 .. Len(file'[g]) : file'[g][i] \in 1 .. rows'
      BY DEF Written
    <3>2. CASE g = f
      BY <1>1, <1>3, <2>2, <3>2 DEF Filed, Written
    <3>3. CASE g # f
      BY <1>1, <1>3, <2>3, <3>3 DEF Filed, Written
    <3>4. QED
      BY <3>2, <3>3
  <2>6. Distinct'
    <3>1. \A g \in Files : \A i \in 1 .. Len(file'[g]) :
             IF g = f /\ i = Len(file[f]) + 1 THEN file'[g][i] = rows + 1
             ELSE i \in 1 .. Len(file[g]) /\ file'[g][i] = file[g][i] /\ file[g][i] \in 1 .. rows
      BY <1>1, <2>2, <2>3 DEF Filed, Written
    <3>2. SUFFICES ASSUME NEW g \in Files, NEW h \in Files, NEW i \in 1 .. Len(file'[g]),
                          NEW j \in 1 .. Len(file'[h]), file'[g][i] = file'[h][j]
                   PROVE  g = h /\ i = j
      BY DEF Distinct
    <3>3. CASE g = f /\ i = Len(file[f]) + 1
      <4>1. file'[h][j] = rows + 1
        BY <3>1, <3>2, <3>3
      <4>2. ~(file'[h][j] \in 1 .. rows)
        BY <4>1, <1>1
      <4>3. h = f /\ j = Len(file[f]) + 1
        BY <4>2, <3>1
      <4>4. QED
        BY <4>3, <3>3
    <3>4. CASE ~(g = f /\ i = Len(file[f]) + 1)
      <4>1. i \in 1 .. Len(file[g]) /\ file'[g][i] = file[g][i] /\ file[g][i] \in 1 .. rows
        BY <3>1, <3>4
      <4>2. ~(file'[h][j] = rows + 1)
        BY <4>1, <3>2, <1>1
      <4>3. j \in 1 .. Len(file[h]) /\ file'[h][j] = file[h][j]
        BY <4>2, <3>1
      <4>4. file[g][i] = file[h][j]
        BY <3>2, <4>1, <4>3
      <4>5. QED
        BY <4>1, <4>3, <4>4 DEF Filed, Distinct
    <3>5. QED
      BY <3>3, <3>4
  <2>7. QED
    BY <1>1, <2>2, <2>3, <2>4, <2>5, <2>6
<1>4. QED
  BY <1>2, <1>3 DEF AppendRow

\* A user's delete takes rows away and brings none.
LEMMA DeleteThins ==
  ASSUME Filed, DeleteLead \/ DeleteOther \/ ClearFiles
  PROVE  /\ rows' = rows /\ file' \in [Files -> Seq(Row)]
         /\ \A f \in Files : Thins(file[f], file'[f])
<1>1. file \in [Files -> Seq(Row)] /\ \A f \in Files : DOMAIN file[f] = 1 .. Len(file[f])
  BY LenProperties DEF Filed, TypeOK
<1>2. \A f \in Files : Thins(file[f], file[f])
  BY <1>1, ThinsSelf
<1>3. CASE DeleteLead
  <2> DEFINE f == pick.file
             kept == RemoveAt(file[f], pick.pos)
  <2>1. f \in Files /\ rows' = rows
    BY <1>3 DEF DeleteLead, Picked
  <2>2. CASE file' = file
    BY <1>1, <1>2, <2>1, <2>2
  <2>3. ASSUME pick.pos \in DOMAIN file[f]
        PROVE  kept \in Seq(Row) /\ Thins(file[f], kept)
    BY <1>1, <2>1, <2>3, RemoveAtEntries, RemoveAtThins
  <2>4. CASE pick.pos \in DOMAIN file[f] /\ file' = [file EXCEPT ![f] = kept]
    <3> HIDE DEF kept, f
    <3>1. QED
      BY <1>1, <1>2, <2>1, <2>3, <2>4
  <2>5. ASSUME pick.pos \in DOMAIN file[f], NEW n \in 0 .. Len(kept),
               file' = [file EXCEPT ![f] = SubSeq(kept, 1, n)]
        PROVE  file' \in [Files -> Seq(Row)] /\ \A g \in Files : Thins(file[g], file'[g])
    <3> HIDE DEF kept, f
    <3>1. SubSeq(kept, 1, n) \in Seq(Row) /\ Thins(file[f], SubSeq(kept, 1, n))
      BY <1>1, <2>1, <2>3, <2>5, PrefixThins
    <3>2. QED
      BY <1>1, <1>2, <2>1, <2>5, <3>1
  <2>6. QED
    BY <1>3, <2>1, <2>2, <2>4, <2>5 DEF DeleteLead, RowIndex
<1>4. CASE DeleteOther
  <2>1. PICK f \in Files : \E i \in DOMAIN file[f] :
            file' = [file EXCEPT ![f] = RemoveAt(file[f], i)]
    BY <1>4 DEF DeleteOther
  <2> PICK i \in DOMAIN file[f] : file' = [file EXCEPT ![f] = RemoveAt(file[f], i)]
    BY <2>1
  <2>2. RemoveAt(file[f], i) \in Seq(Row) /\ Thins(file[f], RemoveAt(file[f], i))
    BY <1>1, RemoveAtEntries, RemoveAtThins
  <2>3. QED
    BY <1>1, <1>2, <1>4, <2>2 DEF DeleteOther
<1>5. CASE ClearFiles
  <2>1. \A f \in Files : file'[f] = <<>> /\ Len(file'[f]) = 0
    BY <1>5 DEF ClearFiles
  <2>2. file' \in [Files -> Seq(Row)] /\ rows' = rows
    BY <1>5 DEF ClearFiles
  <2>3. \A f \in Files : 0 <= Len(file[f])
    BY <1>1, LenProperties
  <2>4. ASSUME NEW f \in Files PROVE Thins(file[f], file'[f])
    <3>1. [i \in 1 .. 0 |-> 1] \in [1 .. Len(file'[f]) -> 1 .. Len(file[f])]
      BY <2>1
    <3>2. 1 .. Len(file'[f]) = {}
      BY <2>1
    <3>3. QED
      BY <2>1, <2>3, <3>1, <3>2 DEF Thins
  <2>5. QED
    BY <2>2, <2>4
<1>6. QED
  BY <1>3, <1>4, <1>5

\* A row that a user sees is in a file, at a place below the number of rows.
LEMMA ListType == Filed /\ ListLeads => UserOK'
<1> SUFFICES ASSUME Filed, ListLeads PROVE UserOK'
  OBVIOUS
<1>1. PICK f \in Files : \E i \in DOMAIN file[f] : pick' = Pick(f, i, file[f][i])
  BY DEF ListLeads, RowIndex
<1>2. PICK i \in DOMAIN file[f] : pick' = Pick(f, i, file[f][i])
  BY <1>1
<1>3. file[f] \in Seq(Row) /\ DOMAIN file[f] = 1 .. Len(file[f]) /\ Len(file[f]) \in Nat
  BY LenProperties DEF Filed, TypeOK
<1>4. file[f][i] \in Row
  BY <1>3
<1>5. Len(file[f]) <= rows /\ rows \in Nat /\ rows <= MaxRows /\ MaxRows \in Nat
  BY Bounds DEF Filed, TypeOK, Written
<1>6. i \in Row
  BY <1>3, <1>5 DEF Row
<1>7. QED
  BY <1>2, <1>4, <1>6 DEF Pick, UserOK, ListLeads

\* What the runner does apart from the files.
LEMMA RunnerType ==
  ASSUME Filed, RunnerStep
  PROVE  RestOK' /\ UNCHANGED user /\ UNCHANGED page
         /\ (UNCHANGED disk \/ \E f \in Files : AppendRow(f))
<1>1. RestOK /\ Len(Rules) \in Nat /\ rule \in Nat /\ attempts \in Nat /\ Retries \in Nat
  BY RulesHaveKinds, Bounds, LenProperties, TypeParts DEF Filed, RestOK
<1>2. CASE Poll
  BY <1>1, <1>2 DEF Poll, Handled, RestOK
<1>3. CASE Count \/ Fail
  BY <1>1, <1>3 DEF Count, Fail, RestOK
<1>4. ASSUME NEW k \in Keywords, LogEvent(k) PROVE RestOK' /\ UNCHANGED user /\ AppendRow("job")
  BY <1>1, <1>4 DEF LogEvent, RestOK
<1>5. ASSUME rule <= Len(Rules) PROVE rule + 1 \in 1 .. Len(Rules) + 1
  BY <1>1, <1>5 DEF RestOK
<1>6. ASSUME MoreAttempts PROVE attempts + 1 \in 0 .. Retries
  BY <1>1, <1>6 DEF RestOK, MoreAttempts
<1>7. 0 \in 0 .. Retries /\ 1 \in 1 .. Len(Rules) + 1
      /\ NoneReceived \in [DOMAIN Rules -> Nat]
  BY <1>1 DEF NoneReceived
<1>8. CASE Webhook
  <2>0. received \in [DOMAIN Rules -> Nat] /\ rule \in DOMAIN Rules
    BY <1>1, <1>8, RulesHaveKinds, LenProperties DEF Webhook, Executing, RestOK
  <2>1. Received => received' \in [DOMAIN Rules -> Nat]
    BY <2>0 DEF Received
  <2>2. received' \in [DOMAIN Rules -> Nat]
    BY <1>1, <1>8, <2>1 DEF Webhook, RestOK
  <2>3. rule' \in 1 .. Len(Rules) + 1 /\ attempts' \in 0 .. Retries
    BY <1>1, <1>5, <1>6, <1>7, <1>8
       DEF Webhook, Executing, Succeeds, NextRule, AttemptFails, RestOK
  <2>4. QED
    BY <1>1, <1>8, <2>2, <2>3 DEF Webhook, RestOK
<1>9. CASE OpenInquiry
  BY <1>1, <1>5, <1>6, <1>7, <1>9
     DEF OpenInquiry, Executing, Succeeds, NextRule, AttemptFails, RestOK, Files
<1>10. CASE OtherAction
  BY <1>1, <1>5, <1>6, <1>7, <1>10
     DEF OtherAction, Executing, Succeeds, NextRule, AttemptFails, RestOK
<1>11. CASE GiveUp \/ EndChain
  BY <1>1, <1>5, <1>7, <1>11 DEF GiveUp, EndChain, NextRule, RestOK
<1>12. QED
  BY <1>2, <1>3, <1>4, <1>8, <1>9, <1>10, <1>11
     DEF RunnerStep, Poll, Count, Fail, LogEvent, Webhook, OpenInquiry, OtherAction, GiveUp,
         EndChain, Files

\* Every step keeps the types, and the numbering of the rows.
LEMMA NextFiled == Filed /\ [Next]_vars => Filed'
<1> SUFFICES ASSUME Filed, [Next]_vars PROVE Filed'
  OBVIOUS
<1> USE TypeParts
<1>1. RestOK /\ UserOK /\ DiskOK /\ Written /\ Distinct
  BY DEF Filed
<1>2. ASSUME UNCHANGED disk PROVE DiskOK' /\ Written' /\ Distinct'
  BY <1>1, <1>2 DEF disk, DiskOK, Written, Distinct
<1>3. ASSUME UNCHANGED user PROVE UserOK'
  BY <1>1, <1>3 DEF user, UserOK
<1>4. ASSUME UNCHANGED <<page, runner>> PROVE RestOK'
  BY <1>1, <1>4 DEF runner, RestOK
<1>5. TypeOK' <=> RestOK' /\ UserOK' /\ DiskOK'
  BY PTL
<1>6. CASE RunnerStep
  BY <1>2, <1>3, <1>5, <1>6, RunnerType, AppendFiled DEF Filed
<1>7. CASE ListLeads
  BY <1>2, <1>4, <1>5, <1>7, ListType DEF ListLeads, Filed
<1>8. CASE DeleteLead \/ DeleteOther \/ ClearFiles
  <2>1. DiskOK' /\ Written' /\ Distinct'
    BY <1>8, DeleteThins, ThinnedFiles
  <2>2. UserOK'
    BY <1>1, <1>8 DEF DeleteLead, DeleteOther, ClearFiles, UserOK
  <2>3. QED
    BY <1>4, <1>5, <1>8, <2>1, <2>2 DEF DeleteLead, DeleteOther, ClearFiles, Filed
<1>9. CASE PageChanges
  BY <1>1, <1>2, <1>3, <1>5, <1>9 DEF PageChanges, runner, RestOK, Filed
<1>10. CASE RestartJob \/ Crash
  <2>1. 0 \in 0 .. Retries /\ 1 \in 1 .. Len(Rules) + 1
        /\ NoneReceived \in [DOMAIN Rules -> Nat]
    BY RulesHaveKinds, Bounds, LenProperties DEF NoneReceived
  <2>2. RestOK' /\ UserOK'
    BY <1>1, <1>3, <1>10, <2>1 DEF RestartJob, Crash, NewRunner, RestOK, UserOK, user
  <2>3. QED
    BY <1>2, <1>5, <1>10, <2>2 DEF RestartJob, Crash, Filed
<1>11. ASSUME NEW k \in Keywords, CoolDownEnds(k) PROVE Filed'
  BY <1>1, <1>2, <1>3, <1>5, <1>11 DEF CoolDownEnds, RestOK, Filed
<1>12. CASE UNCHANGED vars
  BY <1>2, <1>3, <1>4, <1>5, <1>12 DEF vars, Filed
<1>13. QED
  BY <1>6, <1>7, <1>8, <1>9, <1>10, <1>11, <1>12 DEF Next, UserStep

LEMMA AlwaysFiled == Spec => []Filed
BY InitFiled, NextFiled, PTL DEF Spec

\* Every reachable state of the keyword job is well typed.
THEOREM KeywordJobTypeCorrect == Spec => []TypeOK
<1>1. Filed => TypeOK
  BY DEF Filed
<1>2. QED
  BY <1>1, AlwaysFiled, PTL

-----------------------------------------------------------------------------
(* Webhooks.                                                               *)

\* A webhook was received in as many of the attempts as were made: so far for the rule in
\* turn, at most all of them for the rules before it, and none for those behind.
Tried ==
    \A r \in DOMAIN Rules :
        /\ r < rule => received[r] <= Retries
        /\ r = rule => received[r] <= attempts
        /\ r > rule => received[r] = 0

LEMMA NoneTried == ASSUME received = NoneReceived, attempts \in Nat PROVE Tried
BY Bounds DEF Tried, NoneReceived

LEMMA WebhookTried == TypeOK /\ Tried /\ Webhook => Tried'
<1> SUFFICES ASSUME TypeOK, Tried, Webhook PROVE Tried'
  OBVIOUS
<1>1. /\ rule \in Nat /\ attempts \in Nat /\ Retries \in Nat /\ attempts < Retries
      /\ \A r \in DOMAIN Rules : r \in Nat /\ received[r] \in Nat
      /\ received \in [DOMAIN Rules -> Nat]
  BY RulesHaveKinds, LenProperties, Bounds DEF TypeOK, Webhook, MoreAttempts
<1>2. \A r \in DOMAIN Rules :
         received'[r] \in {received[r], IF r = rule THEN received[r] + 1 ELSE received[r]}
  BY <1>1 DEF Webhook, Received
<1>3. SUFFICES ASSUME NEW r \in DOMAIN Rules
               PROVE  /\ r < rule' => received'[r] <= Retries
                      /\ r = rule' => received'[r] <= attempts'
                      /\ r > rule' => received'[r] = 0
  BY DEF Tried
<1>4. /\ r < rule => received[r] <= Retries
      /\ r = rule => received[r] <= attempts
      /\ r > rule => received[r] = 0
  BY DEF Tried
<1>5. (rule' = rule + 1 /\ attempts' = 0) \/ (rule' = rule /\ attempts' = attempts + 1)
  BY DEF Webhook, Succeeds, NextRule, AttemptFails
<1>6. r \in Nat /\ received[r] \in Nat
      /\ received'[r] \in {received[r], IF r = rule THEN received[r] + 1 ELSE received[r]}
  BY <1>1, <1>2
<1>7. CASE r = rule
  BY <1>1, <1>4, <1>5, <1>6, <1>7
<1>8. CASE r # rule
  BY <1>1, <1>4, <1>5, <1>6, <1>8
<1>9. QED
  BY <1>7, <1>8

\* The attempts of a rule that does not post count for no webhook.
LEMMA OthersTried ==
  ASSUME TypeOK, Tried, UNCHANGED received,
         \/ rule' = rule /\ attempts' \in {attempts, attempts + 1}
         \/ rule' = rule + 1 /\ attempts' = 0
  PROVE  Tried'
<1>1. /\ rule \in Nat /\ attempts \in Nat /\ attempts <= Retries /\ Retries \in Nat
      /\ \A r \in DOMAIN Rules : r \in Nat /\ received[r] \in Nat
  BY RulesHaveKinds, LenProperties, Bounds DEF TypeOK
<1>2. ASSUME NEW r \in DOMAIN Rules
      PROVE  /\ r < rule' => received[r] <= Retries
             /\ r = rule' => received[r] <= attempts'
             /\ r > rule' => received[r] = 0
  <2>1. /\ r < rule => received[r] <= Retries
        /\ r = rule => received[r] <= attempts
        /\ r > rule => received[r] = 0
    BY DEF Tried
  <2>2. QED
    BY <1>1, <2>1
<1>3. QED
  BY <1>2 DEF Tried

LEMMA NextTried == TypeOK /\ Tried /\ [Next]_vars => Tried'
<1> SUFFICES ASSUME TypeOK, Tried, [Next]_vars PROVE Tried'
  OBVIOUS
<1>1. ASSUME UNCHANGED <<rule, attempts, received>> PROVE Tried'
  BY <1>1, OthersTried
<1>2. CASE Webhook
  BY <1>2, WebhookTried
<1>3. CASE OpenInquiry \/ OtherAction \/ GiveUp
  BY <1>3, OthersTried DEF OpenInquiry, OtherAction, GiveUp, Succeeds, NextRule, AttemptFails
<1>4. CASE EndChain \/ RestartJob \/ Crash
  <2>1. received' = NoneReceived /\ attempts' \in Nat /\ NoneReceived' = NoneReceived
    BY <1>4 DEF EndChain, RestartJob, Crash, NewRunner, NoneReceived
  <2>2. QED
    BY <2>1, Bounds DEF Tried, NoneReceived
<1>5. CASE Poll \/ Count \/ Fail \/ \E k \in Keywords : LogEvent(k)
  BY <1>1, <1>5 DEF Poll, Count, Fail, LogEvent
<1>6. CASE UserStep \/ PageChanges \/ UNCHANGED vars
  BY <1>1, <1>6 DEF UserStep, ListLeads, DeleteLead, DeleteOther, ClearFiles, PageChanges,
                    runner, vars
<1>7. ASSUME NEW k \in Keywords, CoolDownEnds(k) PROVE Tried'
  BY <1>1, <1>7 DEF CoolDownEnds
<1>8. QED
  BY <1>2, <1>3, <1>4, <1>5, <1>6, <1>7 DEF Next, RunnerStep

\* Whatever posts fail late, whichever rules fail or are cut short by a restart: within a
\* chain a webhook is received at most as often as its rule may be tried, and not before
\* the rules ahead of it are done with.
THEOREM RetriesBoundEffectCorrect == Spec => []RetriesBoundEffect
<1>1. Init => Tried
  BY NoneTried DEF Init
<1>2. TypeOK /\ Tried => RetriesBoundEffect
  <2> SUFFICES ASSUME TypeOK, Tried, NEW r \in DOMAIN Rules
               PROVE  received[r] <= IF r <= rule THEN Retries ELSE 0
    BY DEF RetriesBoundEffect
  <2>1. /\ rule \in Nat /\ attempts \in Nat /\ attempts <= Retries /\ Retries \in Nat
        /\ r \in Nat /\ received[r] \in Nat
    BY RulesHaveKinds, LenProperties, Bounds DEF TypeOK
  <2>2. /\ r < rule => received[r] <= Retries
        /\ r = rule => received[r] <= attempts
        /\ r > rule => received[r] = 0
    BY DEF Tried
  <2>3. QED
    BY <2>1, <2>2
<1>3. QED
  BY <1>1, <1>2, NextTried, KeywordJobTypeCorrect, PTL DEF Spec

-----------------------------------------------------------------------------
(* Deletes.                                                                *)

\* Appended rows do not move the row that was listed.
LEMMA AppendSeen ==
  ASSUME Filed, SeenThere, UNCHANGED user, NEW f \in Files, AppendRow(f)
  PROVE  SeenThere'
<1>1. SUFFICES ASSUME Picked, ~shifted
               PROVE  /\ pick.pos \in 1 .. Len(file'[pick.file])
                      /\ file'[pick.file][pick.pos] = pick.row
  BY DEF SeenThere, Picked, user
<1>2. pick.pos \in 1 .. Len(file[pick.file]) /\ file[pick.file][pick.pos] = pick.row
  BY <1>1 DEF SeenThere
<1>3. pick.file \in Files
  BY <1>1 DEF Picked
<1>4. /\ Len(file[pick.file]) \in Nat /\ Len(file'[pick.file]) \in Nat
      /\ Len(file[pick.file]) <= Len(file'[pick.file])
      /\ \A i \in 1 .. Len(file[pick.file]) : file'[pick.file][i] = file[pick.file][i]
  BY <1>3, AppendFiled, LenProperties DEF Filed, TypeOK, DiskOK
<1>5. QED
  BY <1>2, <1>4

LEMMA NextSeen == Filed /\ SeenThere /\ [Next]_vars => SeenThere'
<1> SUFFICES ASSUME Filed, SeenThere, [Next]_vars PROVE SeenThere'
  OBVIOUS
<1>1. ASSUME UNCHANGED disk, UNCHANGED user PROVE SeenThere'
  BY <1>1 DEF disk, user, SeenThere, Picked
<1>2. CASE RunnerStep
  BY <1>1, <1>2, RunnerType, AppendSeen
<1>3. CASE ListLeads
  <2>1. PICK f \in Files : \E i \in DOMAIN file[f] : pick' = Pick(f, i, file[f][i])
    BY <1>3 DEF ListLeads, RowIndex
  <2>2. PICK i \in DOMAIN file[f] : pick' = Pick(f, i, file[f][i])
    BY <2>1
  <2>3. DOMAIN file[f] = 1 .. Len(file[f]) /\ file' = file
    BY <1>3, LenProperties DEF Filed, TypeOK, ListLeads, disk
  <2>4. QED
    BY <2>2, <2>3 DEF SeenThere, Pick
<1>4. CASE DeleteLead \/ Crash
  <2>1. pick' \in {NoPick, Failed}
    BY <1>4 DEF DeleteLead, Crash
  <2>2. QED
    BY <2>1 DEF SeenThere, Picked, NoPick, Failed, Pick, Files
<1>5. CASE DeleteOther
  <2>1. PICK f \in Files : /\ \E i \in DOMAIN file[f] :
                                 file' = [file EXCEPT ![f] = RemoveAt(file[f], i)]
                           /\ shifted' = (shifted \/ pick.file = f)
    BY <1>5 DEF DeleteOther
  <2>2. pick' = pick /\ \A g \in Files \ {f} : file'[g] = file[g]
    BY <1>5, <2>1 DEF DeleteOther, Filed, TypeOK
  <2>3. QED
    BY <2>1, <2>2 DEF SeenThere, Picked
<1>6. CASE ClearFiles
  BY <1>6 DEF ClearFiles, SeenThere, Picked
<1>7. CASE PageChanges \/ RestartJob \/ UNCHANGED vars
  BY <1>1, <1>7 DEF PageChanges, RestartJob, vars, disk, user
<1>8. ASSUME NEW k \in Keywords, CoolDownEnds(k) PROVE SeenThere'
  BY <1>1, <1>8 DEF CoolDownEnds
<1>9. QED
  BY <1>2, <1>3, <1>4, <1>5, <1>6, <1>7, <1>8 DEF Next, UserStep

\* The delete of a listed row that is still in its place.
LEMMA DeleteStep ==
  ASSUME Filed, SeenThere, Next, pick' = NoPick, Picked, ~shifted, file' # file
  PROVE  RemovesOnly(pick.file, pick.row)
<1> DEFINE f == pick.file
           s == file[f]
<1>1. f \in Files /\ pick # NoPick
  BY DEF Picked, NoPick, Pick, Files
<1>2. /\ s \in Seq(Row) /\ file \in [Files -> Seq(Row)] /\ DOMAIN s = 1 .. Len(s)
      /\ pick.pos \in 1 .. Len(s) /\ s[pick.pos] = pick.row
  BY <1>1, LenProperties DEF Filed, TypeOK, SeenThere
<1>3. DeleteLead
  <2>1. ~RunnerStep
    BY <1>1, RunnerType DEF user
  <2>2. ~ListLeads
    BY DEF ListLeads, disk
  <2>3. ~(DeleteOther \/ ClearFiles)
    BY <1>1 DEF DeleteOther, ClearFiles
  <2>4. ~(PageChanges \/ RestartJob \/ Crash \/ \E k \in Keywords : CoolDownEnds(k))
    BY DEF PageChanges, RestartJob, Crash, CoolDownEnds, disk
  <2>5. QED
    BY <2>1, <2>2, <2>3, <2>4 DEF Next, UserStep
<1>4. file' = [file EXCEPT ![f] = RemoveAt(s, pick.pos)]
  BY <1>2, <1>3 DEF DeleteLead, RowIndex, NoPick, Failed, Pick
<1>5. \A j, k \in 1 .. Len(s) : s[j] = s[k] => j = k
  BY <1>1 DEF Filed, Distinct
<1>6. ToSet(RemoveAt(s, pick.pos)) = ToSet(s) \ {s[pick.pos]}
  BY <1>2, <1>5, RemoveAtValues
<1>7. file'[f] = RemoveAt(s, pick.pos) /\ \A g \in Files \ {f} : file'[g] = file[g]
  BY <1>1, <1>2, <1>4
<1>8. QED
  BY <1>2, <1>6, <1>7 DEF RemovesOnly

\* A delete that is reported as done takes away the row the user had on the screen, and no
\* other, whatever the job has appended since; if no row of that file was removed meanwhile.
THEOREM DeleteHitsSeenCorrect == Spec => DeleteHitsSeen
<1>1. Init => SeenThere
  BY DEF Init, SeenThere, Picked, NoPick, Pick, Files
<1>2. Filed /\ SeenThere /\ [Next]_vars =>
        [pick' = NoPick /\ Picked /\ ~shifted /\ file' # file
           => RemovesOnly(pick.file, pick.row)]_vars
  BY DeleteStep
<1>3. QED
  BY <1>1, <1>2, NextSeen, AlwaysFiled, PTL DEF Spec, DeleteHitsSeen
=============================================================================
