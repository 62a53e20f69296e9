-------------------------- MODULE TableStoresProofs --------------------------
(***************************************************************************)
(* Proofs about the stores of tables, for any number of databases, tables, *)
(* columns, rows, saves and schema requests, and any restarts.             *)
(***************************************************************************)
EXTENDS TableStores, SequenceTheorems, TLAPS

-----------------------------------------------------------------------------
(* Names: folders, paths and keys are short sequences.                     *)

\* A sequence of three is a triple.
LEMMA TripleIs ==
  ASSUME NEW S, NEW s \in Seq(S), Len(s) = 3
  PROVE  s = <<s[1], s[2], s[3]>>
<1>1. s \in [1..3 -> S]
  BY LenProperties
<1> DEFINE t == <<s[1], s[2], s[3]>>
<1>2. t \in Seq(S) /\ Len(t) = 3 /\ t[1] = s[1] /\ t[2] = s[2] /\ t[3] = s[3]
  BY <1>1
<1> HIDE DEF t
<1>3. \A i \in 1..Len(s) : s[i] = t[i]
  BY <1>2
<1>4. s = t
  BY <1>2, <1>3, SeqEqual
<1>5. QED
  BY <1>4 DEF t

\* What is appended comes last.
LEMMA Appended ==
  ASSUME NEW S, NEW t \in Seq(S), NEW c \in S
  PROVE  /\ Append(t, c) \in Seq(S) /\ Len(Append(t, c)) = Len(t) + 1
         /\ \A i \in 1..Len(t) : Append(t, c)[i] = t[i]
         /\ Append(t, c)[Len(t) + 1] = c
BY AppendProperties

\* Two and one more are three.
LEMMA ThirdAppended ==
  ASSUME NEW S, NEW t \in Seq(S), NEW c \in S, Len(t) = 2
  PROVE  Append(t, c) = <<t[1], t[2], c>>
<1> DEFINE a == Append(t, c)
<1>1. a \in Seq(S) /\ Len(a) = Len(t) + 1 /\ a[Len(t) + 1] = c
  BY Appended
<1>2. 1 \in 1..Len(t) /\ 2 \in 1..Len(t)
  OBVIOUS
<1>3. a[1] = t[1] /\ a[2] = t[2]
  BY <1>2, Appended
<1> HIDE DEF a
<1>4. a \in Seq(S) /\ Len(a) = 3 /\ a[1] = t[1] /\ a[2] = t[2] /\ a[3] = c
  BY <1>1, <1>3
<1>5. a = <<t[1], t[2], c>>
  BY <1>4, TripleIs
<1>6. QED
  BY <1>5 DEF a

\* A table's name and a kind are a path, a table's name and a column an index key.
LEMMA AppendedIs ==
  ASSUME NEW t \in Tables, NEW c
  PROVE  Append(t, c) = <<t[1], t[2], c>>
<1> DEFINE S == {t[1], t[2], c}
<1>1. t = <<t[1], t[2]>>
  BY DEF Tables
<1>2. <<t[1], t[2]>> \in Seq(S) /\ Len(<<t[1], t[2]>>) = 2 /\ c \in S
  OBVIOUS
<1>3. t \in Seq(S) /\ Len(t) = 2 /\ c \in S
  BY <1>1, <1>2
<1> HIDE DEF S
<1>4. QED
  BY <1>3, ThirdAppended

\* Likewise what is joined.
LEMMA JoinedIs ==
  ASSUME NEW a, NEW b, NEW c
  PROVE  <<a>> \o <<b, c>> = <<a, b, c>> /\ <<a, b>> \o <<c>> = <<a, b, c>>
<1> DEFINE S == {a, b, c}
           sa == <<a>>
           bc == <<b, c>>
           ab == <<a, b>>
           sc == <<c>>
<1>1. /\ sa \in Seq(S) /\ Len(sa) = 1 /\ sa[1] = a
      /\ bc \in Seq(S) /\ Len(bc) = 2 /\ bc[1] = b /\ bc[2] = c
  OBVIOUS
<1>2. /\ ab \in Seq(S) /\ Len(ab) = 2 /\ ab[1] = a /\ ab[2] = b
      /\ sc \in Seq(S) /\ Len(sc) = 1 /\ sc[1] = c
  OBVIOUS
<1> HIDE DEF S, sa, bc, ab, sc
<1>3. /\ sa \o bc \in Seq(S) /\ Len(sa \o bc) = 3
      /\ (sa \o bc)[1] = a /\ (sa \o bc)[2] = b /\ (sa \o bc)[3] = c
  <2>1. /\ sa \o bc \in Seq(S) /\ Len(sa \o bc) = Len(sa) + Len(bc)
        /\ \A i \in 1..Len(sa) + Len(bc) :
             (sa \o bc)[i] = IF i <= Len(sa) THEN sa[i] ELSE bc[i - Len(sa)]
    BY <1>1, ConcatProperties
  <2>2. QED
    BY <2>1, <1>1
<1>4. /\ ab \o sc \in Seq(S) /\ Len(ab \o sc) = 3
      /\ (ab \o sc)[1] = a /\ (ab \o sc)[2] = b /\ (ab \o sc)[3] = c
  <2>1. /\ ab \o sc \in Seq(S) /\ Len(ab \o sc) = Len(ab) + Len(sc)
        /\ \A i \in 1..Len(ab) + Len(sc) :
             (ab \o sc)[i] = IF i <= Len(ab) THEN ab[i] ELSE sc[i - Len(ab)]
    BY <1>2, ConcatProperties
  <2>2. QED
    BY <2>1, <1>2
<1>5. sa \o bc = <<a, b, c>>
  BY <1>3, TripleIs
<1>6. ab \o sc = <<a, b, c>>
  BY <1>4, TripleIs
<1>7. QED
  BY <1>5, <1>6 DEF sa, bc, ab, sc

\* Likewise two names.
LEMMA JoinedPair ==
  ASSUME NEW a, NEW b
  PROVE  <<a>> \o <<b>> = <<a, b>>
<1> DEFINE S == {a, b}
           sa == <<a>>
           sb == <<b>>
           ab == <<a, b>>
<1>1. /\ sa \in Seq(S) /\ Len(sa) = 1 /\ sa[1] = a
      /\ sb \in Seq(S) /\ Len(sb) = 1 /\ sb[1] = b
      /\ ab \in Seq(S) /\ Len(ab) = 2 /\ ab[1] = a /\ ab[2] = b
  OBVIOUS
<1> HIDE DEF S, sa, sb, ab
<1>2. /\ sa \o sb \in Seq(S) /\ Len(sa \o sb) = Len(sa) + Len(sb)
      /\ \A i \in 1..Len(sa) + Len(sb) :
           (sa \o sb)[i] = IF i <= Len(sa) THEN sa[i] ELSE sb[i - Len(sa)]
  BY <1>1, ConcatProperties
<1>3. Len(sa \o sb) = 2 /\ (sa \o sb)[1] = a /\ (sa \o sb)[2] = b
  BY <1>1, <1>2
<1>4. \A i \in 1..Len(ab) : ab[i] = (sa \o sb)[i]
  BY <1>1, <1>3
<1>5. ab = sa \o sb
  BY <1>1, <1>2, <1>3, <1>4, SeqEqual
<1>6. QED
  BY <1>5 DEF sa, sb, ab

\* A part of a sequence is known by its length and its elements.
LEMMA PartIs ==
  ASSUME NEW S, NEW k \in Seq(S), NEW m \in 1..Len(k), NEW n \in m..Len(k), NEW s \in Seq(S),
         Len(s) = n - m + 1, \A i \in 1..Len(s) : s[i] = k[m + i - 1]
  PROVE  SubSeq(k, m, n) = s
<1>1. Len(k) \in Nat /\ k \in [1..Len(k) -> S]
  BY LenProperties
<1>2. \A i \in m..n : k[i] \in S
  BY <1>1
<1>3. /\ SubSeq(k, m, n) \in Seq(S) /\ Len(SubSeq(k, m, n)) = n - m + 1
      /\ \A i \in 1..n - m + 1 : SubSeq(k, m, n)[i] = k[m + i - 1]
  BY <1>1, <1>2, SubSeqProperties
<1>4. QED
  BY <1>1, <1>3, SeqEqual

\* What SubSeq makes of a key or path.
LEMMA PartsOfTriple ==
  ASSUME NEW a, NEW b, NEW c
  PROVE  /\ Len(<<a, b, c>>) = 3
         /\ SubSeq(<<a, b, c>>, 1, 1) = <<a>> /\ SubSeq(<<a, b, c>>, 1, 2) = <<a, b>>
         /\ SubSeq(<<a, b, c>>, 2, 3) = <<b, c>> /\ SubSeq(<<a, b, c>>, 3, 3) = <<c>>
<1> DEFINE S == {a, b, c}
           k == <<a, b, c>>
<1>1. k \in Seq(S) /\ Len(k) = 3
  OBVIOUS
<1>2. /\ <<a>> \in Seq(S) /\ <<a, b>> \in Seq(S) /\ <<b, c>> \in Seq(S) /\ <<c>> \in Seq(S)
      /\ Len(<<a>>) = 1 /\ Len(<<c>>) = 1 /\ Len(<<a, b>>) = 2 /\ Len(<<b, c>>) = 2
      /\ <<a>>[1] = k[1] /\ <<c>>[1] = k[3] /\ <<a, b>>[1] = k[1] /\ <<a, b>>[2] = k[1 + 1]
      /\ <<b, c>>[1] = k[2] /\ <<b, c>>[2] = k[2 + 1]
  OBVIOUS
<1> HIDE DEF k, S
<1>3. ASSUME NEW m \in 1..3, NEW s \in Seq(S), Len(s) = 1, s[1] = k[m]
      PROVE  SubSeq(k, m, m) = s
  <2>1. \A i \in 1..Len(s) : s[i] = k[m + i - 1]
    BY <1>3
  <2>2. m \in 1..Len(k) /\ m \in m..Len(k) /\ Len(s) = m - m + 1
    BY <1>1, <1>3
  <2>3. QED
    BY <2>1, <2>2, <1>1, PartIs
<1>4. ASSUME NEW m \in 1..2, NEW s \in Seq(S), Len(s) = 2, s[1] = k[m], s[2] = k[m + 1]
      PROVE  SubSeq(k, m, m + 1) = s
  <2>1. \A i \in 1..Len(s) : s[i] = k[m + i - 1]
    BY <1>4
  <2>2. m \in 1..Len(k) /\ m + 1 \in m..Len(k) /\ Len(s) = m + 1 - m + 1
    BY <1>1, <1>4
  <2>3. QED
    BY <2>1, <2>2, <1>1, PartIs
<1>5. SubSeq(k, 1, 1) = <<a>> /\ SubSeq(k, 3, 3) = <<c>>
  <2> DEFINE sa == <<a>>
             sc == <<c>>
  <2>1. sa \in Seq(S) /\ Len(sa) = 1 /\ sa[1] = k[1] /\ sc \in Seq(S) /\ Len(sc) = 1 /\ sc[1] = k[3]
    BY <1>2
  <2> HIDE DEF sa, sc
  <2>2. SubSeq(k, 1, 1) = sa /\ SubSeq(k, 3, 3) = sc
    BY <2>1, <1>3
  <2>3. QED
    BY <2>2 DEF sa, sc
<1>6. SubSeq(k, 1, 2) = <<a, b>> /\ SubSeq(k, 2, 3) = <<b, c>>
  <2> DEFINE ab == <<a, b>>
             bc == <<b, c>>
  <2>1. /\ ab \in Seq(S) /\ Len(ab) = 2 /\ ab[1] = k[1] /\ ab[2] = k[1 + 1]
        /\ bc \in Seq(S) /\ Len(bc) = 2 /\ bc[1] = k[2] /\ bc[2] = k[2 + 1]
    BY <1>2
  <2> HIDE DEF ab, bc
  <2>2. SubSeq(k, 1, 1 + 1) = ab /\ SubSeq(k, 2, 2 + 1) = bc
    BY <2>1, <1>4
  <2>3. QED
    BY <2>2 DEF ab, bc
<1>7. QED
  BY <1>1, <1>5, <1>6 DEF k

\* And of a table's name.
LEMMA PartsOfPair ==
  ASSUME NEW a, NEW b
  PROVE  /\ Len(<<a>>) = 1 /\ Len(<<a, b>>) = 2
         /\ SubSeq(<<a, b>>, 1, 1) = <<a>> /\ SubSeq(<<a, b>>, 1, 2) = <<a, b>>
         /\ SubSeq(<<a, b>>, 2, 2) = <<b>>
<1> DEFINE S == {a, b}
           k == <<a, b>>
           sa == <<a>>
           sb == <<b>>
<1>1. /\ k \in Seq(S) /\ Len(k) = 2 /\ sa \in Seq(S) /\ Len(sa) = 1 /\ sa[1] = k[1]
      /\ sb \in Seq(S) /\ Len(sb) = 1 /\ sb[1] = k[2]
  OBVIOUS
<1> HIDE DEF S, k, sa, sb
<1>2. SubSeq(k, 1, 1) = sa
  <2>1. 1 \in 1..Len(k) /\ 1 \in 1..Len(k) /\ Len(sa) = 1 - 1 + 1
        /\ \A i \in 1..Len(sa) : sa[i] = k[1 + i - 1]
    BY <1>1
  <2>2. QED
    BY <2>1, <1>1, PartIs
<1>3. SubSeq(k, 2, 2) = sb
  <2>1. 2 \in 1..Len(k) /\ 2 \in 2..Len(k) /\ Len(sb) = 2 - 2 + 1
        /\ \A i \in 1..Len(sb) : sb[i] = k[2 + i - 1]
    BY <1>1
  <2>2. QED
    BY <2>1, <1>1, PartIs
<1>4. SubSeq(k, 1, 2) = k
  BY <1>1, SubSeqFull
<1>5. Len(<<a>>) = 1 /\ Len(<<a, b>>) = 2
  OBVIOUS
<1>6. SubSeq(<<a, b>>, 1, 1) = <<a>> /\ SubSeq(<<a, b>>, 2, 2) = <<b>>
  BY <1>2, <1>3 DEF k, sa, sb
<1>7. SubSeq(<<a, b>>, 1, 2) = <<a, b>>
  BY <1>4 DEF k
<1>8. QED
  BY <1>5, <1>6, <1>7

\* A path or key lies under its database's folder and under its table's.
LEMMA UnderFacts ==
  ASSUME NEW K, NEW p \in Dbs \X Tabs \X K, NEW f \in Folders
  PROVE  Under(p, f) <=> f = <<p[1]>> \/ f = <<p[1], p[2]>>
<1>1. PICK a \in Dbs, b \in Tabs, c \in K : p = <<a, b, c>>
  OBVIOUS
<1>2. CASE \E db \in Dbs : f = <<db>>
  <2>1. PICK db \in Dbs : f = <<db>>
    BY <1>2
  <2>2. Under(p, f) <=> <<a>> = <<db>>
    BY <2>1, <1>1, PartsOfTriple, PartsOfPair DEF Under
  <2>3. QED
    BY <2>1, <2>2, <1>1
<1>3. CASE \E db \in Dbs, t \in Tabs : f = <<db, t>>
  <2>1. PICK db \in Dbs, t \in Tabs : f = <<db, t>>
    BY <1>3
  <2>2. Under(p, f) <=> <<a, b>> = <<db, t>>
    BY <2>1, <1>1, PartsOfTriple, PartsOfPair DEF Under
  <2>3. QED
    BY <2>1, <2>2, <1>1
<1>4. QED
  BY <1>2, <1>3 DEF Folders, Tables

\* So does a table, and a database under itself.
LEMMA UnderTable ==
  ASSUME NEW t \in Tables, NEW f \in Folders
  PROVE  Under(t, f) <=> f = <<t[1]>> \/ f = t
<1>1. PICK a \in Dbs, b \in Tabs : t = <<a, b>>
  BY DEF Tables
<1>2. CASE \E db \in Dbs : f = <<db>>
  <2>1. PICK db \in Dbs : f = <<db>>
    BY <1>2
  <2>2. Under(t, f) <=> <<a>> = <<db>>
    BY <2>1, <1>1, PartsOfPair DEF Under
  <2>3. QED
    BY <2>1, <2>2, <1>1
<1>3. CASE \E db \in Dbs, u \in Tabs : f = <<db, u>>
  <2>1. PICK db \in Dbs, u \in Tabs : f = <<db, u>>
    BY <1>3
  <2>2. Under(t, f) <=> <<a, b>> = <<db, u>>
    BY <2>1, <1>1, PartsOfPair DEF Under
  <2>3. QED
    BY <2>1, <2>2, <1>1
<1>4. QED
  BY <1>2, <1>3 DEF Folders, Tables

\* A database's folder lies under no other one, a table's not under another table's.
LEMMA UnderDb ==
  ASSUME NEW db \in Dbs, NEW f \in Folders
  PROVE  Under(<<db>>, f) <=> f = <<db>>
<1>1. CASE \E d \in Dbs : f = <<d>>
  <2>1. PICK d \in Dbs : f = <<d>>
    BY <1>1
  <2>2. SubSeq(<<db>>, 1, 1) = <<db>>
    <3>1. <<db>> \in Seq({db}) /\ Len(<<db>>) = 1
      OBVIOUS
    <3>2. QED
      BY <3>1, SubSeqFull
  <2>3. QED
    BY <2>1, <2>2, PartsOfPair DEF Under
<1>2. CASE \E d \in Dbs, u \in Tabs : f = <<d, u>>
  BY <1>2, PartsOfPair DEF Under
<1>3. QED
  BY <1>1, <1>2 DEF Folders, Tables

\* A key or path whose first part is replaced.
LEMMA Prefixed ==
  ASSUME NEW f \in Folders, NEW K, NEW k \in Dbs \X Tabs \X K
  PROVE  /\ Len(k) = 3
         /\ f \o SubSeq(k, Len(f) + 1, 3) = <<f[1], IF Len(f) = 1 THEN k[2] ELSE f[2], k[3]>>
<1>1. PICK a \in Dbs, b \in Tabs, c \in K : k = <<a, b, c>>
  OBVIOUS
<1>2. Len(k) = 3
  BY <1>1
<1> DEFINE joined(n) == f \o SubSeq(k, n, 3)
<1>3. CASE \E db \in Dbs : f = <<db>>
  <2>1. PICK db \in Dbs : f = <<db>>
    BY <1>3
  <2>2. Len(f) = 1 /\ f[1] = db /\ Len(f) + 1 = 2
    BY <2>1
  <2>3. joined(2) = <<db>> \o <<b, c>>
    BY <2>1, <1>1, PartsOfTriple
  <2>4. joined(2) = <<db, b, c>>
    BY <2>3, JoinedIs
  <2> HIDE DEF joined
  <2>5. joined(Len(f) + 1) = <<f[1], k[2], k[3]>>
    BY <2>2, <2>4, <1>1
  <2>6. QED
    BY <1>2, <2>2, <2>5 DEF joined
<1>4. CASE \E db \in Dbs, t \in Tabs : f = <<db, t>>
  <2>1. PICK db \in Dbs, t \in Tabs : f = <<db, t>>
    BY <1>4
  <2>2. Len(f) = 2 /\ f[1] = db /\ f[2] = t /\ Len(f) + 1 = 3
    BY <2>1
  <2>3. joined(3) = <<db, t>> \o <<c>>
    BY <2>1, <1>1, PartsOfTriple
  <2>4. joined(3) = <<db, t, c>>
    BY <2>3, JoinedIs
  <2> HIDE DEF joined
  <2>5. joined(Len(f) + 1) = <<f[1], f[2], k[3]>>
    BY <2>2, <2>4, <1>1
  <2>6. QED
    BY <1>2, <2>2, <2>5 DEF joined
<1>5. QED
  BY <1>3, <1>4 DEF Folders, Tables

\* The new name of a key or path.
LEMMA RenamedKey ==
  ASSUME NEW K, NEW k \in Dbs \X Tabs \X K, ddl.to \in Folders
  PROVE  Renamed(k) = <<ddl.to[1], IF Len(ddl.to) = 1 THEN k[2] ELSE ddl.to[2], k[3]>>
<1>1. Len(k) = 3
  BY Prefixed
<1>2. Renamed(k) = ddl.to \o SubSeq(k, Len(ddl.to) + 1, 3)
  BY <1>1 DEF Renamed
<1>3. QED
  BY <1>2, Prefixed

\* The new name of a table, and of the folder of a database.
LEMMA RenamedTable ==
  ASSUME NEW t \in Tables, ddl.to \in Folders
  PROVE  Renamed(t) = <<ddl.to[1], IF Len(ddl.to) = 1 THEN t[2] ELSE ddl.to[2]>>
<1>1. PICK a \in Dbs, b \in Tabs : t = <<a, b>>
  BY DEF Tables
<1> DEFINE joined(n) == ddl.to \o SubSeq(t, n, 2)
<1>2. Renamed(t) = joined(Len(ddl.to) + 1)
  BY <1>1, PartsOfPair DEF Renamed
<1>3. CASE \E db \in Dbs : ddl.to = <<db>>
  <2>1. PICK db \in Dbs : ddl.to = <<db>>
    BY <1>3
  <2>2. Len(ddl.to) = 1 /\ ddl.to[1] = db /\ Len(ddl.to) + 1 = 2
    BY <2>1
  <2>3. joined(2) = <<db>> \o <<b>>
    BY <2>1, <1>1, PartsOfPair
  <2>4. <<db>> \o <<b>> = <<db, b>>
    BY JoinedPair
  <2> HIDE DEF joined
  <2>5. joined(Len(ddl.to) + 1) = <<db, b>>
    BY <2>2, <2>3, <2>4
  <2>6. QED
    BY <1>1, <1>2, <2>2, <2>5
<1>4. CASE \E db \in Dbs, u \in Tabs : ddl.to = <<db, u>>
  <2>1. PICK db \in Dbs, u \in Tabs : ddl.to = <<db, u>>
    BY <1>4
  <2>2. Len(ddl.to) = 2 /\ ddl.to[1] = db /\ ddl.to[2] = u /\ Len(ddl.to) + 1 = 3
    BY <2>1
  <2>3. SubSeq(t, 3, 2) = <<>>
    BY SubSeqEmpty
  <2>4. joined(3) = ddl.to \o <<>>
    BY <2>3
  <2>5. ddl.to \in Seq({db, u})
    BY <2>1
  <2>6. ddl.to \o <<>> = ddl.to
    BY <2>5, ConcatEmptySeq
  <2> HIDE DEF joined
  <2>7. joined(Len(ddl.to) + 1) = <<db, u>>
    BY <2>1, <2>2, <2>4, <2>6
  <2>8. QED
    BY <1>1, <1>2, <2>2, <2>7
<1>5. QED
  BY <1>3, <1>4 DEF Folders, Tables

\* A database's folder gets the new name.
LEMMA RenamedDb ==
  ASSUME NEW f, NEW to, f \in {<<db>> : db \in Dbs}, ddl.to = to, to \in {<<db>> : db \in Dbs}
  PROVE  Renamed(f) = to
<1>1. PICK a \in Dbs, db \in Dbs : f = <<a>> /\ to = <<db>>
  OBVIOUS
<1>2. Len(f) = 1 /\ Len(to) = 1 /\ 1 + 1 = 2
  BY <1>1
<1>3. SubSeq(f, 2, 1) = <<>>
  BY SubSeqEmpty
<1>4. Renamed(f) = to \o SubSeq(f, 2, 1)
  BY <1>2 DEF Renamed
<1>5. to \in Seq({db})
  BY <1>1
<1>6. QED
  BY <1>3, <1>4, <1>5, ConcatEmptySeq

-----------------------------------------------------------------------------
(* Maps.                                                                   *)

\* One key put into a map.
LEMMA PutFacts ==
  ASSUME NEW f, NEW k, NEW v
  PROVE  /\ DOMAIN Put(f, k, v) = DOMAIN f \cup {k}
         /\ Put(f, k, v)[k] = v
         /\ \A x \in DOMAIN f : x # k => Put(f, k, v)[x] = f[x]
         /\ Put(f, k, v) # Empty
BY DEF Put, Empty

\* One key dropped from a map.
LEMMA DropFacts ==
  ASSUME NEW f, NEW k
  PROVE  /\ DOMAIN Drop(f, k) = DOMAIN f \ {k}
         /\ \A x \in DOMAIN f \ {k} : Drop(f, k)[x] = f[x]
BY DEF Drop, Restrict

\* A map stays one with a key put into it or dropped.
LEMMA PutMap ==
  ASSUME NEW f, NEW K, NEW X, IsMap(f, K, X), NEW k \in K, NEW v \in X
  PROVE  IsMap(Put(f, k, v), K, X)
BY DEF Put, IsMap

\* A map stays one with a key dropped from it.
LEMMA DropMap ==
  ASSUME NEW f, NEW K, NEW X, IsMap(f, K, X), NEW k
  PROVE  IsMap(Drop(f, k), K, X)
BY DEF Drop, Restrict, IsMap

\* The empty map, and a map in a larger set.
LEMMA EmptyMap ==
  /\ DOMAIN Empty = {}
  /\ \A K, X : IsMap(Empty, K, X)
  /\ \A f, K, X : IsMap(f, K, X) /\ DOMAIN f = {} => f = Empty
BY DEF Empty, IsMap

\* A map is one into larger sets.
LEMMA LargerMap ==
  ASSUME NEW f, NEW K, NEW X, IsMap(f, K, X), NEW L, NEW Y, K \subseteq L, X \subseteq Y
  PROVE  IsMap(f, L, Y)
BY DEF IsMap

\* What a map is made of.
LEMMA MapFacts ==
  ASSUME NEW f, NEW K, NEW X, IsMap(f, K, X)
  PROVE  DOMAIN f \subseteq K /\ \A x \in DOMAIN f : f[x] \in X
BY DEF IsMap

-----------------------------------------------------------------------------
(* The invariant's parts that most steps leave alone.                      *)

\* What a path's store may hold grows with the rows there are.
LEMMA StoredGrows ==
  ASSUME StoresTypeOK, DOMAIN home \subseteq DOMAIN home', UNCHANGED store
  PROVE  \A p \in Paths : IsMap(store'[p], StoredKeys(p)', StoredVals(p)')
<1> SUFFICES ASSUME NEW p \in Paths
             PROVE  IsMap(store'[p], StoredKeys(p)', StoredVals(p)')
  OBVIOUS
<1>1. IsMap(store[p], StoredKeys(p), StoredVals(p))
  BY DEF StoresTypeOK
<1>2. StoredKeys(p) \subseteq StoredKeys(p)' /\ StoredVals(p) = StoredVals(p)'
  BY DEF StoredKeys, StoredVals
<1>3. QED
  BY <1>1, <1>2, LargerMap

\* A request at rest.
LEMMA NoDdlFits ==
  ASSUME ddl' = NoDdl
  PROVE  DdlTypeOK' /\ OpFits' /\ KeysFit' /\ RowsFit'
<1>1. DdlTypeOK'
  BY EmptyMap DEF DdlTypeOK, NoDdl
<1>2. OpFits'
  BY DEF OpFits, NoDdl
<1>3. KeysFit'
  BY DEF KeysFit, NoDdl, MovesKeys
<1>4. RowsFit'
  BY DEF RowsFit, NoDdl
<1>5. QED
  BY <1>1, <1>2, <1>3, <1>4

\* A key's path.
LEMMA KeyPath ==
  ASSUME NEW K, NEW key \in Dbs \X Tabs \X K
  PROVE  /\ <<key[1], key[2], "data">> \in Paths /\ <<key[1], key[2], "index">> \in Paths
         /\ <<key[1], key[2]>> \in Tables /\ key[3] \in K /\ key[1] \in Dbs /\ key[2] \in Tabs
BY DEF Paths, Tables

\* A path's kind and folders.
LEMMA PathFacts ==
  ASSUME NEW p \in Paths
  PROVE  /\ p[1] \in Dbs /\ p[2] \in Tabs /\ p[3] \in {"data", "index"}
         /\ p = <<p[1], p[2], p[3]>>
         /\ <<p[1]>> \in Folders /\ <<p[1], p[2]>> \in Folders /\ <<p[1], p[2]>> \in Tables
BY DEF Paths, Folders, Tables

\* A table's paths.
LEMMA TablePaths ==
  ASSUME NEW t \in Tables
  PROVE  /\ Append(t, "data") = <<t[1], t[2], "data">> /\ Append(t, "data") \in Paths
         /\ Append(t, "index") = <<t[1], t[2], "index">> /\ Append(t, "index") \in Paths
         /\ t = <<t[1], t[2]>> /\ t[1] \in Dbs /\ t[2] \in Tabs
<1>1. t = <<t[1], t[2]>> /\ t[1] \in Dbs /\ t[2] \in Tabs
  BY DEF Tables
<1>2. <<t[1], t[2], "data">> \in Paths /\ <<t[1], t[2], "index">> \in Paths
  BY <1>1 DEF Paths
<1>3. QED
  BY <1>1, <1>2, AppendedIs

\* A request while rows come and stores grow.
LEMMA DdlKept ==
  ASSUME StoresInv, UNCHANGED <<ddl, catalog>>, DOMAIN home \subseteq DOMAIN home',
         \A p \in Paths : /\ DOMAIN store[p] \subseteq DOMAIN store'[p]
                          /\ handle[p] = "open" => handle'[p] = "open"
  PROVE  DdlTypeOK' /\ OpFits' /\ KeysFit' /\ RowsFit'
<1>1. DdlTypeOK'
  <2>1. DdlTypeOK
    BY DEF StoresInv, StoresTypeOK
  <2>2. IsMap(ddl.rows, DOMAIN home', SUBSET Cols)
    BY <2>1, LargerMap DEF DdlTypeOK
  <2>3. QED
    BY <2>1, <2>2 DEF DdlTypeOK
<1>2. OpFits'
  BY DEF StoresInv, OpFits
<1>3. KeysFit'
  <2>1. KeysFit
    BY DEF StoresInv
  <2>2. \A p \in Paths : StoredKeys(p) \subseteq StoredKeys(p)' /\ StoredVals(p) = StoredVals(p)'
    BY DEF StoredKeys, StoredVals
  <2>3. QED
    BY <2>1, <2>2 DEF KeysFit, MovesKeys, Moved, InHand
<1>4. RowsFit'
  <2>1. RowsFit /\ OpFits /\ SchemaOK(catalog) /\ DdlTypeOK
    BY DEF StoresInv, StoresTypeOK
  <2>2. ddl.rows # Empty => ddl.path \in Paths
    <3>1. ddl.rows # Empty => ddl.pc = "rows" /\ ddl.path = Append(ddl.from, "data")
      BY <2>1 DEF RowsFit
    <3>2. ddl.pc = "rows" => ddl.op = "alter"
      BY <2>1 DEF OpFits, DdlTypeOK
    <3>3. ddl.op = "alter" => ddl.from \in DOMAIN catalog.tables
      BY <2>1 DEF OpFits
    <3>4. DOMAIN catalog.tables \subseteq Tables
      BY <2>1, MapFacts DEF SchemaOK
    <3>5. ddl.from \in Tables => Append(ddl.from, "data") \in Paths
      BY TablePaths
    <3>6. QED
      BY <3>1, <3>2, <3>3, <3>4, <3>5
  <2>3. QED
    BY <2>1, <2>2 DEF RowsFit
<1>5. QED
  BY <1>1, <1>2, <1>3, <1>4

-----------------------------------------------------------------------------
(* Requests on rows, and the flushers.                                     *)

\* A store is opened, and something may be written to it if it could be.
LEMMA OpenStore ==
  ASSUME StoresTypeOK, StoresOnDisk, NEW p \in Paths, GetDiskStore(p),
         \A q \in Paths : q # p \/ ~Usable(p) => store'[q] = store[q]
  PROVE  /\ handle' \in [Paths -> {"none", "open", "closed"}]
         /\ dirs' \subseteq Folders /\ present' \subseteq Paths
         /\ StoresOnDisk'
         /\ \A q \in Paths : handle[q] = "open" => handle'[q] = "open"
<1>1. handle \in [Paths -> {"none", "open", "closed"}]
  BY DEF StoresTypeOK
<1>2. /\ handle' \in [Paths -> {"none", "open", "closed"}]
      /\ \A q \in Paths : handle'[q] = IF q = p /\ handle[q] = "none" THEN "open" ELSE handle[q]
  BY <1>1 DEF GetDiskStore
<1>3. CASE handle[p] = "none"
  <2>1. present' = present \cup {p} /\ dirs' = dirs \cup {<<p[1]>>, <<p[1], p[2]>>}
    BY <1>3 DEF GetDiskStore
  <2>2. dirs' \subseteq Folders /\ present' \subseteq Paths
    <3>1. dirs \subseteq Folders /\ present \subseteq Paths
      BY DEF StoresTypeOK
    <3>2. <<p[1]>> \in Folders /\ <<p[1], p[2]>> \in Folders
      BY PathFacts
    <3>3. QED
      BY <2>1, <3>1, <3>2
  <2>3. \A q \in Paths :
          /\ store'[q] # Empty => q \in present' \/ handle'[q] = "open"
          /\ q[3] = "data" /\ handle'[q] = "open" => q \in present'
    BY <2>1, <1>2, <1>3 DEF StoresOnDisk, Usable
  <2>4. \A q \in present' : <<q[1], q[2]>> \in dirs' /\ <<q[1]>> \in dirs'
    BY <2>1 DEF StoresOnDisk
  <2>5. QED
    BY <1>2, <2>2, <2>3, <2>4 DEF StoresOnDisk
<1>4. CASE handle[p] # "none"
  <2>1. UNCHANGED <<present, dirs, handle>>
    <3>1. handle' = handle
      BY <1>1, <1>2, <1>4
    <3>2. QED
      BY <3>1, <1>4 DEF GetDiskStore
  <2>2. handle[p] = "closed" \/ handle[p] = "open"
    BY <1>1, <1>4
  <2>3. StoresOnDisk'
    BY <2>1, <2>2, <1>4 DEF StoresOnDisk, Usable
  <2>4. QED
    BY <1>2, <2>1, <2>3 DEF StoresTypeOK
<1>5. QED
  BY <1>3, <1>4

\* What is indexed of a row is queued under its columns.
LEMMA IndexedMap ==
  ASSUME NEW key \in Dbs \X Tabs \X Pks, NEW cols \in SUBSET Cols,
         IsMap(ibuf, Dbs \X Tabs \X Cols, SUBSET Pks)
  PROVE  IsMap(Indexed(ibuf, key, cols), Dbs \X Tabs \X Cols, SUBSET Pks)
<1> DEFINE D == DOMAIN ibuf \cup {<<key[1], key[2], c>> : c \in cols}
           val(k) == (IF k \in DOMAIN ibuf THEN ibuf[k] ELSE {})
                     \cup (IF k[1] = key[1] /\ k[2] = key[2] /\ k[3] \in cols THEN {key[3]} ELSE {})
<1>1. D \subseteq Dbs \X Tabs \X Cols
  BY DEF IsMap
<1>2. \A k \in D : val(k) \subseteq Pks
  BY DEF IsMap
<1>3. Indexed(ibuf, key, cols) = [k \in D |-> val(k)]
  BY DEF Indexed
<1> HIDE DEF D, val
<1>4. QED
  BY <1>1, <1>2, <1>3 DEF IsMap

\* A save of a row that is there, or is made to be.
LEMMA SaveInv ==
  ASSUME StoresInv, NEW db \in Dbs, NEW table \in Tabs, NEW pk \in Pks, Save(db, table, pk),
         IsMap(home', Pks, Tables), DOMAIN home' = DOMAIN home \cup {pk},
         indexed' \subseteq indexed \cup {pk}
  PROVE  StoresInv'
<1> DEFINE key == <<db, table, pk>>
           cols == cache.tables[<<db, table>>]
<1>1. /\ <<db, table>> \in DOMAIN cache.tables
      /\ ram' = Put(ram, key, cols) /\ ibuf' = Indexed(ibuf, key, cols)
      /\ expected' = expected \cup {pk} /\ writes' = writes + 1
      /\ UNCHANGED <<catalog, cache, dirs, present, store, handle, ddl, calm, requests>>
  BY DEF Save, storage
<1>2. cols \in SUBSET Cols
  BY <1>1, MapFacts DEF StoresInv, StoresTypeOK, SchemaOK
<1>3. key \in Dbs \X Tabs \X Pks /\ key \in Dbs \X Tabs \X DOMAIN home'
  OBVIOUS
<1> HIDE DEF key, cols
<1>4. IsMap(ram', Dbs \X Tabs \X DOMAIN home', SUBSET Cols)
  <2>1. IsMap(ram, Dbs \X Tabs \X DOMAIN home, SUBSET Cols)
    BY DEF StoresInv, StoresTypeOK
  <2>2. IsMap(ram, Dbs \X Tabs \X DOMAIN home', SUBSET Cols)
    BY <2>1, LargerMap
  <2>3. QED
    BY <2>2, <1>1, <1>2, <1>3, PutMap
<1>5. IsMap(ibuf', Dbs \X Tabs \X Cols, SUBSET Pks)
  BY <1>1, <1>2, <1>3, IndexedMap DEF StoresInv, StoresTypeOK
<1>6. DdlTypeOK' /\ OpFits' /\ KeysFit' /\ RowsFit'
  BY <1>1, DdlKept
<1>7. \A p \in Paths : IsMap(store'[p], StoredKeys(p)', StoredVals(p)')
  BY <1>1, StoredGrows DEF StoresInv
<1>8. StoresTypeOK'
  <2>1. StoresTypeOK
    BY DEF StoresInv
  <2>2. SchemaOK(catalog)' /\ SchemaOK(cache)'
    BY <2>1, <1>1 DEF StoresTypeOK, SchemaOK
  <2>3. store' \in [Paths -> {store'[p] : p \in Paths}]
    BY <2>1, <1>1 DEF StoresTypeOK
  <2>4. /\ dirs' \subseteq Folders /\ present' \subseteq Paths
        /\ handle' \in [Paths -> {"none", "open", "closed"}]
        /\ expected' \subseteq DOMAIN home' /\ indexed' \subseteq DOMAIN home'
        /\ calm' \subseteq Dbs /\ writes' \in Nat /\ requests' \in Nat
    BY <2>1, <1>1 DEF StoresTypeOK
  <2>5. QED
    BY <2>2, <2>3, <2>4, <1>4, <1>5, <1>6, <1>7 DEF StoresTypeOK
<1>9. StoresOnDisk'
  BY <1>1 DEF StoresInv, StoresOnDisk
<1>10. QED
  BY <1>6, <1>8, <1>9 DEF StoresInv

\* Insert keeps the invariant.
LEMMA InsertInv ==
  ASSUME StoresInv, NEW db \in Dbs, NEW table \in Tabs, NEW pk \in Pks, Insert(db, table, pk)
  PROVE  StoresInv'
<1>1. IsMap(home, Pks, Tables) /\ <<db, table>> \in Tables
  BY DEF StoresInv, StoresTypeOK, Tables
<1>2. home' = Put(home, pk, <<db, table>>) /\ indexed' = indexed \cup {pk} /\ Save(db, table, pk)
  BY DEF Insert
<1>3. IsMap(home', Pks, Tables)
  BY <1>1, <1>2, PutMap
<1>4. DOMAIN home' = DOMAIN home \cup {pk}
  BY <1>2, PutFacts
<1>5. QED
  BY <1>2, <1>3, <1>4, SaveInv

\* A row that can be read was inserted once.
LEMMA ReadRowsInserted ==
  ASSUME StoresTypeOK, NEW t \in Tables, NEW pk, RowOf(<<t[1], t[2], pk>>) # {}
  PROVE  pk \in DOMAIN home
<1> DEFINE key == <<t[1], t[2], pk>>
           p == <<t[1], t[2], "data">>
<1>1. key[1] = t[1] /\ key[2] = t[2] /\ key[3] = pk
  OBVIOUS
<1>2. p \in Paths /\ p[3] = "data"
  BY DEF Tables, Paths
<1>3. key \in DOMAIN ram \/ key \in DOMAIN store[p]
  BY <1>1 DEF RowOf
<1> HIDE DEF key, p
<1>4. DOMAIN ram \subseteq Dbs \X Tabs \X DOMAIN home
  BY MapFacts DEF StoresTypeOK
<1>5. DOMAIN store[p] \subseteq Dbs \X Tabs \X DOMAIN home
  <2>1. IsMap(store[p], StoredKeys(p), StoredVals(p))
    BY <1>2 DEF StoresTypeOK
  <2>2. StoredKeys(p) = Dbs \X Tabs \X DOMAIN home
    BY <1>2 DEF StoredKeys
  <2>3. QED
    BY <2>1, <2>2, MapFacts
<1>6. QED
  BY <1>1, <1>3, <1>4, <1>5

\* Update keeps the invariant.
LEMMA UpdateInv ==
  ASSUME StoresInv, NEW db \in Dbs, NEW table \in Tabs, NEW pk \in Pks, Update(db, table, pk)
  PROVE  StoresInv'
<1>1. Save(db, table, pk) /\ UNCHANGED <<home, indexed>> /\ RowOf(<<db, table, pk>>) # {}
  BY DEF Update
<1>2. pk \in DOMAIN home
  <2>1. <<db, table>> \in Tables
    BY DEF Tables
  <2>2. QED
    BY <2>1, <1>1, ReadRowsInserted DEF StoresInv
<1>3. QED
  BY <1>1, <1>2, SaveInv DEF StoresInv, StoresTypeOK

\* A step of the flushers, or a read: one store is opened, and may grow.
LEMMA StorageStep ==
  ASSUME StoresInv, NEW p \in Paths, GetDiskStore(p),
         UNCHANGED <<catalog, cache, ddl, history, writes, requests>>,
         NEW held, store' = [q \in Paths |-> IF q = p THEN held ELSE store[q]],
         IsMap(held, StoredKeys(p), StoredVals(p)), DOMAIN store[p] \subseteq DOMAIN held,
         ~Usable(p) => held = store[p],
         IsMap(ram', Dbs \X Tabs \X DOMAIN home, SUBSET Cols),
         IsMap(ibuf', Dbs \X Tabs \X Cols, SUBSET Pks)
  PROVE  StoresInv'
<1>1. UNCHANGED <<home, expected, calm, late, indexed>>
  BY DEF history
<1>2. \A q \in Paths : store'[q] = IF q = p THEN held ELSE store[q]
  OBVIOUS
<1>3. \A q \in Paths : q # p \/ ~Usable(p) => store'[q] = store[q]
  BY <1>2
<1>4. /\ handle' \in [Paths -> {"none", "open", "closed"}]
      /\ dirs' \subseteq Folders /\ present' \subseteq Paths
      /\ StoresOnDisk'
      /\ \A q \in Paths : handle[q] = "open" => handle'[q] = "open"
  BY <1>3, OpenStore DEF StoresInv
<1>5. DdlTypeOK' /\ OpFits' /\ KeysFit' /\ RowsFit'
  BY <1>1, <1>2, <1>4, DdlKept
<1>6. \A q \in Paths : IsMap(store'[q], StoredKeys(q)', StoredVals(q)')
  <2>1. \A q \in Paths : IsMap(store[q], StoredKeys(q), StoredVals(q))
    BY DEF StoresInv, StoresTypeOK
  <2>2. \A q \in Paths : StoredKeys(q)' = StoredKeys(q) /\ StoredVals(q)' = StoredVals(q)
    BY <1>1 DEF StoredKeys, StoredVals
  <2>3. QED
    BY <2>1, <2>2, <1>2
<1>7. store' \in [Paths -> {store'[q] : q \in Paths}]
  OBVIOUS
<1>8. SchemaOK(catalog)' /\ SchemaOK(cache)'
  BY DEF StoresInv, StoresTypeOK, SchemaOK
<1>9. StoresTypeOK'
  <2>1. /\ IsMap(home, Pks, Tables) /\ expected \subseteq DOMAIN home
        /\ indexed \subseteq DOMAIN home /\ calm \subseteq Dbs
        /\ writes \in Nat /\ requests \in Nat
    BY DEF StoresInv, StoresTypeOK
  <2>2. QED
    BY <2>1, <1>1, <1>4, <1>5, <1>6, <1>7, <1>8 DEF StoresTypeOK
<1>10. QED
  BY <1>4, <1>5, <1>9 DEF StoresInv

\* The store of one path, written as a function of all.
LEMMA OneStore ==
  ASSUME StoresTypeOK, NEW p \in Paths
  PROVE  /\ \A held : [store EXCEPT ![p] = held] = [q \in Paths |-> IF q = p THEN held ELSE store[q]]
         /\ store = [q \in Paths |-> IF q = p THEN store[p] ELSE store[q]]
BY DEF StoresTypeOK

\* GetData keeps the invariant.
LEMMA GetDataInv ==
  ASSUME StoresInv, NEW db \in Dbs, NEW table \in Tabs, GetData(db, table)
  PROVE  StoresInv'
<1> DEFINE p == <<db, table, "data">>
<1>1. p \in Paths
  BY DEF Paths
<1>2. GetDiskStore(p) /\ UNCHANGED <<catalog, cache, store, ram, ibuf, ddl, history, writes, requests>>
  BY DEF GetData, buffers
<1> HIDE DEF p
<1>3. store' = [q \in Paths |-> IF q = p THEN store[p] ELSE store[q]]
  BY <1>1, <1>2, OneStore DEF StoresInv
<1>4. /\ IsMap(store[p], StoredKeys(p), StoredVals(p))
      /\ IsMap(ram', Dbs \X Tabs \X DOMAIN home, SUBSET Cols)
      /\ IsMap(ibuf', Dbs \X Tabs \X Cols, SUBSET Pks)
  BY <1>1, <1>2 DEF StoresInv, StoresTypeOK
<1>5. QED
  BY <1>1, <1>2, <1>3, <1>4, StorageStep

\* FlushRow keeps the invariant.
LEMMA FlushRowInv ==
  ASSUME StoresInv, NEW key \in DOMAIN ram, FlushRow(key)
  PROVE  StoresInv'
<1> DEFINE p == <<key[1], key[2], "data">>
           held == Put(store[p], key, Value(ram[key]))
<1>1. /\ IsMap(ram, Dbs \X Tabs \X DOMAIN home, SUBSET Cols)
      /\ IsMap(ibuf, Dbs \X Tabs \X Cols, SUBSET Pks)
  BY DEF StoresInv, StoresTypeOK
<1>2. key \in Dbs \X Tabs \X DOMAIN home /\ ram[key] \in SUBSET Cols
  BY <1>1, MapFacts
<1>3. p \in Paths /\ p[3] = "data"
  BY <1>2, KeyPath
<1>4. /\ GetDiskStore(p) /\ Usable(p)
      /\ store' = [store EXCEPT ![p] = Put(@, key, Value(ram[key]))]
      /\ ram' = Drop(ram, key)
      /\ UNCHANGED <<catalog, cache, ibuf, ddl, history, writes, requests>>
  BY DEF FlushRow
<1>5. IsMap(held, StoredKeys(p), StoredVals(p))
  <2>1. IsMap(store[p], StoredKeys(p), StoredVals(p))
    BY <1>3 DEF StoresInv, StoresTypeOK
  <2>2. Value(ram[key]) \in StoredVals(p)
    BY <1>2, <1>3 DEF Value, StoredVals
  <2>3. key \in StoredKeys(p)
    BY <1>2, <1>3 DEF StoredKeys
  <2>4. QED
    BY <2>1, <2>2, <2>3, PutMap
<1>6. DOMAIN store[p] \subseteq DOMAIN held
  <2> HIDE DEF p
  <2>1. DOMAIN held = DOMAIN store[p] \cup {key}
    BY PutFacts
  <2>2. QED
    BY <2>1
<1>7. IsMap(ram', Dbs \X Tabs \X DOMAIN home, SUBSET Cols)
  BY <1>1, <1>4, DropMap
<1>8. store' = [store EXCEPT ![p] = held]
  BY <1>4
<1> HIDE DEF held, p
<1>9. store' = [q \in Paths |-> IF q = p THEN held ELSE store[q]]
  <2>1. StoresTypeOK
    BY DEF StoresInv
  <2>2. [store EXCEPT ![p] = held] = [q \in Paths |-> IF q = p THEN held ELSE store[q]]
    BY <2>1, <1>3, OneStore
  <2>3. QED
    BY <2>2, <1>8
<1>10. QED
  BY <1>1, <1>3, <1>4, <1>5, <1>6, <1>7, <1>9, StorageStep

\* FlushIndex keeps the invariant.
LEMMA FlushIndexInv ==
  ASSUME StoresInv, NEW key \in DOMAIN ibuf, FlushIndex(key)
  PROVE  StoresInv'
<1> DEFINE p == <<key[1], key[2], "index">>
           old == IF key \in DOMAIN store[p] /\ store[p][key].enc = 0 THEN store[p][key].set ELSE {}
           written == Usable(p) /\ ~(ibuf[key] \subseteq old)
           held == IF written THEN Put(store[p], key, Value(old \cup ibuf[key])) ELSE store[p]
<1>1. /\ IsMap(ram, Dbs \X Tabs \X DOMAIN home, SUBSET Cols)
      /\ IsMap(ibuf, Dbs \X Tabs \X Cols, SUBSET Pks)
  BY DEF StoresInv, StoresTypeOK
<1>2. key \in Dbs \X Tabs \X Cols /\ ibuf[key] \in SUBSET Pks
  BY <1>1, MapFacts
<1>3. p \in Paths /\ p[3] = "index"
  BY <1>2, KeyPath
<1>4. /\ GetDiskStore(p)
      /\ store' = IF written THEN [store EXCEPT ![p] = Put(@, key, Value(old \cup ibuf[key]))]
                  ELSE store
      /\ ibuf' = Drop(ibuf, key)
      /\ UNCHANGED <<catalog, cache, ram, ddl, history, writes, requests>>
  BY DEF FlushIndex
<1>5. IsMap(store[p], StoredKeys(p), StoredVals(p))
  BY <1>3 DEF StoresInv, StoresTypeOK
<1>6. old \in SUBSET Pks
  <2>1. StoredVals(p) = [set : SUBSET Pks, enc : Nat]
    BY <1>3 DEF StoredVals
  <2> HIDE DEF p
  <2>2. \A k \in DOMAIN store[p] : store[p][k] \in [set : SUBSET Pks, enc : Nat]
    BY <2>1, <1>5, MapFacts
  <2>3. QED
    BY <2>2
<1>7. IsMap(held, StoredKeys(p), StoredVals(p))
  <2>1. old \cup ibuf[key] \in SUBSET Pks
    BY <1>2, <1>6
  <2> HIDE DEF old
  <2>2. Value(old \cup ibuf[key]) \in StoredVals(p)
    <3>1. StoredVals(p) = [set : SUBSET Pks, enc : Nat]
      BY <1>3 DEF StoredVals
    <3>2. QED
      BY <3>1, <2>1 DEF Value
  <2>3. key \in StoredKeys(p)
    BY <1>2, <1>3 DEF StoredKeys
  <2>4. QED
    BY <2>2, <2>3, <1>5, PutMap
<1>8. DOMAIN store[p] \subseteq DOMAIN held
  <2> HIDE DEF p, old, written
  <2>1. written => DOMAIN held = DOMAIN store[p] \cup {key}
    BY PutFacts
  <2>2. QED
    BY <2>1
<1>9. IsMap(ibuf', Dbs \X Tabs \X Cols, SUBSET Pks)
  BY <1>1, <1>4, DropMap
<1>10. store' = IF written THEN [store EXCEPT ![p] = held] ELSE store
  BY <1>4
<1>11. (~written => held = store[p]) /\ (~Usable(p) => ~written)
  OBVIOUS
<1> HIDE DEF held, old, written, p
<1>12. store' = [q \in Paths |-> IF q = p THEN held ELSE store[q]]
  <2>1. StoresTypeOK
    BY DEF StoresInv
  <2>2. CASE written
    <3>1. [store EXCEPT ![p] = held] = [q \in Paths |-> IF q = p THEN held ELSE store[q]]
      BY <2>1, <1>3, OneStore
    <3>2. QED
      BY <3>1, <2>2, <1>10
  <2>3. CASE ~written
    BY <2>1, <2>3, <1>3, <1>10, <1>11, OneStore
  <2>4. QED
    BY <2>2, <2>3
<1>13. QED
  BY <1>1, <1>3, <1>4, <1>7, <1>8, <1>9, <1>11, <1>12, StorageStep

-----------------------------------------------------------------------------
(* Schema requests, and their steps that leave the stores alone.           *)

\* Such a step keeps the invariant if its request fits again.
LEMMA DdlStep ==
  ASSUME StoresInv, UNCHANGED <<cache, storage, buffers, home, expected, indexed, writes>>,
         SchemaOK(catalog)', calm' \subseteq Dbs, requests' \in Nat,
         DdlTypeOK', OpFits', KeysFit', RowsFit'
  PROVE  StoresInv'
<1>1. UNCHANGED <<dirs, present, store, handle, ram, ibuf>>
  BY DEF storage, buffers
<1>2. SchemaOK(cache)'
  BY DEF StoresInv, StoresTypeOK, SchemaOK
<1>3. /\ dirs' \subseteq Folders /\ present' \subseteq Paths
      /\ store' \in [Paths -> {store'[p] : p \in Paths}]
      /\ handle' \in [Paths -> {"none", "open", "closed"}]
      /\ IsMap(ram', Dbs \X Tabs \X DOMAIN home', SUBSET Cols)
      /\ IsMap(ibuf', Dbs \X Tabs \X Cols, SUBSET Pks)
      /\ IsMap(home', Pks, Tables)
      /\ expected' \subseteq DOMAIN home' /\ indexed' \subseteq DOMAIN home' /\ writes' \in Nat
  BY <1>1 DEF StoresInv, StoresTypeOK
<1>4. \A p \in Paths : IsMap(store'[p], StoredKeys(p)', StoredVals(p)')
  BY <1>1, StoredGrows DEF StoresInv
<1>5. StoresOnDisk'
  BY <1>1 DEF StoresInv, StoresOnDisk
<1>6. QED
  BY <1>2, <1>3, <1>4, <1>5 DEF StoresInv, StoresTypeOK

\* A request begins.
LEMMA RequestedFacts ==
  ASSUME StoresInv, NEW t, Requested(t)
  PROVE  /\ ddl.pc = "idle" /\ ddl = NoDdl /\ ddl' = t /\ requests' \in Nat
         /\ UNCHANGED <<cache, storage, buffers, home, expected, indexed, writes>>
BY DEF Requested, StoresInv, OpFits, StoresTypeOK

\* Create keeps the invariant.
LEMMA CreateInv ==
  ASSUME StoresInv, Requested([NoDdl EXCEPT !.op = "create", !.pc = "reload"]),
         UNCHANGED calm, SchemaOK(catalog)'
  PROVE  StoresInv'
<1>1. ddl' = [NoDdl EXCEPT !.op = "create", !.pc = "reload"]
  BY RequestedFacts
<1>2. /\ requests' \in Nat /\ calm' \subseteq Dbs
      /\ UNCHANGED <<cache, storage, buffers, home, expected, indexed, writes>>
  BY RequestedFacts DEF StoresInv, StoresTypeOK
<1>3. DdlTypeOK'
  BY <1>1, EmptyMap DEF DdlTypeOK, NoDdl
<1>4. OpFits'
  BY <1>1 DEF OpFits, NoDdl
<1>5. KeysFit'
  BY <1>1 DEF KeysFit, NoDdl, MovesKeys
<1>6. RowsFit'
  BY <1>1 DEF RowsFit, NoDdl
<1>7. QED
  BY <1>2, <1>3, <1>4, <1>5, <1>6, DdlStep

\* CreateDatabase keeps the invariant.
LEMMA CreateDatabaseInv ==
  ASSUME StoresInv, NEW db \in Dbs, CreateDatabase(db)
  PROVE  StoresInv'
<1>1. SchemaOK(catalog)
  BY DEF StoresInv, StoresTypeOK
<1>2. catalog' = [catalog EXCEPT !.dbs = @ \cup {db}]
  BY DEF CreateDatabase
<1>3. SchemaOK(catalog)'
  BY <1>1, <1>2 DEF SchemaOK
<1>4. QED
  BY <1>3, CreateInv DEF CreateDatabase

\* CreateTable keeps the invariant.
LEMMA CreateTableInv ==
  ASSUME StoresInv, NEW db \in Dbs, NEW table \in Tabs, CreateTable(db, table, FirstCols)
  PROVE  StoresInv'
<1>1. SchemaOK(catalog)
  BY DEF StoresInv, StoresTypeOK
<1>2. catalog' = [catalog EXCEPT !.tables = Put(catalog.tables, <<db, table>>, FirstCols \cup {Id})]
  BY DEF CreateTable
<1>3. IsMap(Put(catalog.tables, <<db, table>>, FirstCols \cup {Id}), Tables, SUBSET Cols)
  <2>1. <<db, table>> \in Tables /\ FirstCols \cup {Id} \in SUBSET Cols
    BY TableStoresConstants DEF Tables
  <2>2. IsMap(catalog.tables, Tables, SUBSET Cols)
    BY <1>1 DEF SchemaOK
  <2>3. QED
    BY <2>1, <2>2, PutMap
<1>4. SchemaOK(catalog)'
  BY <1>1, <1>2, <1>3 DEF SchemaOK
<1>5. QED
  BY <1>4, CreateInv DEF CreateTable

\* The stores a scan starts with are of the kind and under the folder.
LEMMA RenamedStoresFacts ==
  ASSUME NEW from, NEW kind
  PROVE  /\ RenamedStores(from, kind) \subseteq StoresUnder(from, kind)
         /\ StoresUnder(from, kind) \subseteq Paths
         /\ \A p \in StoresUnder(from, kind) : Under(p, from) /\ p[3] = kind
BY DEF RenamedStores, StoresUnder

\* Rename keeps the invariant.
LEMMA RenameInv ==
  ASSUME StoresInv, NEW from \in Folders, NEW to \in Folders, Rename(from, to),
         Len(from) = Len(to), from # to, Len(from) = 2 => from[1] = to[1]
  PROVE  StoresInv'
<1> DEFINE paths == RenamedStores(from, "data")
<1>1. ddl' = [NoDdl EXCEPT !.op = "rename", !.pc = "rowKeys", !.from = from, !.to = to,
                           !.paths = paths]
  BY RequestedFacts DEF Rename
<1>2. /\ requests' \in Nat
      /\ UNCHANGED <<cache, storage, buffers, home, expected, indexed, writes>>
  BY RequestedFacts DEF Rename
<1>3. calm' \subseteq Dbs
  BY DEF Rename, StoresInv, StoresTypeOK
<1>4. UNCHANGED catalog
  BY DEF Rename
<1>5. SchemaOK(catalog)'
  BY <1>4 DEF StoresInv, StoresTypeOK, SchemaOK
<1>6. paths \subseteq Paths /\ \A p \in paths : Under(p, from) /\ p[3] = "data"
  BY RenamedStoresFacts
<1> HIDE DEF paths
<1>7. DdlTypeOK'
  BY <1>1, <1>6, EmptyMap DEF DdlTypeOK, NoDdl
<1>8. OpFits'
  BY <1>1 DEF OpFits, NoDdl
<1>9. KeysFit'
  BY <1>1, <1>6 DEF KeysFit, NoDdl, MovesKeys, Moved
<1>10. RowsFit'
  BY <1>1 DEF RowsFit, NoDdl
<1>11. QED
  BY <1>2, <1>3, <1>5, <1>7, <1>8, <1>9, <1>10, DdlStep

\* RenameTable keeps the invariant.
LEMMA RenameTableInv ==
  ASSUME StoresInv, NEW db \in Dbs, NEW table \in Tabs, NEW to \in Tabs, RenameTable(db, table, to)
  PROVE  StoresInv'
<1> DEFINE f == <<db, table>>
           g == <<db, to>>
<1>1. f \in Folders /\ g \in Folders
  BY DEF Folders, Tables
<1>2. f \in DOMAIN cache.tables /\ g \notin DOMAIN cache.tables /\ Rename(f, g)
  BY DEF RenameTable
<1>3. Len(f) = Len(g) /\ f[1] = g[1]
  OBVIOUS
<1> HIDE DEF f, g
<1>4. QED
  BY <1>1, <1>2, <1>3, RenameInv

\* RenameDatabase keeps the invariant.
LEMMA RenameDatabaseInv ==
  ASSUME StoresInv, NEW db \in Dbs, NEW to \in Dbs, RenameDatabase(db, to)
  PROVE  StoresInv'
<1> DEFINE f == <<db>>
           g == <<to>>
<1>1. f \in Folders /\ g \in Folders
  BY DEF Folders
<1>2. db # to /\ Rename(f, g)
  BY DEF RenameDatabase
<1>3. Len(f) = 1 /\ Len(g) = 1 /\ f # g
  BY <1>2
<1> HIDE DEF f, g
<1>4. QED
  BY <1>1, <1>2, <1>3, RenameInv

\* Delete keeps the invariant.
LEMMA DeleteInv ==
  ASSUME StoresInv, NEW from \in Folders, Delete(from)
  PROVE  StoresInv'
<1>1. ddl' = [NoDdl EXCEPT !.op = "delete", !.pc = "dropKeys", !.from = from]
  BY RequestedFacts DEF Delete
<1>2. /\ requests' \in Nat
      /\ UNCHANGED <<cache, storage, buffers, home, expected, indexed, writes>>
  BY RequestedFacts DEF Delete
<1>3. calm' \subseteq Dbs
  BY DEF Delete, StoresInv, StoresTypeOK
<1>4. UNCHANGED catalog
  BY DEF Delete
<1>5. SchemaOK(catalog)'
  BY <1>4 DEF StoresInv, StoresTypeOK, SchemaOK
<1>6. DdlTypeOK'
  BY <1>1, EmptyMap DEF DdlTypeOK, NoDdl
<1>7. OpFits'
  BY <1>1 DEF OpFits, NoDdl
<1>8. KeysFit'
  BY <1>1 DEF KeysFit, NoDdl, MovesKeys
<1>9. RowsFit'
  BY <1>1 DEF RowsFit, NoDdl
<1>10. QED
  BY <1>2, <1>3, <1>5, <1>6, <1>7, <1>8, <1>9, DdlStep

\* Deletes keeps the invariant.
LEMMA DeletesInv ==
  ASSUME StoresInv, NEW db \in Dbs,
         DeleteDatabase(db) \/ \E table \in Tabs : DeleteTable(db, table)
  PROVE  StoresInv'
<1>1. <<db>> \in Folders /\ \A table \in Tabs : <<db, table>> \in Folders
  BY DEF Folders, Tables
<1>2. QED
  BY <1>1, DeleteInv DEF DeleteDatabase, DeleteTable

\* An alteration leaves columns.
LEMMA AlteredColsType ==
  ASSUME NEW cols \in SUBSET Cols, NEW a \in Alterations
  PROVE  AlteredCols(cols, a) \in SUBSET Cols
<1>1. a \in [do : {"rename", "add", "drop"}, name : Cols, new : Cols]
  BY TableStoresConstants
<1>2. a.do \in {"rename", "add", "drop"} /\ a.name \in Cols /\ a.new \in Cols
  BY <1>1
<1>3. QED
  BY <1>2 DEF AlteredCols

\* AlterTable keeps the invariant.
LEMMA AlterTableInv ==
  ASSUME StoresInv, NEW db \in Dbs, NEW table \in Tabs, NEW a \in Alterations,
         AlterTable(db, table, a)
  PROVE  StoresInv'
<1> DEFINE from == <<db, table>>
           paths == StoresUnder(from, "data")
           cols == AlteredCols(catalog.tables[from], a)
<1>1. ddl' = [NoDdl EXCEPT !.op = "alter", !.pc = "rows", !.from = from,
                           !.alter = a, !.paths = paths]
  BY RequestedFacts DEF AlterTable
<1>2. /\ requests' \in Nat
      /\ UNCHANGED <<cache, storage, buffers, home, expected, indexed, writes>>
  BY RequestedFacts DEF AlterTable
<1>3. calm' \subseteq Dbs
  BY DEF AlterTable, StoresInv, StoresTypeOK
<1>4. /\ from \in DOMAIN catalog.tables
      /\ catalog' = [catalog EXCEPT !.tables[from] = cols]
  BY DEF AlterTable
<1>5. from \in Tables /\ from \in Folders
  BY DEF Folders, Tables
<1>6. SchemaOK(catalog)
  BY DEF StoresInv, StoresTypeOK
<1>7. cols \in SUBSET Cols
  BY <1>4, <1>6, AlteredColsType, MapFacts DEF SchemaOK
<1>8. paths \subseteq Paths /\ \A p \in paths : Under(p, from) /\ p[3] = "data"
  BY RenamedStoresFacts
<1>9. paths \subseteq {Append(from, "data")}
  <2>1. Append(from, "data") = <<db, table, "data">>
    BY <1>5, AppendedIs
  <2>2. ASSUME NEW p \in paths
        PROVE  p = <<db, table, "data">>
    <3>1. p = <<p[1], p[2], p[3]>> /\ p[3] = "data" /\ p \in Dbs \X Tabs \X {"data", "index"}
      BY <1>8, PathFacts DEF Paths
    <3>2. from = <<p[1]>> \/ from = <<p[1], p[2]>>
      BY <3>1, <1>5, <1>8, UnderFacts
    <3>3. QED
      BY <3>1, <3>2
  <2>3. QED
    BY <2>1, <2>2
<1> HIDE DEF cols, paths, from
<1>10. SchemaOK(catalog)' /\ from \in DOMAIN catalog'.tables
  <2>1. /\ catalog \in [dbs : SUBSET Dbs, tables : {catalog.tables}]
        /\ IsMap(catalog.tables, Tables, SUBSET Cols)
    BY <1>6 DEF SchemaOK
  <2>2. /\ catalog' \in [dbs : SUBSET Dbs, tables : {catalog'.tables}]
        /\ catalog'.tables = [catalog.tables EXCEPT ![from] = cols]
    BY <2>1, <1>4
  <2>3. IsMap(catalog'.tables, Tables, SUBSET Cols) /\ from \in DOMAIN catalog'.tables
    BY <2>1, <2>2, <1>4, <1>7 DEF IsMap
  <2>4. QED
    BY <2>2, <2>3 DEF SchemaOK
<1>11. DdlTypeOK'
  BY <1>1, <1>5, <1>8, EmptyMap DEF DdlTypeOK, NoDdl
<1>12. OpFits'
  BY <1>1, <1>10 DEF OpFits, NoDdl
<1>13. KeysFit'
  BY <1>1 DEF KeysFit, NoDdl, MovesKeys
<1>14. RowsFit'
  BY <1>1, <1>9 DEF RowsFit, NoDdl
<1>15. QED
  BY <1>2, <1>3, <1>10, <1>11, <1>12, <1>13, <1>14, DdlStep

\* RefereshIndex keeps the invariant.
LEMMA RefereshIndexInv ==
  ASSUME StoresInv, RefereshIndex
  PROVE  StoresInv'
<1> DEFINE paths == {<<t[1], t[2], "index">> : t \in DOMAIN cache.tables}
<1>1. ddl' = [NoDdl EXCEPT !.op = "refresh", !.pc = "unindex", !.paths = paths]
  BY RequestedFacts DEF RefereshIndex
<1>2. /\ requests' \in Nat
      /\ UNCHANGED <<cache, storage, buffers, home, expected, indexed, writes>>
  BY RequestedFacts DEF RefereshIndex
<1>3. calm' \subseteq Dbs /\ SchemaOK(catalog)'
  BY DEF RefereshIndex, StoresInv, StoresTypeOK, SchemaOK
<1>4. paths \subseteq Paths /\ \A p \in paths : p[3] = "index"
  <2>1. DOMAIN cache.tables \subseteq Tables
    BY MapFacts DEF StoresInv, StoresTypeOK, SchemaOK
  <2>2. QED
    BY <2>1 DEF Tables, Paths
<1> HIDE DEF paths
<1>5. DdlTypeOK'
  BY <1>1, <1>4, EmptyMap DEF DdlTypeOK, NoDdl
<1>6. OpFits'
  BY <1>1 DEF OpFits, NoDdl
<1>7. KeysFit'
  BY <1>1 DEF KeysFit, NoDdl, MovesKeys
<1>8. RowsFit'
  BY <1>1, <1>4 DEF RowsFit, NoDdl
<1>9. QED
  BY <1>2, <1>3, <1>5, <1>6, <1>7, <1>8, DdlStep

-----------------------------------------------------------------------------
(* RenameTable and RenameDatabase.                                         *)

\* Whose step a place is.
LEMMA PcOps ==
  ASSUME DdlTypeOK, OpFits
  PROVE  /\ ddl.pc \in {"rowKeys", "indexKeys", "folder"} => ddl.op = "rename"
         /\ ddl.pc \in {"dropKeys", "dropFolder"} => ddl.op = "delete"
         /\ ddl.pc = "rows" => ddl.op = "alter"
         /\ ddl.pc \in {"unindex", "reindex"} => ddl.op \in {"alter", "refresh"}
<1>1. ddl.op \in {"none", "create", "rename", "delete", "alter", "refresh"}
  BY DEF DdlTypeOK
<1>2. QED
  BY <1>1 DEF OpFits

\* What the invariant says of the request.
LEMMA InvParts ==
  ASSUME StoresInv
  PROVE  /\ StoresTypeOK /\ DdlTypeOK /\ OpFits /\ KeysFit /\ RowsFit /\ StoresOnDisk
         /\ SchemaOK(catalog) /\ SchemaOK(cache)
         /\ requests \in Nat /\ calm \subseteq Dbs
         /\ DOMAIN catalog.tables \subseteq Tables
         /\ ddl.hand # NoHand => ddl.keys # {}
<1>1. StoresTypeOK /\ OpFits /\ KeysFit /\ RowsFit /\ StoresOnDisk
  BY DEF StoresInv
<1>2. DdlTypeOK /\ SchemaOK(catalog) /\ SchemaOK(cache) /\ requests \in Nat /\ calm \subseteq Dbs
  BY <1>1 DEF StoresTypeOK
<1>3. DOMAIN catalog.tables \subseteq Tables
  BY <1>2, MapFacts DEF SchemaOK
<1>4. ddl.hand # NoHand => ddl.keys # {}
  BY <1>1 DEF KeysFit
<1>5. QED
  BY <1>1, <1>2, <1>3, <1>4

\* A key's parts, and the keys of all stores.
LEMMA StoredKeyFacts ==
  ASSUME NEW p \in Paths
  PROVE  /\ StoredKeys(p) \subseteq Dbs \X Tabs \X (DOMAIN home \cup Cols)
         /\ DOMAIN home \subseteq Pks => StoredKeys(p) \subseteq Dbs \X Tabs \X (Pks \cup Cols)
         /\ StoredVals(p) \subseteq [set : SUBSET (Pks \cup Cols), enc : Nat]
BY DEF StoredKeys, StoredVals

\* ScanKeys keeps the invariant.
LEMMA ScanKeysInv ==
  ASSUME StoresInv, ScanKeys
  PROVE  StoresInv'
<1>1. PICK p \in ddl.paths :
        ddl' = [ddl EXCEPT !.paths = ddl.paths \ {p}, !.path = p,
                  !.keys = {k \in KeysIn(p) :
                    p[3] = "data" \/ k[3] \in catalog.tables[<<p[1], p[2]>>]}]
  BY DEF ScanKeys, Step
<1> DEFINE found == {k \in KeysIn(p) : p[3] = "data" \/ k[3] \in catalog.tables[<<p[1], p[2]>>]}
<1>2. ddl' = [ddl EXCEPT !.paths = ddl.paths \ {p}, !.path = p, !.keys = found]
  BY <1>1
<1>3. /\ ddl.pc \in {"rowKeys", "indexKeys"} /\ ddl.keys = {}
      /\ UNCHANGED <<catalog, cache, storage, buffers, home, calm, expected, indexed, writes, requests>>
  BY DEF ScanKeys, Step
<1>4. p \in Paths /\ Moved(p)
  BY <1>3, InvParts DEF KeysFit, MovesKeys, DdlTypeOK
<1>5. \A k \in found : /\ k \in DOMAIN store[p] /\ k[1] = p[1] /\ k[2] = p[2]
                       /\ handle[p] = "open" /\ k \in StoredKeys(p)
  <2>1. DOMAIN store[p] \subseteq StoredKeys(p)
    BY <1>4, InvParts, MapFacts DEF StoresTypeOK
  <2>2. QED
    BY <2>1 DEF KeysIn
<1> HIDE DEF found
<1>6. ddl.hand = NoHand
  BY <1>3, InvParts
<1>7. DdlTypeOK'
  <2>1. found \subseteq Dbs \X Tabs \X (DOMAIN home \cup Cols)
    BY <1>4, <1>5, StoredKeyFacts
  <2>2. DdlTypeOK
    BY InvParts
  <2>3. ddl'.rows = ddl.rows /\ ddl'.alter = ddl.alter
    BY <2>2, <1>2 DEF DdlTypeOK
  <2>4. QED
    BY <2>1, <2>2, <2>3, <1>2, <1>3, <1>4 DEF DdlTypeOK
<1>8. /\ ddl'.pc = ddl.pc /\ ddl'.op = ddl.op /\ ddl'.from = ddl.from /\ ddl'.to = ddl.to
      /\ ddl'.rows = ddl.rows /\ ddl'.alter = ddl.alter /\ ddl'.hand = ddl.hand
      /\ ddl'.path = p /\ ddl'.keys = found /\ ddl'.paths = ddl.paths \ {p}
  BY <1>2, InvParts DEF DdlTypeOK
<1>9. OpFits'
  <2>1. OpFits /\ ddl.op = "rename"
    BY <1>3, InvParts, PcOps
  <2>2. QED
    BY <2>1, <1>3, <1>8 DEF OpFits
<1>10. KeysFit'
  <2>1. KeysFit
    BY InvParts
  <2>2. \A q : Moved(q)' <=> Moved(q)
    BY <1>8 DEF Moved
  <2>3. UNCHANGED <<store, handle>> /\ StoredKeys(p)' = StoredKeys(p)
    BY <1>3 DEF storage, StoredKeys
  <2>4. QED
    BY <2>1, <2>2, <2>3, <1>3, <1>4, <1>5, <1>6, <1>8 DEF KeysFit, MovesKeys
<1>11. RowsFit'
  <2>1. RowsFit
    BY InvParts
  <2>2. ddl.rows = Empty
    BY <2>1, <1>3 DEF RowsFit
  <2>3. QED
    BY <2>2, <1>3, <1>8 DEF RowsFit
<1>12. SchemaOK(catalog)' /\ calm' \subseteq Dbs /\ requests' \in Nat
  BY <1>3, InvParts DEF SchemaOK
<1>13. QED
  BY <1>3, <1>7, <1>9, <1>10, <1>11, <1>12, DdlStep

\* GetKey keeps the invariant.
LEMMA GetKeyInv ==
  ASSUME StoresInv, GetKey
  PROVE  StoresInv'
<1>1. PICK k \in ddl.keys :
        ddl' = [ddl EXCEPT !.hand = [key |-> k, val |-> store[ddl.path][k], dropped |-> FALSE]]
  BY DEF GetKey, Step
<1> DEFINE hand == [key |-> k, val |-> store[ddl.path][k], dropped |-> FALSE]
<1>2. /\ ddl.keys # {} /\ ddl.hand = NoHand
      /\ UNCHANGED <<catalog, cache, storage, buffers, home, calm, expected, indexed, writes, requests>>
  BY DEF GetKey, Step
<1>3. /\ ddl.path \in Paths /\ handle[ddl.path] = "open"
      /\ k \in StoredKeys(ddl.path) /\ k \in DOMAIN store[ddl.path]
  BY <1>2, InvParts DEF KeysFit, InHand
<1>4. store[ddl.path][k] \in StoredVals(ddl.path)
  BY <1>3, InvParts, MapFacts DEF StoresTypeOK
<1>5. hand \in Hands /\ hand # NoHand
  <2>1. DOMAIN home \subseteq Pks
    BY InvParts, MapFacts DEF StoresTypeOK
  <2>2. k \in Dbs \X Tabs \X (Pks \cup Cols)
    BY <2>1, <1>3, StoredKeyFacts
  <2>3. store[ddl.path][k] \in [set : SUBSET (Pks \cup Cols), enc : Nat]
    BY <1>3, <1>4, StoredKeyFacts
  <2>4. hand \in Hands
    BY <2>2, <2>3 DEF Hands
  <2>5. QED
    BY <2>4, TableStoresConstants
<1>6. hand.key = k /\ hand.val = store[ddl.path][k] /\ hand.dropped = FALSE
  OBVIOUS
<1>7. ddl' = [ddl EXCEPT !.hand = hand]
  BY <1>1
<1> HIDE DEF hand
<1>8. /\ ddl'.pc = ddl.pc /\ ddl'.op = ddl.op /\ ddl'.from = ddl.from /\ ddl'.to = ddl.to
      /\ ddl'.rows = ddl.rows /\ ddl'.alter = ddl.alter /\ ddl'.hand = hand
      /\ ddl'.path = ddl.path /\ ddl'.keys = ddl.keys /\ ddl'.paths = ddl.paths
  BY <1>7, InvParts DEF DdlTypeOK
<1>9. DdlTypeOK'
  <2>1. DdlTypeOK
    BY InvParts
  <2>2. QED
    BY <2>1, <1>2, <1>5, <1>7, <1>8 DEF DdlTypeOK
<1>10. OpFits'
  <2>1. MovesKeys
    BY <1>2, InvParts DEF KeysFit
  <2>2. OpFits /\ ddl.op = "rename"
    BY <2>1, InvParts, PcOps DEF MovesKeys
  <2>3. QED
    BY <2>1, <2>2, <1>8 DEF OpFits, MovesKeys
<1>11. KeysFit'
  <2>1. KeysFit
    BY InvParts
  <2>2. \A q : Moved(q)' <=> Moved(q)
    BY <1>8 DEF Moved
  <2>3. /\ UNCHANGED <<store, handle>>
        /\ StoredKeys(ddl.path)' = StoredKeys(ddl.path)
        /\ StoredVals(ddl.path)' = StoredVals(ddl.path)
    BY <1>2, <1>8 DEF storage, StoredKeys, StoredVals
  <2>4. \A j \in ddl.keys : /\ j \in StoredKeys(ddl.path) /\ j[1] = ddl.path[1] /\ j[2] = ddl.path[2]
                            /\ j \in DOMAIN store[ddl.path]
    BY <2>1, <1>2 DEF KeysFit, InHand
  <2>5. MovesKeys /\ MovesKeys'
    BY <2>1, <1>2, <1>8 DEF KeysFit, MovesKeys
  <2>6. ~MovesKeys' => ddl'.keys = {}
    BY <2>5
  <2>7. MovesKeys' => \A p \in ddl'.paths : Moved(p)'
    BY <2>1, <2>2, <2>5, <1>8 DEF KeysFit
  <2>8. /\ ddl'.path \in Paths /\ Moved(ddl.path)' /\ handle'[ddl'.path] = "open"
        /\ \A j \in ddl'.keys :
             /\ j \in StoredKeys(ddl.path)' /\ j[1] = ddl'.path[1] /\ j[2] = ddl'.path[2]
             /\ j \in DOMAIN store'[ddl'.path]
    BY <2>1, <2>2, <2>3, <2>4, <1>2, <1>8 DEF KeysFit
  <2>9. ddl'.hand.key \in ddl'.keys /\ ddl'.hand.val \in StoredVals(ddl.path)'
    BY <2>3, <1>4, <1>6, <1>8
  <2>10. QED
    BY <2>6, <2>7, <2>8, <2>9 DEF KeysFit
<1>12. RowsFit'
  <2>1. RowsFit /\ UNCHANGED handle
    BY <1>2, InvParts DEF storage
  <2>2. QED
    BY <2>1, <1>8 DEF RowsFit
<1>13. SchemaOK(catalog)' /\ calm' \subseteq Dbs /\ requests' \in Nat
  BY <1>2, InvParts DEF SchemaOK
<1>14. QED
  BY <1>2, <1>9, <1>10, <1>11, <1>12, <1>13, DdlStep

\* A step of a request that writes to one open store.
LEMMA WriteStep ==
  ASSUME StoresInv, NEW p \in Paths, handle[p] = "open",
         UNCHANGED <<catalog, cache, dirs, present, handle, buffers, home, calm, expected,
                     indexed, writes, requests>>,
         NEW held, store' = [store EXCEPT ![p] = held],
         IsMap(held, StoredKeys(p), StoredVals(p)),
         DdlTypeOK', OpFits', KeysFit', RowsFit'
  PROVE  StoresInv'
<1>1. store' = [q \in Paths |-> IF q = p THEN held ELSE store[q]]
  BY OneStore, InvParts
<1>2. \A q \in Paths : IsMap(store'[q], StoredKeys(q)', StoredVals(q)')
  <2>1. \A q \in Paths : IsMap(store[q], StoredKeys(q), StoredVals(q))
    BY InvParts DEF StoresTypeOK
  <2>2. \A q \in Paths : StoredKeys(q)' = StoredKeys(q) /\ StoredVals(q)' = StoredVals(q)
    BY DEF StoredKeys, StoredVals
  <2>3. QED
    BY <2>1, <2>2, <1>1
<1>3. store' \in [Paths -> {store'[q] : q \in Paths}]
  BY <1>1
<1>4. SchemaOK(catalog)' /\ SchemaOK(cache)'
  BY InvParts DEF SchemaOK
<1>5. UNCHANGED <<ram, ibuf>>
  BY DEF buffers
<1>6. StoresTypeOK'
  <2>1. /\ dirs \subseteq Folders /\ present \subseteq Paths
        /\ handle \in [Paths -> {"none", "open", "closed"}]
        /\ IsMap(ram, Dbs \X Tabs \X DOMAIN home, SUBSET Cols)
        /\ IsMap(ibuf, Dbs \X Tabs \X Cols, SUBSET Pks)
        /\ IsMap(home, Pks, Tables) /\ expected \subseteq DOMAIN home
        /\ indexed \subseteq DOMAIN home /\ calm \subseteq Dbs
        /\ writes \in Nat /\ requests \in Nat
    BY InvParts DEF StoresTypeOK
  <2>2. QED
    BY <2>1, <1>2, <1>3, <1>4, <1>5 DEF StoresTypeOK
<1>7. StoresOnDisk'
  BY <1>1, InvParts DEF StoresOnDisk
<1>8. QED
  BY <1>6, <1>7 DEF StoresInv

\* A request with a key in its hand.
LEMMA HandFacts ==
  ASSUME StoresInv, ddl.hand # NoHand
  PROVE  /\ ddl.path \in Paths /\ Moved(ddl.path) /\ handle[ddl.path] = "open"
         /\ MovesKeys /\ ddl.op = "rename"
         /\ ddl.hand.key \in ddl.keys /\ ddl.hand.key \in StoredKeys(ddl.path)
         /\ ddl.hand.val \in StoredVals(ddl.path)
         /\ ddl.hand \in Hands
         /\ IsMap(store[ddl.path], StoredKeys(ddl.path), StoredVals(ddl.path))
<1>1. KeysFit /\ DdlTypeOK /\ OpFits
  BY InvParts
<1>2. ddl.hand.key \in ddl.keys /\ ddl.hand.val \in StoredVals(ddl.path)
  BY <1>1 DEF KeysFit
<1>3. /\ ddl.path \in Paths /\ Moved(ddl.path) /\ handle[ddl.path] = "open" /\ MovesKeys
      /\ ddl.hand.key \in StoredKeys(ddl.path)
  BY <1>1, <1>2 DEF KeysFit
<1>4. ddl.op = "rename"
  BY <1>1, <1>3, PcOps DEF MovesKeys
<1>5. ddl.hand \in Hands
  BY <1>1 DEF DdlTypeOK
<1>6. IsMap(store[ddl.path], StoredKeys(ddl.path), StoredVals(ddl.path))
  BY <1>3, InvParts DEF StoresTypeOK
<1>7. QED
  BY <1>2, <1>3, <1>4, <1>5, <1>6

\* DeleteKey keeps the invariant.
LEMMA DeleteKeyInv ==
  ASSUME StoresInv, DeleteKey
  PROVE  StoresInv'
<1> DEFINE p == ddl.path
           k == ddl.hand.key
           held == Drop(store[p], k)
           hand == [ddl.hand EXCEPT !.dropped = TRUE]
<1>1. /\ ddl.hand # NoHand /\ ~ddl.hand.dropped
      /\ store' = [store EXCEPT ![p] = held]
      /\ ddl' = [ddl EXCEPT !.hand = hand]
      /\ UNCHANGED <<catalog, cache, dirs, present, handle, buffers, home, calm, expected,
                     indexed, writes, requests>>
  BY InvParts DEF DeleteKey, Step, DdlTypeOK
<1>2. /\ p \in Paths /\ handle[p] = "open" /\ k \in ddl.keys /\ MovesKeys /\ ddl.op = "rename"
      /\ ddl.hand \in Hands /\ IsMap(store[p], StoredKeys(p), StoredVals(p))
      /\ ddl.hand.val \in StoredVals(p)
  BY <1>1, HandFacts
<1>3. /\ hand \in Hands /\ hand # NoHand
      /\ hand.key = k /\ hand.val = ddl.hand.val /\ hand.dropped = TRUE
  <2>1. hand \in Hands /\ hand.key = k /\ hand.val = ddl.hand.val /\ hand.dropped = TRUE
    BY <1>2 DEF Hands
  <2>2. QED
    BY <2>1, TableStoresConstants
<1>4. IsMap(held, StoredKeys(p), StoredVals(p)) /\ DOMAIN held = DOMAIN store[p] \ {k}
  BY <1>2, DropMap, DropFacts
<1> HIDE DEF held, hand
<1>5. /\ ddl'.pc = ddl.pc /\ ddl'.op = ddl.op /\ ddl'.from = ddl.from /\ ddl'.to = ddl.to
      /\ ddl'.rows = ddl.rows /\ ddl'.alter = ddl.alter /\ ddl'.hand = hand
      /\ ddl'.path = ddl.path /\ ddl'.keys = ddl.keys /\ ddl'.paths = ddl.paths
  BY <1>1, InvParts DEF DdlTypeOK
<1>6. DdlTypeOK'
  <2>1. DdlTypeOK
    BY InvParts
  <2>2. QED
    BY <2>1, <1>1, <1>3, <1>5 DEF DdlTypeOK
<1>7. OpFits'
  BY <1>1, <1>2, <1>5, InvParts DEF OpFits, MovesKeys
<1>8. KeysFit'
  <2>1. KeysFit
    BY InvParts
  <2>2. \A q : Moved(q)' <=> Moved(q)
    BY <1>5 DEF Moved
  <2>3. /\ StoredKeys(ddl.path)' = StoredKeys(ddl.path)
        /\ StoredVals(ddl.path)' = StoredVals(ddl.path)
    BY <1>1, <1>5 DEF StoredKeys, StoredVals
  <2>4. store'[p] = held
    BY <1>1, <1>2, InvParts DEF StoresTypeOK
  <2>5. \A j \in ddl.keys : j # k => j \in DOMAIN store[p]
    BY <2>1, <1>2 DEF KeysFit, InHand
  <2>6. \A j \in ddl.keys : ~(InHand(j)' /\ hand.dropped) => j \in DOMAIN held
    BY <2>5, <1>3, <1>4, <1>5 DEF InHand
  <2>7. MovesKeys /\ MovesKeys'
    BY <1>2, <1>5 DEF MovesKeys
  <2>8. MovesKeys' => \A q \in ddl'.paths : Moved(q)'
    BY <2>1, <2>2, <2>7, <1>5 DEF KeysFit
  <2>9. /\ ddl'.path \in Paths /\ Moved(ddl.path)' /\ handle'[ddl'.path] = "open"
        /\ \A j \in ddl'.keys :
             /\ j \in StoredKeys(ddl.path)' /\ j[1] = ddl'.path[1] /\ j[2] = ddl'.path[2]
             /\ ~(InHand(j)' /\ ddl'.hand.dropped) => j \in DOMAIN store'[ddl'.path]
    BY <2>1, <2>2, <2>3, <2>4, <2>6, <1>1, <1>2, <1>5 DEF KeysFit
  <2>10. ddl'.hand.key \in ddl'.keys /\ ddl'.hand.val \in StoredVals(ddl.path)'
    BY <2>3, <1>2, <1>3, <1>5
  <2>11. QED
    BY <2>7, <2>8, <2>9, <2>10 DEF KeysFit
<1>9. RowsFit'
  BY <1>1, <1>5, InvParts DEF RowsFit
<1>10. QED
  BY <1>1, <1>2, <1>4, <1>6, <1>7, <1>8, <1>9, WriteStep

\* A key goes to a folder of the same kind, and keeps its last part.
LEMMA RenamedStored ==
  ASSUME NEW p \in Paths, NEW k \in StoredKeys(p), ddl.to \in Folders
  PROVE  Renamed(k) \in StoredKeys(p) /\ Renamed(k)[3] = k[3]
<1> DEFINE K == IF p[3] = "data" THEN DOMAIN home ELSE Cols
<1>1. k \in Dbs \X Tabs \X K
  BY DEF StoredKeys
<1>2. StoredKeys(p) = Dbs \X Tabs \X K
  BY DEF StoredKeys
<1> HIDE DEF K
<1>3. Renamed(k) = <<ddl.to[1], IF Len(ddl.to) = 1 THEN k[2] ELSE ddl.to[2], k[3]>>
  BY <1>1, RenamedKey
<1>4. ddl.to[1] \in Dbs /\ (Len(ddl.to) = 1 \/ ddl.to[2] \in Tabs)
  BY PartsOfPair DEF Folders, Tables
<1>5. QED
  BY <1>1, <1>2, <1>3, <1>4

\* SetKey keeps the invariant.
LEMMA SetKeyInv ==
  ASSUME StoresInv, SetKey
  PROVE  StoresInv'
<1> DEFINE p == ddl.path
           k == ddl.hand.key
           val == [ddl.hand.val EXCEPT !.enc = ddl.hand.val.enc + 1]
           held == Put(store[p], Renamed(k), val)
<1>1. /\ ddl.hand # NoHand
      /\ store' = [store EXCEPT ![p] = held]
      /\ ddl' = [ddl EXCEPT !.hand = NoHand, !.keys = ddl.keys \ {k}]
      /\ UNCHANGED <<catalog, cache, dirs, present, handle, buffers, home, calm, expected,
                     indexed, writes, requests>>
  BY DEF SetKey, Step
<1>2. /\ p \in Paths /\ handle[p] = "open" /\ k \in ddl.keys /\ MovesKeys /\ ddl.op = "rename"
      /\ k \in StoredKeys(p) /\ ddl.hand.val \in StoredVals(p)
      /\ IsMap(store[p], StoredKeys(p), StoredVals(p))
  BY <1>1, HandFacts
<1>3. val \in StoredVals(p)
  BY <1>2 DEF StoredVals
<1>4. Renamed(k) \in StoredKeys(p)
  <2>1. ddl.to \in Folders
    BY <1>2, InvParts DEF OpFits
  <2>2. QED
    BY <2>1, <1>2, RenamedStored
<1> HIDE DEF val
<1>5. IsMap(held, StoredKeys(p), StoredVals(p)) /\ DOMAIN held = DOMAIN store[p] \cup {Renamed(k)}
  <2> DEFINE j == Renamed(k)
             f == store[p]
             K == StoredKeys(p)
             X == StoredVals(p)
  <2>1. IsMap(f, K, X) /\ j \in K /\ val \in X
    BY <1>2, <1>3, <1>4
  <2> HIDE DEF j, f, K, X
  <2>2. IsMap(Put(f, j, val), K, X) /\ DOMAIN Put(f, j, val) = DOMAIN f \cup {j}
    BY <2>1, PutMap, PutFacts
  <2>3. QED
    BY <2>2 DEF j, f, K, X
<1> HIDE DEF held
<1>6. /\ ddl'.pc = ddl.pc /\ ddl'.op = ddl.op /\ ddl'.from = ddl.from /\ ddl'.to = ddl.to
      /\ ddl'.rows = ddl.rows /\ ddl'.alter = ddl.alter /\ ddl'.hand = NoHand
      /\ ddl'.path = ddl.path /\ ddl'.keys = ddl.keys \ {k} /\ ddl'.paths = ddl.paths
  BY <1>1, InvParts DEF DdlTypeOK
<1>7. DdlTypeOK'
  <2>1. DdlTypeOK
    BY InvParts
  <2>2. ddl.keys \ {k} \in SUBSET (Dbs \X Tabs \X (DOMAIN home \cup Cols))
    BY <2>1 DEF DdlTypeOK
  <2>3. QED
    BY <2>1, <2>2, <1>1, <1>6 DEF DdlTypeOK
<1>8. OpFits'
  BY <1>1, <1>2, <1>6, InvParts DEF OpFits, MovesKeys
<1>9. KeysFit'
  <2>1. KeysFit
    BY InvParts
  <2>2. \A q : Moved(q)' <=> Moved(q)
    BY <1>6 DEF Moved
  <2>3. StoredKeys(ddl.path)' = StoredKeys(ddl.path)
    BY <1>1, <1>6 DEF StoredKeys
  <2>4. store'[p] = held
    BY <1>1, <1>2, InvParts DEF StoresTypeOK
  <2>5. \A j \in ddl.keys \ {k} : j \in DOMAIN held
    BY <2>1, <1>2, <1>5 DEF KeysFit, InHand
  <2>6. MovesKeys /\ MovesKeys'
    BY <1>2, <1>6 DEF MovesKeys
  <2>7. MovesKeys' => \A q \in ddl'.paths : Moved(q)'
    BY <2>1, <2>2, <2>6, <1>6 DEF KeysFit
  <2>8. /\ ddl'.path \in Paths /\ Moved(ddl.path)' /\ handle'[ddl'.path] = "open"
        /\ \A j \in ddl'.keys :
             /\ j \in StoredKeys(ddl.path)' /\ j[1] = ddl'.path[1] /\ j[2] = ddl'.path[2]
             /\ j \in DOMAIN store'[ddl'.path]
    BY <2>1, <2>2, <2>3, <2>4, <2>5, <1>1, <1>2, <1>6 DEF KeysFit
  <2>9. QED
    BY <2>6, <2>7, <2>8, <1>6 DEF KeysFit
<1>10. RowsFit'
  BY <1>1, <1>6, InvParts DEF RowsFit
<1>11. QED
  BY <1>1, <1>2, <1>5, <1>7, <1>8, <1>9, <1>10, WriteStep

\* A request that is done, or gives up.
LEMMA DdlEnds ==
  ASSUME StoresInv, ddl' = NoDdl,
         UNCHANGED <<catalog, cache, storage, buffers, home, calm, expected, indexed, writes, requests>>
  PROVE  StoresInv'
<1>1. SchemaOK(catalog)' /\ calm' \subseteq Dbs /\ requests' \in Nat
  BY InvParts DEF SchemaOK
<1>2. QED
  BY <1>1, NoDdlFits, DdlStep

\* AlterIndexKeys keeps the invariant.
LEMMA AlterIndexKeysInv ==
  ASSUME StoresInv, AlterIndexKeys
  PROVE  StoresInv'
<1> DEFINE paths == RenamedStores(ddl.from, "index")
<1>1. /\ ddl.pc = "rowKeys" /\ ddl.paths = {} /\ ddl.keys = {}
      /\ UNCHANGED <<catalog, cache, storage, buffers, home, calm, expected, indexed, writes, requests>>
      /\ ddl' = NoDdl \/ ddl' = [ddl EXCEPT !.pc = "indexKeys", !.paths = paths]
  BY DEF AlterIndexKeys, Scanned, Step
<1>2. CASE ddl' = NoDdl
  BY <1>1, <1>2, DdlEnds
<1>3. CASE ddl' = [ddl EXCEPT !.pc = "indexKeys", !.paths = paths]
  <2>1. paths \subseteq Paths /\ \A p \in paths : Under(p, ddl.from) /\ p[3] = "index"
    BY RenamedStoresFacts
  <2> HIDE DEF paths
  <2>2. /\ ddl'.pc = "indexKeys" /\ ddl'.op = ddl.op /\ ddl'.from = ddl.from /\ ddl'.to = ddl.to
        /\ ddl'.rows = ddl.rows /\ ddl'.alter = ddl.alter /\ ddl'.hand = ddl.hand
        /\ ddl'.path = ddl.path /\ ddl'.keys = ddl.keys /\ ddl'.paths = paths
    BY <1>3, InvParts DEF DdlTypeOK
  <2>3. DdlTypeOK'
    <3>1. DdlTypeOK
      BY InvParts
    <3>2. QED
      BY <3>1, <2>1, <2>2, <1>1, <1>3 DEF DdlTypeOK
  <2>4. OpFits'
    <3>1. OpFits /\ ddl.op = "rename"
      BY <1>1, InvParts, PcOps
    <3>2. QED
      BY <3>1, <2>2 DEF OpFits
  <2>5. KeysFit'
    <3>1. ddl.hand = NoHand
      BY <1>1, InvParts
    <3>2. QED
      BY <3>1, <2>1, <2>2, <1>1 DEF KeysFit, MovesKeys, Moved
  <2>6. RowsFit'
    <3>1. ddl.rows = Empty
      BY <1>1, InvParts DEF RowsFit
    <3>2. QED
      BY <3>1, <2>2 DEF RowsFit
  <2>7. SchemaOK(catalog)' /\ calm' \subseteq Dbs /\ requests' \in Nat
    BY <1>1, InvParts DEF SchemaOK
  <2>8. QED
    BY <1>1, <2>3, <2>4, <2>5, <2>6, <2>7, DdlStep
<1>4. QED
  BY <1>1, <1>2, <1>3

\* A request between its loops: it goes to another place and holds nothing.
LEMMA PlaceStep ==
  ASSUME StoresInv, NEW pc, NEW path,
         ddl' = [ddl EXCEPT !.pc = pc, !.path = path],
         ddl.keys = {}, ddl.rows = Empty,
         pc \in {"reload", "folder", "dropKeys", "dropFolder"},
         path \in Paths \cup Folders \cup {<<>>}, UNCHANGED home
  PROVE  /\ DdlTypeOK' /\ KeysFit' /\ RowsFit'
         /\ ddl'.op = ddl.op /\ ddl'.from = ddl.from /\ ddl'.to = ddl.to /\ ddl'.alter = ddl.alter
         /\ ddl'.pc = pc /\ ddl'.path = path
<1>1. /\ ddl'.pc = pc /\ ddl'.op = ddl.op /\ ddl'.from = ddl.from /\ ddl'.to = ddl.to
      /\ ddl'.rows = ddl.rows /\ ddl'.alter = ddl.alter /\ ddl'.hand = ddl.hand
      /\ ddl'.path = path /\ ddl'.keys = ddl.keys /\ ddl'.paths = ddl.paths
  BY InvParts DEF DdlTypeOK
<1>2. DdlTypeOK'
  <2>1. DdlTypeOK
    BY InvParts
  <2>2. QED
    BY <2>1, <1>1 DEF DdlTypeOK
<1>3. KeysFit'
  BY <1>1, InvParts DEF KeysFit, MovesKeys
<1>4. RowsFit'
  BY <1>1 DEF RowsFit
<1>5. QED
  BY <1>1, <1>2, <1>3, <1>4

\* The new name of a table of the renamed folder is a table's.
LEMMA RenamedTables ==
  ASSUME NEW t \in Tables, ddl.to \in Folders
  PROVE  Renamed(t) \in Tables
<1>1. Renamed(t) = <<ddl.to[1], IF Len(ddl.to) = 1 THEN t[2] ELSE ddl.to[2]>>
  BY RenamedTable
<1>2. ddl.to[1] \in Dbs /\ (Len(ddl.to) = 1 \/ ddl.to[2] \in Tabs)
  BY PartsOfPair DEF Folders, Tables
<1>3. QED
  BY <1>1, <1>2 DEF Tables

\* RenameSchemaKeys keeps the invariant.
LEMMA RenameSchemaKeysInv ==
  ASSUME StoresInv, RenameSchemaKeys
  PROVE  StoresInv'
<1> DEFINE moved == {t \in DOMAIN catalog.tables : Under(t, ddl.from)}
           rest == Restrict(catalog.tables, DOMAIN catalog.tables \ moved)
           new == {Renamed(t) : t \in moved}
           old(u) == CHOOSE t \in moved : Renamed(t) = u
           tables == [t \in DOMAIN rest \cup new |->
                        IF t \in new THEN catalog.tables[old(t)] ELSE rest[t]]
<1>1. /\ ddl.pc = "indexKeys" /\ ddl.paths = {} /\ ddl.keys = {}
      /\ ddl' = [ddl EXCEPT !.pc = "folder"]
      /\ UNCHANGED <<cache, storage, buffers, home, calm, expected, indexed, writes, requests>>
  BY DEF RenameSchemaKeys, Scanned, Step
<1>2. catalog' = [dbs |-> IF Len(ddl.from) = 1
                            THEN (catalog.dbs \cup {ddl.to[1]}) \ {ddl.from[1]}
                            ELSE catalog.dbs,
                  tables |-> tables]
  BY DEF RenameSchemaKeys
<1>3. /\ ddl.op = "rename" /\ ddl.from \in Folders /\ ddl.to \in Folders
      /\ Len(ddl.from) = Len(ddl.to) /\ OpFits
  BY <1>1, InvParts, PcOps DEF OpFits
<1>4. IsMap(catalog.tables, Tables, SUBSET Cols) /\ catalog.dbs \subseteq Dbs
  BY InvParts DEF SchemaOK
<1>5. IsMap(tables, Tables, SUBSET Cols)
  <2>1. DOMAIN rest = DOMAIN catalog.tables \ moved /\ \A t \in DOMAIN rest : rest[t] = catalog.tables[t]
    BY DEF Restrict
  <2>2. new \subseteq Tables
    BY <1>3, <1>4, RenamedTables, MapFacts
  <2>3. \A u \in new : old(u) \in moved
    OBVIOUS
  <2> HIDE DEF rest, old, new
  <2>4. \A t \in DOMAIN rest \cup new :
          (IF t \in new THEN catalog.tables[old(t)] ELSE rest[t]) \in SUBSET Cols
    BY <2>1, <2>3, <1>4, MapFacts
  <2>5. DOMAIN rest \cup new \subseteq Tables
    BY <2>1, <2>2, <1>4, MapFacts
  <2>6. QED
    BY <2>4, <2>5 DEF IsMap
<1> HIDE DEF tables
<1>6. SchemaOK(catalog)'
  <2>1. ddl.to[1] \in Dbs
    BY <1>3 DEF Folders, Tables
  <2>2. QED
    BY <2>1, <1>2, <1>4, <1>5 DEF SchemaOK
<1>7. ddl' = [ddl EXCEPT !.pc = "folder", !.path = ddl.path]
  BY <1>1, InvParts DEF DdlTypeOK
<1>8. ddl.path \in Paths \cup Folders \cup {<<>>} /\ ddl.rows = Empty
  BY <1>1, InvParts DEF DdlTypeOK, RowsFit
<1>9. /\ DdlTypeOK' /\ KeysFit' /\ RowsFit'
      /\ ddl'.op = ddl.op /\ ddl'.from = ddl.from /\ ddl'.to = ddl.to /\ ddl'.pc = "folder"
  <2> DEFINE pc == "folder"
  <2>1. ddl' = [ddl EXCEPT !.pc = pc, !.path = ddl.path]
        /\ pc \in {"reload", "folder", "dropKeys", "dropFolder"}
    BY <1>7
  <2> HIDE DEF pc
  <2>2. DdlTypeOK' /\ KeysFit' /\ RowsFit' /\ ddl'.op = ddl.op /\ ddl'.from = ddl.from
        /\ ddl'.to = ddl.to /\ ddl'.pc = pc
    BY <2>1, <1>1, <1>8, PlaceStep
  <2>3. QED
    BY <2>2 DEF pc
<1>10. OpFits'
  BY <1>3, <1>9 DEF OpFits
<1>11. calm' \subseteq Dbs /\ requests' \in Nat
  BY <1>1, InvParts
<1>12. QED
  BY <1>1, <1>6, <1>9, <1>10, <1>11, DdlStep

\* DropSchemaKey keeps the invariant.
LEMMA DropSchemaKeyInv ==
  ASSUME StoresInv, DropSchemaKey
  PROVE  StoresInv'
<1> DEFINE tables == {t \in DOMAIN catalog.tables : Under(t, ddl.from)}
<1>1. /\ ddl.pc = "dropKeys"
      /\ UNCHANGED <<cache, storage, buffers, home, calm, expected, indexed, writes, requests>>
  BY DEF DropSchemaKey, Step
<1>2. /\ ddl.op = "delete" /\ ddl.from \in Folders /\ ddl.keys = {} /\ ddl.rows = Empty
      /\ OpFits
  BY <1>1, InvParts, PcOps DEF OpFits, KeysFit, MovesKeys, RowsFit
<1>3. IsMap(catalog.tables, Tables, SUBSET Cols) /\ catalog.dbs \subseteq Dbs /\ SchemaOK(catalog)
  BY InvParts DEF SchemaOK
<1>4. PICK path \in Folders :
        /\ ddl' = [ddl EXCEPT !.pc = "dropFolder", !.path = path]
        /\ Under(path, ddl.from)
        /\ SchemaOK(catalog)'
  <2>1. CASE tables = {}
    <3>1. /\ catalog' = [catalog EXCEPT !.dbs = catalog.dbs \ (IF Len(ddl.from) = 1
                                                                 THEN {ddl.from[1]} ELSE {})]
          /\ ddl' = [ddl EXCEPT !.pc = "dropFolder", !.path = ddl.from]
      BY <2>1 DEF DropSchemaKey, Step
    <3>2. SchemaOK(catalog)'
      BY <3>1, <1>3 DEF SchemaOK
    <3>3. Under(ddl.from, ddl.from)
      BY <1>2, UnderDb, UnderTable DEF Folders
    <3>4. QED
      BY <3>1, <3>2, <3>3, <1>2
  <2>2. CASE tables # {}
    <3>1. PICK t \in tables :
            /\ catalog' = [catalog EXCEPT !.tables = Drop(catalog.tables, t)]
            /\ ddl' = [ddl EXCEPT !.pc = "dropFolder", !.path = t]
      BY <2>2 DEF DropSchemaKey, Step
    <3>2. IsMap(Drop(catalog.tables, t), Tables, SUBSET Cols)
      BY <1>3, DropMap
    <3>3. SchemaOK(catalog)'
      BY <3>1, <3>2, <1>3 DEF SchemaOK
    <3>4. t \in Folders
      BY <1>3, MapFacts DEF Folders
    <3>5. QED
      BY <3>1, <3>3, <3>4
  <2>3. QED
    BY <2>1, <2>2
<1>5. /\ ddl'.pc = "dropFolder" /\ ddl'.op = ddl.op /\ ddl'.from = ddl.from /\ ddl'.to = ddl.to
      /\ ddl'.rows = ddl.rows /\ ddl'.alter = ddl.alter /\ ddl'.hand = ddl.hand
      /\ ddl'.path = path /\ ddl'.keys = ddl.keys /\ ddl'.paths = ddl.paths
  BY <1>4, InvParts DEF DdlTypeOK
<1>6. DdlTypeOK'
  <2>1. DdlTypeOK
    BY InvParts
  <2>2. QED
    BY <2>1, <1>1, <1>4, <1>5 DEF DdlTypeOK
<1>7. KeysFit'
  BY <1>2, <1>5, InvParts DEF KeysFit, MovesKeys
<1>8. RowsFit'
  BY <1>2, <1>5 DEF RowsFit
<1>9. OpFits'
  <2>1. Under(ddl'.path, ddl'.from)
    BY <1>4, <1>5
  <2>2. QED
    BY <2>1, <1>2, <1>4, <1>5 DEF OpFits
<1>10. calm' \subseteq Dbs /\ requests' \in Nat
  BY <1>1, InvParts
<1>11. QED
  BY <1>1, <1>4, <1>6, <1>7, <1>8, <1>9, <1>10, DdlStep

\* A step of a request that changes folders and stores.
LEMMA FolderStep ==
  ASSUME StoresInv,
         UNCHANGED <<catalog, cache, buffers, home, calm, indexed, writes, requests>>,
         expected' \subseteq expected,
         handle' \in [Paths -> {"none", "open", "closed"}],
         dirs' \subseteq Folders, present' \subseteq Paths,
         store' \in [Paths -> {store'[p] : p \in Paths}],
         \A p \in Paths : IsMap(store'[p], StoredKeys(p), StoredVals(p)),
         StoresOnDisk', DdlTypeOK', OpFits', KeysFit', RowsFit'
  PROVE  StoresInv'
<1>1. \A p \in Paths : StoredKeys(p)' = StoredKeys(p) /\ StoredVals(p)' = StoredVals(p)
  BY DEF StoredKeys, StoredVals
<1>2. UNCHANGED <<ram, ibuf>>
  BY DEF buffers
<1>3. /\ IsMap(ram, Dbs \X Tabs \X DOMAIN home, SUBSET Cols)
      /\ IsMap(ibuf, Dbs \X Tabs \X Cols, SUBSET Pks)
      /\ IsMap(home, Pks, Tables) /\ expected \subseteq DOMAIN home
      /\ indexed \subseteq DOMAIN home /\ calm \subseteq Dbs
      /\ writes \in Nat /\ requests \in Nat
  BY InvParts DEF StoresTypeOK
<1>4. SchemaOK(catalog)' /\ SchemaOK(cache)'
  BY InvParts DEF SchemaOK
<1>5. \A p \in Paths : IsMap(store'[p], StoredKeys(p)', StoredVals(p)')
  BY <1>1
<1>6. StoresTypeOK'
  BY <1>2, <1>3, <1>4, <1>5 DEF StoresTypeOK
<1>7. QED
  BY <1>6 DEF StoresInv

\* What closing a folder's stores leaves.
LEMMA ClosedFacts ==
  ASSUME StoresTypeOK, NEW folder
  PROVE  /\ Closed(folder) \in [Paths -> {"none", "open", "closed"}]
         /\ \A p \in Paths : Closed(folder)[p] = "open" =>
              handle[p] = "open" /\ ~Under(p, folder)
         /\ \A p \in Paths : ~Under(p, folder) => Closed(folder)[p] = handle[p]
BY DEF Closed, StoresTypeOK

\* What a folder's stores hold once closed: data stores lose nothing.
LEMMA KeptFacts ==
  ASSUME StoresTypeOK, StoresOnDisk, NEW folder
  PROVE  /\ Kept(folder) \in [Paths -> {Kept(folder)[p] : p \in Paths}]
         /\ \A p \in Paths : Kept(folder)[p] = IF Under(p, folder) /\ p \notin present
                                                 THEN Empty ELSE store[p]
         /\ \A p \in Paths : IsMap(Kept(folder)[p], StoredKeys(p), StoredVals(p))
         /\ \A p \in Paths : p[3] = "data" /\ store[p] # Empty => p \in present
<1>1. \A p \in Paths : Kept(folder)[p] = IF Under(p, folder) /\ p \notin present
                                           THEN Empty ELSE store[p]
  BY DEF Kept
<1>2. Kept(folder) \in [Paths -> {Kept(folder)[p] : p \in Paths}]
  BY DEF Kept
<1>3. \A p \in Paths : IsMap(store[p], StoredKeys(p), StoredVals(p))
  BY DEF StoresTypeOK
<1>4. \A p \in Paths : IsMap(Kept(folder)[p], StoredKeys(p), StoredVals(p))
  BY <1>1, <1>3, EmptyMap
<1>5. \A p \in Paths : p[3] = "data" /\ store[p] # Empty => p \in present
  BY DEF StoresOnDisk
<1>6. QED
  BY <1>1, <1>2, <1>4, <1>5

\* Folders have one part or two.
LEMMA FolderForms ==
  ASSUME NEW f \in Folders
  PROVE  /\ f[1] \in Dbs /\ Len(f) \in {1, 2} /\ <<f[1]>> \in Folders
         /\ Len(f) = 1 => f = <<f[1]>>
         /\ Len(f) = 2 => f = <<f[1], f[2]>> /\ f \in Tables /\ f[2] \in Tabs
<1>1. CASE \E db \in Dbs : f = <<db>>
  BY <1>1, PartsOfPair DEF Folders
<1>2. CASE f \in Tables
  <2>1. PICK db \in Dbs, t \in Tabs : f = <<db, t>>
    BY <1>2 DEF Tables
  <2>2. Len(f) = 2 /\ f[1] = db /\ f[2] = t
    BY <2>1
  <2>3. QED
    BY <1>2, <2>1, <2>2 DEF Folders
<1>3. QED
  BY <1>1, <1>2 DEF Folders

\* Where a path of the renamed folder goes, and where one under the new name comes from.
LEMMA MovedPaths ==
  ASSUME ddl.from \in Folders, ddl.to \in Folders, Len(ddl.from) = Len(ddl.to), ddl.from # ddl.to,
         NEW p \in Paths
  PROVE  /\ Under(p, ddl.to) =>
              LET q == ddl.from \o SubSeq(p, Len(ddl.from) + 1, 3) IN
              /\ q \in Paths /\ q[3] = p[3] /\ Under(q, ddl.from) /\ Renamed(q) = p
         /\ Under(p, ddl.from) =>
              /\ Renamed(p) \in Paths /\ Renamed(p)[3] = p[3] /\ Under(Renamed(p), ddl.to)
              /\ <<Renamed(p)[1], Renamed(p)[2]>> = Renamed(<<p[1], p[2]>>)
              /\ Renamed(p)[1] = ddl.to[1]
              /\ Under(<<p[1], p[2]>>, ddl.from)
              /\ ddl.from \o SubSeq(Renamed(p), Len(ddl.from) + 1, 3) = p
         /\ ~(Under(p, ddl.from) /\ Under(p, ddl.to))
<1> DEFINE from == ddl.from
           to == ddl.to
           K == {"data", "index"}
           other(r) == <<to[1], IF Len(to) = 1 THEN r[2] ELSE to[2], r[3]>>
           back(r) == <<from[1], IF Len(from) = 1 THEN r[2] ELSE from[2], r[3]>>
<1>1. \A r \in Paths : Renamed(r) = other(r)
  BY RenamedKey DEF Paths
<1>2. \A r \in Paths : from \o SubSeq(r, Len(from) + 1, 3) = back(r)
  BY Prefixed DEF Paths
<1>3. \A r \in Paths, f \in Folders : Under(r, f) <=> f = <<r[1]>> \/ f = <<r[1], r[2]>>
  BY UnderFacts DEF Paths
<1>4. Renamed(<<p[1], p[2]>>) = <<to[1], IF Len(to) = 1 THEN p[2] ELSE to[2]>>
  BY PathFacts, RenamedTable
<1>5. Under(<<p[1], p[2]>>, from) <=> from = <<p[1]>> \/ from = <<p[1], p[2]>>
  <2> DEFINE t == <<p[1], p[2]>>
  <2>1. t \in Tables /\ t[1] = p[1]
    BY PathFacts
  <2> HIDE DEF t, from
  <2>2. Under(t, from) <=> from = <<t[1]>> \/ from = t
    BY <2>1, UnderTable DEF from
  <2>3. QED
    BY <2>1, <2>2 DEF t
<1>6. \A f \in {from, to} : /\ f[1] \in Dbs /\ Len(f) \in {1, 2} /\ f \in Folders
                            /\ Len(f) = 1 => f = <<f[1]>>
                            /\ Len(f) = 2 => f = <<f[1], f[2]>> /\ f[2] \in Tabs
  BY FolderForms
<1>7. \A x, y : Len(<<x>>) = 1 /\ Len(<<x, y>>) = 2
  BY PartsOfPair
<1>8. p \in Dbs \X Tabs \X K /\ Paths = Dbs \X Tabs \X K /\ Len(from) = Len(to) /\ from # to
  BY DEF Paths
<1>9. /\ other(p) \in Paths /\ other(p)[1] = to[1] /\ other(p)[3] = p[3]
      /\ other(p)[2] = IF Len(to) = 1 THEN p[2] ELSE to[2]
      /\ back(p) \in Paths /\ back(p)[1] = from[1] /\ back(p)[3] = p[3]
      /\ back(p)[2] = IF Len(from) = 1 THEN p[2] ELSE from[2]
  BY <1>6, <1>8
<1>10. p = <<p[1], p[2], p[3]>>
  BY <1>8
<1>11. Under(p, to) => Under(back(p), from) /\ other(back(p)) = p
  BY <1>3, <1>6, <1>7, <1>8, <1>9, <1>10
<1>12. Under(p, from) => Under(other(p), to) /\ back(other(p)) = p
  BY <1>3, <1>6, <1>7, <1>8, <1>9, <1>10
<1>13. ~(Under(p, from) /\ Under(p, to))
  BY <1>3, <1>6, <1>7, <1>8
<1> HIDE DEF from, to, other, back, K
<1>14. /\ Under(p, to) =>
            LET q == from \o SubSeq(p, Len(from) + 1, 3) IN
            /\ q \in Paths /\ q[3] = p[3] /\ Under(q, from) /\ Renamed(q) = p
  BY <1>1, <1>2, <1>9, <1>11
<1>15. Under(p, from) => from \o SubSeq(Renamed(p), Len(from) + 1, 3) = p
  BY <1>1, <1>2, <1>9, <1>12
<1>16. Under(p, from) =>
              /\ Renamed(p) \in Paths /\ Renamed(p)[3] = p[3] /\ Under(Renamed(p), to)
              /\ <<Renamed(p)[1], Renamed(p)[2]>> = Renamed(<<p[1], p[2]>>)
              /\ Renamed(p)[1] = to[1]
              /\ Under(<<p[1], p[2]>>, from)
  BY <1>1, <1>3, <1>4, <1>5, <1>9, <1>12 DEF from
<1>17. QED
  BY <1>13, <1>14, <1>15, <1>16 DEF from, to

\* What is under a folder is under its database's.
LEMMA UnderParts ==
  ASSUME NEW f \in Folders, NEW p \in Paths, Under(p, f)
  PROVE  p[1] = f[1] /\ Under(p, <<f[1]>>) /\ <<f[1]>> \in Folders
<1>1. \A g \in Folders : Under(p, g) <=> g = <<p[1]>> \/ g = <<p[1], p[2]>>
  BY UnderFacts DEF Paths
<1>2. f = <<p[1]>> \/ f = <<p[1], p[2]>>
  BY <1>1
<1>3. f[1] = p[1]
  BY <1>2
<1>4. <<f[1]>> \in Folders
  BY FolderForms
<1>5. QED
  BY <1>1, <1>3, <1>4

\* The folders of the renamed one under the new name.
LEMMA MovedFolders ==
  ASSUME ddl.from \in Folders, ddl.to \in Folders, Len(ddl.from) = Len(ddl.to),
         NEW f \in Folders, Under(f, ddl.from)
  PROVE  Renamed(f) \in Folders
<1>1. CASE f \in Tables
  BY <1>1, RenamedTables DEF Folders
<1>2. CASE f \in {<<db>> : db \in Dbs}
  <2>1. PICK db \in Dbs : f = <<db>>
    BY <1>2
  <2>2. ddl.from = <<db>>
    BY <2>1, UnderDb
  <2>3. Len(ddl.to) = 1
    BY <2>2
  <2>4. ddl.to \in {<<d>> : d \in Dbs}
    BY <2>3, FolderForms
  <2>5. Renamed(f) = ddl.to
    BY <1>2, <2>4, RenamedDb
  <2>6. QED
    BY <2>5
<1>3. QED
  BY <1>1, <1>2 DEF Folders

\* What is not under a folder has no folder that is.
LEMMA FoldersAbove ==
  ASSUME NEW f \in Folders, NEW p \in Paths, ~Under(p, f)
  PROVE  ~Under(<<p[1], p[2]>>, f) /\ ~Under(<<p[1]>>, f)
<1>1. f # <<p[1]>> /\ f # <<p[1], p[2]>>
  BY UnderFacts DEF Paths
<1> DEFINE t == <<p[1], p[2]>>
<1>2. t \in Tables /\ p[1] = t[1] /\ t[1] \in Dbs
  BY PathFacts
<1>3. f # t /\ f # <<t[1]>>
  BY <1>1, <1>2
<1> HIDE DEF t
<1>4. ~Under(t, f)
  BY <1>2, <1>3, UnderTable
<1>5. ~Under(<<p[1]>>, f)
  BY <1>2, <1>3, UnderDb
<1>6. QED
  BY <1>4, <1>5 DEF t

\* What a rename of a folder leaves on disk, once the stores of its database are closed.
LEMMA RenamedOnDisk ==
  ASSUME StoresTypeOK, StoresOnDisk,
         ddl.from \in Folders, ddl.to \in Folders, Len(ddl.from) = Len(ddl.to), ddl.from # ddl.to,
         NEW kept, kept = Kept(<<ddl.from[1]>>),
         handle' = Closed(<<ddl.from[1]>>),
         store' = [p \in Paths |-> IF Under(p, ddl.to)
                                     THEN kept[ddl.from \o SubSeq(p, Len(ddl.from) + 1, 3)]
                                   ELSE IF Under(p, ddl.from) THEN Empty ELSE kept[p]],
         present' = {p \in present : ~Under(p, ddl.from)}
                    \cup {Renamed(p) : p \in {p \in present : Under(p, ddl.from)}},
         dirs' = {f \in dirs : ~Under(f, ddl.from)}
                 \cup {Renamed(f) : f \in {f \in dirs : Under(f, ddl.from)}}
                 \cup {<<ddl.to[1]>>}
  PROVE  /\ dirs' \subseteq Folders /\ present' \subseteq Paths
         /\ \A p \in Paths : IsMap(store'[p], StoredKeys(p), StoredVals(p))
         /\ store' \in [Paths -> {store'[p] : p \in Paths}]
         /\ StoresOnDisk'
<1> DEFINE from == ddl.from
           to == ddl.to
           db == <<ddl.from[1]>>
           src(p) == from \o SubSeq(p, Len(from) + 1, 3)
<1>1. dirs \subseteq Folders /\ present \subseteq Paths
  BY DEF StoresTypeOK
<1>2. /\ \A p \in Paths : kept[p] = IF Under(p, db) /\ p \notin present THEN Empty ELSE store[p]
      /\ \A p \in Paths : IsMap(kept[p], StoredKeys(p), StoredVals(p))
      /\ \A p \in Paths : p[3] = "data" /\ store[p] # Empty => p \in present
  BY KeptFacts
<1>3. \A p \in Paths : Under(p, to) =>
        src(p) \in Paths /\ src(p)[3] = p[3] /\ Under(src(p), from) /\ Renamed(src(p)) = p
  BY MovedPaths
<1>4. \A p \in Paths : Under(p, from) =>
              /\ Renamed(p) \in Paths /\ Renamed(p)[3] = p[3] /\ Under(Renamed(p), to)
              /\ <<Renamed(p)[1], Renamed(p)[2]>> = Renamed(<<p[1], p[2]>>)
              /\ Renamed(p)[1] = to[1]
              /\ Under(<<p[1], p[2]>>, from)
  BY MovedPaths
<1>5. \A p \in Paths : Under(p, from) => Under(p, db)
  BY UnderParts
<1>6. \A p \in Paths : ~Under(p, from) => ~Under(<<p[1], p[2]>>, from) /\ ~Under(<<p[1]>>, from)
  BY FoldersAbove
<1>7. \A p \in Paths : store'[p] = IF Under(p, to) THEN kept[src(p)]
                                   ELSE IF Under(p, from) THEN Empty ELSE kept[p]
  OBVIOUS
<1>8. store' \in [Paths -> {store'[p] : p \in Paths}]
  OBVIOUS
<1>9. /\ \A p \in Paths : handle'[p] = "open" => handle[p] = "open" /\ ~Under(p, db)
      /\ \A p \in Paths : ~Under(p, db) => handle'[p] = handle[p]
  BY ClosedFacts
<1>10. dirs' \subseteq Folders
  <2>1. <<to[1]>> \in Folders
    BY FolderForms
  <2>2. QED
    BY <2>1, <1>1, MovedFolders
<1>11. present' \subseteq Paths
  BY <1>1, <1>4
<1>12. /\ \A p \in present : ~Under(p, from) => p \in present'
       /\ \A p \in present : Under(p, from) => Renamed(p) \in present'
       /\ \A p \in present' : \/ p \in present /\ ~Under(p, from)
                              \/ \E q \in present : Under(q, from) /\ p = Renamed(q)
  OBVIOUS
<1>13. /\ \A f \in dirs : ~Under(f, from) => f \in dirs'
       /\ \A f \in dirs : Under(f, from) => Renamed(f) \in dirs'
       /\ <<to[1]>> \in dirs'
  OBVIOUS
<1>14. /\ \A p \in Paths : store[p] # Empty => p \in present \/ handle[p] = "open"
       /\ \A p \in Paths : p[3] = "data" /\ handle[p] = "open" => p \in present
       /\ \A p \in present : <<p[1], p[2]>> \in dirs /\ <<p[1]>> \in dirs
  BY DEF StoresOnDisk
<1> HIDE DEF from, to, src, db
<1>15. \A p \in Paths : IsMap(store'[p], StoredKeys(p), StoredVals(p))
  <2>1. ASSUME NEW p \in Paths, NEW q \in Paths, p[3] = q[3]
        PROVE  StoredKeys(p) = StoredKeys(q) /\ StoredVals(p) = StoredVals(q)
    BY <2>1 DEF StoredKeys, StoredVals
  <2>2. ASSUME NEW p \in Paths, Under(p, to)
        PROVE  IsMap(store'[p], StoredKeys(p), StoredVals(p))
    <3>1. store'[p] = kept[src(p)] /\ src(p) \in Paths /\ src(p)[3] = p[3]
      BY <2>2, <1>3, <1>7
    <3>2. StoredKeys(p) = StoredKeys(src(p)) /\ StoredVals(p) = StoredVals(src(p))
      BY <3>1, <2>1
    <3>3. QED
      BY <3>1, <3>2, <1>2
  <2>3. QED
    BY <2>2, <1>2, <1>7, EmptyMap
<1>16. ASSUME NEW p \in Paths, store'[p] # Empty
       PROVE  p \in present' \/ handle'[p] = "open"
  <2>1. CASE Under(p, to)
    <3>1. src(p) \in Paths /\ Under(src(p), from) /\ Renamed(src(p)) = p /\ kept[src(p)] # Empty
      BY <2>1, <1>3, <1>7, <1>16
    <3>2. src(p) \in present
      BY <3>1, <1>2, <1>5
    <3>3. QED
      BY <3>1, <3>2, <1>12
  <2>2. CASE ~Under(p, to)
    <3>1. ~Under(p, from) /\ kept[p] # Empty
      BY <2>2, <1>7, <1>16
    <3>2. store[p] # Empty /\ (Under(p, db) => p \in present)
      BY <3>1, <1>2
    <3>3. QED
      BY <3>1, <3>2, <1>9, <1>12, <1>14
  <2>3. QED
    BY <2>1, <2>2
<1>17. ASSUME NEW p \in Paths, p[3] = "data", handle'[p] = "open"
       PROVE  p \in present'
  BY <1>5, <1>9, <1>12, <1>14, <1>17
<1>18. ASSUME NEW p \in present'
       PROVE  <<p[1], p[2]>> \in dirs' /\ <<p[1]>> \in dirs'
  <2>1. CASE p \in present /\ ~Under(p, from)
    <3>1. p \in Paths /\ <<p[1], p[2]>> \in dirs /\ <<p[1]>> \in dirs
      BY <2>1, <1>1, <1>14
    <3>2. QED
      BY <3>1, <2>1, <1>6, <1>13
  <2>2. CASE \E q \in present : Under(q, from) /\ p = Renamed(q)
    <3>1. PICK q \in present : Under(q, from) /\ p = Renamed(q)
      BY <2>2
    <3>2. q \in Paths /\ <<q[1], q[2]>> \in dirs
      BY <1>1, <1>14
    <3>3. /\ <<p[1], p[2]>> = Renamed(<<q[1], q[2]>>) /\ p[1] = to[1]
          /\ Under(<<q[1], q[2]>>, from)
      BY <3>1, <3>2, <1>4
    <3>4. Renamed(<<q[1], q[2]>>) \in dirs'
      BY <3>2, <3>3, <1>13
    <3>5. QED
      BY <3>3, <3>4, <1>13
  <2>3. QED
    BY <2>1, <2>2, <1>12
<1>19. StoresOnDisk'
  BY <1>16, <1>17, <1>18 DEF StoresOnDisk
<1>20. QED
  BY <1>8, <1>10, <1>11, <1>15, <1>19

\* RenameFolder keeps the invariant.
LEMMA RenameFolderInv ==
  ASSUME StoresInv, RenameFolder
  PROVE  StoresInv'
<1> DEFINE from == ddl.from
           to == ddl.to
           db == <<ddl.from[1]>>
           kept == Kept(<<ddl.from[1]>>)
<1>1. /\ ddl.pc = "folder" /\ handle' = Closed(<<ddl.from[1]>>)
      /\ UNCHANGED <<catalog, cache, buffers, home, calm, expected, indexed, writes, requests>>
  BY DEF RenameFolder, Step
<1>2. /\ StoresTypeOK /\ StoresOnDisk /\ DdlTypeOK /\ OpFits /\ KeysFit /\ RowsFit
      /\ ddl.op = "rename" /\ ddl.from \in Folders /\ ddl.to \in Folders
      /\ Len(ddl.from) = Len(ddl.to) /\ ddl.from # ddl.to
  BY <1>1, InvParts, PcOps DEF OpFits
<1>3. handle' \in [Paths -> {"none", "open", "closed"}]
  BY <1>1, <1>2, ClosedFacts
<1>4. /\ \A p \in Paths : kept[p] = IF Under(p, db) /\ p \notin present THEN Empty ELSE store[p]
      /\ \A p \in Paths : IsMap(kept[p], StoredKeys(p), StoredVals(p))
      /\ \A p \in Paths : p[3] = "data" /\ store[p] # Empty => p \in present
      /\ kept \in [Paths -> {kept[p] : p \in Paths}]
  BY <1>2, KeptFacts
<1>5. CASE /\ store' = kept /\ ddl' = NoDdl /\ UNCHANGED <<present, dirs>>
  <2>1. /\ \A p \in Paths : handle'[p] = "open" => handle[p] = "open"
        /\ \A p \in Paths : ~Under(p, db) => handle'[p] = handle[p]
    BY <1>1, <1>2, ClosedFacts
  <2> HIDE DEF kept, db
  <2>2. StoresOnDisk'
    BY <1>2, <1>4, <1>5, <2>1 DEF StoresOnDisk
  <2>3. dirs' \subseteq Folders /\ present' \subseteq Paths
    BY <1>2, <1>5 DEF StoresTypeOK
  <2>4. DdlTypeOK' /\ OpFits' /\ KeysFit' /\ RowsFit'
    BY <1>5, NoDdlFits
  <2>5. /\ \A p \in Paths : IsMap(store'[p], StoredKeys(p), StoredVals(p))
        /\ store' \in [Paths -> {store'[p] : p \in Paths}]
    BY <1>4, <1>5
  <2>6. QED
    BY <1>1, <1>3, <2>2, <2>3, <2>4, <2>5, FolderStep
<1>6. CASE /\ store' = [p \in Paths |-> IF Under(p, to)
                                          THEN kept[from \o SubSeq(p, Len(from) + 1, 3)]
                                        ELSE IF Under(p, from) THEN Empty ELSE kept[p]]
           /\ present' = {p \in present : ~Under(p, from)}
                         \cup {Renamed(p) : p \in {p \in present : Under(p, from)}}
           /\ dirs' = {f \in dirs : ~Under(f, from)}
                      \cup {Renamed(f) : f \in {f \in dirs : Under(f, from)}}
                      \cup {<<to[1]>>}
           /\ ddl' = [ddl EXCEPT !.pc = "reload"]
  <2>1. /\ dirs' \subseteq Folders /\ present' \subseteq Paths
        /\ \A p \in Paths : IsMap(store'[p], StoredKeys(p), StoredVals(p))
        /\ store' \in [Paths -> {store'[p] : p \in Paths}]
        /\ StoresOnDisk'
    BY <1>1, <1>2, <1>6, RenamedOnDisk
  <2> HIDE DEF kept, db, from, to
  <2>2. ddl' = [ddl EXCEPT !.pc = "reload", !.path = ddl.path]
    BY <1>2, <1>6 DEF DdlTypeOK
  <2>3. /\ ddl.path \in Paths \cup Folders \cup {<<>>} /\ ddl.rows = Empty /\ ddl.keys = {}
        /\ UNCHANGED home
    BY <1>1, <1>2 DEF DdlTypeOK, RowsFit, KeysFit, MovesKeys
  <2>4. /\ DdlTypeOK' /\ KeysFit' /\ RowsFit'
        /\ ddl'.op = ddl.op /\ ddl'.from = ddl.from /\ ddl'.to = ddl.to /\ ddl'.pc = "reload"
    <3> DEFINE pc == "reload"
    <3>1. ddl' = [ddl EXCEPT !.pc = pc, !.path = ddl.path]
          /\ pc \in {"reload", "folder", "dropKeys", "dropFolder"}
      BY <2>2
    <3> HIDE DEF pc
    <3>2. DdlTypeOK' /\ KeysFit' /\ RowsFit' /\ ddl'.op = ddl.op /\ ddl'.from = ddl.from
          /\ ddl'.to = ddl.to /\ ddl'.pc = pc
      BY <3>1, <2>3, PlaceStep
    <3>3. QED
      BY <3>2 DEF pc
  <2>5. OpFits'
    BY <1>2, <2>4 DEF OpFits
  <2>6. QED
    BY <1>1, <1>3, <2>1, <2>4, <2>5, FolderStep
<1>7. QED
  BY <1>5, <1>6 DEF RenameFolder, Step

\* What the removal of a folder leaves on disk.
LEMMA RemovedOnDisk ==
  ASSUME StoresTypeOK, StoresOnDisk, NEW f \in Folders,
         handle' = Closed(f),
         store' = [p \in Paths |-> IF p \in {q \in Paths : Under(q, f)} THEN Empty ELSE store[p]],
         present' = present \ {q \in Paths : Under(q, f)},
         dirs' = {g \in dirs : ~Under(g, f)}
  PROVE  /\ dirs' \subseteq Folders /\ present' \subseteq Paths
         /\ \A p \in Paths : IsMap(store'[p], StoredKeys(p), StoredVals(p))
         /\ store' \in [Paths -> {store'[p] : p \in Paths}]
         /\ StoresOnDisk'
<1>1. dirs \subseteq Folders /\ present \subseteq Paths
  BY DEF StoresTypeOK
<1>2. \A p \in Paths : store'[p] = IF Under(p, f) THEN Empty ELSE store[p]
  OBVIOUS
<1>3. store' \in [Paths -> {store'[p] : p \in Paths}]
  OBVIOUS
<1>4. /\ \A p \in Paths : handle'[p] = "open" => handle[p] = "open" /\ ~Under(p, f)
      /\ \A p \in Paths : ~Under(p, f) => handle'[p] = handle[p]
  BY ClosedFacts
<1>5. \A p \in Paths : ~Under(p, f) => ~Under(<<p[1], p[2]>>, f) /\ ~Under(<<p[1]>>, f)
  BY FoldersAbove
<1>6. \A p \in Paths : IsMap(store[p], StoredKeys(p), StoredVals(p))
  BY DEF StoresTypeOK
<1>7. \A p \in Paths : IsMap(store'[p], StoredKeys(p), StoredVals(p))
  BY <1>2, <1>6, EmptyMap
<1>8. \A p \in Paths : /\ store'[p] # Empty => p \in present' \/ handle'[p] = "open"
                       /\ p[3] = "data" /\ handle'[p] = "open" => p \in present'
  BY <1>2, <1>4 DEF StoresOnDisk
<1>9. \A p \in present' : <<p[1], p[2]>> \in dirs' /\ <<p[1]>> \in dirs'
  BY <1>1, <1>5 DEF StoresOnDisk
<1>10. StoresOnDisk'
  BY <1>8, <1>9 DEF StoresOnDisk
<1>11. QED
  BY <1>1, <1>3, <1>7, <1>10

\* RemoveFolder keeps the invariant.
LEMMA RemoveFolderInv ==
  ASSUME StoresInv, RemoveFolder
  PROVE  StoresInv'
<1> DEFINE pc == IF ddl.path = ddl.from THEN "reload" ELSE "dropKeys"
<1>1. /\ ddl.pc = "dropFolder" /\ handle' = Closed(ddl.path)
      /\ store' = [p \in Paths |-> IF p \in {q \in Paths : Under(q, ddl.path)}
                                     THEN Empty ELSE store[p]]
      /\ present' = present \ {q \in Paths : Under(q, ddl.path)}
      /\ dirs' = {f \in dirs : ~Under(f, ddl.path)}
      /\ expected' \subseteq expected
      /\ ddl' = [ddl EXCEPT !.pc = pc]
      /\ UNCHANGED <<catalog, cache, buffers, home, calm, indexed, writes, requests>>
  BY DEF RemoveFolder, Step
<1>2. /\ StoresTypeOK /\ StoresOnDisk /\ DdlTypeOK /\ OpFits /\ KeysFit /\ RowsFit
      /\ ddl.op = "delete" /\ ddl.from \in Folders /\ ddl.path \in Folders
  BY <1>1, InvParts, PcOps DEF OpFits
<1>3. handle' \in [Paths -> {"none", "open", "closed"}]
  BY <1>1, <1>2, ClosedFacts
<1>4. /\ dirs' \subseteq Folders /\ present' \subseteq Paths
      /\ \A p \in Paths : IsMap(store'[p], StoredKeys(p), StoredVals(p))
      /\ store' \in [Paths -> {store'[p] : p \in Paths}]
      /\ StoresOnDisk'
  BY <1>1, <1>2, RemovedOnDisk
<1>5. pc \in {"reload", "folder", "dropKeys", "dropFolder"} /\ pc \in {"reload", "dropKeys"}
  OBVIOUS
<1> HIDE DEF pc
<1>6. /\ ddl' = [ddl EXCEPT !.pc = pc, !.path = ddl.path]
      /\ ddl.path \in Paths \cup Folders \cup {<<>>} /\ ddl.rows = Empty /\ ddl.keys = {}
      /\ UNCHANGED home
  BY <1>1, <1>2 DEF DdlTypeOK, RowsFit, KeysFit, MovesKeys
<1>7. /\ DdlTypeOK' /\ KeysFit' /\ RowsFit'
      /\ ddl'.op = ddl.op /\ ddl'.from = ddl.from /\ ddl'.to = ddl.to /\ ddl'.pc = pc
  BY <1>5, <1>6, PlaceStep
<1>8. OpFits'
  BY <1>2, <1>5, <1>7 DEF OpFits
<1>9. QED
  BY <1>1, <1>3, <1>4, <1>7, <1>8, FolderStep

\* A step that changes buffers, the cache and stores, but neither rows nor the catalog.
LEMMA WholeStep ==
  ASSUME StoresInv, UNCHANGED <<catalog, home, calm, writes, requests>>,
         SchemaOK(cache)', expected' \subseteq expected, indexed' \subseteq indexed,
         handle' \in [Paths -> {"none", "open", "closed"}],
         dirs' \subseteq Folders, present' \subseteq Paths,
         store' \in [Paths -> {store'[p] : p \in Paths}],
         \A p \in Paths : IsMap(store'[p], StoredKeys(p), StoredVals(p)),
         IsMap(ram', Dbs \X Tabs \X DOMAIN home, SUBSET Cols),
         IsMap(ibuf', Dbs \X Tabs \X Cols, SUBSET Pks),
         StoresOnDisk', DdlTypeOK', OpFits', KeysFit', RowsFit'
  PROVE  StoresInv'
<1>1. \A p \in Paths : StoredKeys(p)' = StoredKeys(p) /\ StoredVals(p)' = StoredVals(p)
  BY DEF StoredKeys, StoredVals
<1>2. /\ IsMap(home, Pks, Tables) /\ expected \subseteq DOMAIN home
      /\ indexed \subseteq DOMAIN home /\ calm \subseteq Dbs
      /\ writes \in Nat /\ requests \in Nat
  BY InvParts DEF StoresTypeOK
<1>3. SchemaOK(catalog)'
  BY InvParts DEF SchemaOK
<1>4. \A p \in Paths : IsMap(store'[p], StoredKeys(p)', StoredVals(p)')
  BY <1>1
<1>5. StoresTypeOK'
  BY <1>2, <1>3, <1>4 DEF StoresTypeOK
<1>6. QED
  BY <1>5 DEF StoresInv

\* The stores as the invariant types them.
LEMMA StorageFacts ==
  ASSUME StoresInv
  PROVE  /\ handle \in [Paths -> {"none", "open", "closed"}]
         /\ dirs \subseteq Folders /\ present \subseteq Paths
         /\ store \in [Paths -> {store[p] : p \in Paths}]
         /\ \A p \in Paths : IsMap(store[p], StoredKeys(p), StoredVals(p))
         /\ IsMap(ram, Dbs \X Tabs \X DOMAIN home, SUBSET Cols)
         /\ IsMap(ibuf, Dbs \X Tabs \X Cols, SUBSET Pks)
         /\ IsMap(home, Pks, Tables) /\ DOMAIN home \subseteq Pks
<1>1. IsMap(home, Pks, Tables)
  BY DEF StoresInv, StoresTypeOK
<1>2. DOMAIN home \subseteq Pks
  BY <1>1, MapFacts
<1>3. QED
  BY <1>1, <1>2 DEF StoresInv, StoresTypeOK

\* A row that is read is a set of columns, and one of a table's store is a row.
LEMMA RowOfType ==
  ASSUME StoresInv, NEW K, NEW key \in Dbs \X Tabs \X K
  PROVE  RowOf(key) \in SUBSET Cols
<1> DEFINE p == <<key[1], key[2], "data">>
<1>1. p \in Paths /\ p[3] = "data"
  BY KeyPath
<1>2. StoredVals(p) = [set : SUBSET Cols, enc : Nat]
  BY <1>1 DEF StoredVals
<1>3. RowOf(key) = IF key \in DOMAIN ram THEN ram[key]
                   ELSE IF Usable(p) /\ key \in DOMAIN store[p] /\ store[p][key].enc = 0
                          THEN store[p][key].set ELSE {}
  BY DEF RowOf
<1> HIDE DEF p
<1>4. \A k \in DOMAIN store[p] : store[p][k] \in [set : SUBSET Cols, enc : Nat]
  BY <1>1, <1>2, StorageFacts, MapFacts
<1>5. \A k \in DOMAIN ram : ram[k] \in SUBSET Cols
  BY StorageFacts, MapFacts
<1>6. QED
  BY <1>3, <1>4, <1>5

\* The rows of a table's data store; there are some only while it is open.
LEMMA GetRowsType ==
  ASSUME StoresInv, NEW p \in Paths, p[3] = "data"
  PROVE  /\ IsMap(GetRows(p), DOMAIN home, SUBSET Cols)
         /\ GetRows(p) # Empty => handle[p] = "open"
<1> DEFINE pks == {k[3] : k \in KeysIn(p)}
           key(pk) == <<p[1], p[2], pk>>
<1>1. GetRows(p) = [pk \in pks |-> RowOf(key(pk))]
  BY DEF GetRows
<1>2. pks \subseteq DOMAIN home
  <2>1. DOMAIN store[p] \subseteq StoredKeys(p)
    BY StorageFacts, MapFacts
  <2>2. StoredKeys(p) = Dbs \X Tabs \X DOMAIN home
    BY DEF StoredKeys
  <2>3. KeysIn(p) \subseteq Dbs \X Tabs \X DOMAIN home
    BY <2>1, <2>2 DEF KeysIn
  <2>4. QED
    BY <2>3
<1>3. \A pk \in DOMAIN home : RowOf(key(pk)) \in SUBSET Cols
  <2>1. \A pk \in DOMAIN home : key(pk) \in Dbs \X Tabs \X DOMAIN home
    BY PathFacts
  <2> HIDE DEF key
  <2>2. QED
    BY <2>1, RowOfType
<1>4. pks # {} => handle[p] = "open"
  BY DEF KeysIn
<1> HIDE DEF pks, key
<1>5. IsMap(GetRows(p), DOMAIN home, SUBSET Cols)
  BY <1>1, <1>2, <1>3 DEF IsMap
<1>6. pks = {} => GetRows(p) = Empty
  BY <1>1, <1>5, EmptyMap
<1>7. QED
  BY <1>4, <1>5, <1>6

\* An alteration under way works on a table of the catalog.
LEMMA AlterFacts ==
  ASSUME StoresInv, ddl.op = "alter"
  PROVE  /\ ddl.from \in DOMAIN catalog.tables /\ ddl.from \in Tables
         /\ ddl.alter \in Alterations
         /\ Append(ddl.from, "data") \in Paths /\ Append(ddl.from, "index") \in Paths
         /\ Append(ddl.from, "data") = <<ddl.from[1], ddl.from[2], "data">>
         /\ Append(ddl.from, "index") = <<ddl.from[1], ddl.from[2], "index">>
<1>1. ddl.from \in DOMAIN catalog.tables /\ ddl.alter \in Alterations
  BY InvParts DEF OpFits
<1>2. ddl.from \in Tables
  BY <1>1, InvParts
<1>3. QED
  BY <1>1, <1>2, TablePaths

\* ScanRows keeps the invariant.
LEMMA ScanRowsInv ==
  ASSUME StoresInv, ScanRows
  PROVE  StoresInv'
<1>1. PICK p \in ddl.paths :
        ddl' = [ddl EXCEPT !.paths = ddl.paths \ {p}, !.path = p, !.rows = GetRows(p)]
  BY DEF ScanRows, Step
<1>2. /\ ddl.pc = "rows"
      /\ UNCHANGED <<catalog, cache, storage, buffers, home, calm, expected, indexed, writes, requests>>
  BY DEF ScanRows, Step
<1>3. /\ ddl.op = "alter" /\ OpFits /\ KeysFit /\ RowsFit /\ DdlTypeOK
      /\ ddl.keys = {} /\ ddl.hand = NoHand
  BY <1>2, InvParts, PcOps DEF KeysFit, MovesKeys
<1>4. p = Append(ddl.from, "data") /\ ddl.paths = {p}
  BY <1>2, <1>3 DEF RowsFit
<1>5. p \in Paths /\ p[3] = "data"
  BY <1>3, <1>4, AlterFacts
<1> DEFINE rows == GetRows(p)
<1>6. IsMap(rows, DOMAIN home, SUBSET Cols) /\ (rows # Empty => handle[p] = "open")
  BY <1>5, GetRowsType
<1>7. ddl' = [ddl EXCEPT !.paths = {}, !.path = p, !.rows = rows]
  BY <1>1, <1>4
<1> HIDE DEF rows
<1>8. /\ ddl'.pc = ddl.pc /\ ddl'.op = ddl.op /\ ddl'.from = ddl.from /\ ddl'.to = ddl.to
      /\ ddl'.rows = rows /\ ddl'.alter = ddl.alter /\ ddl'.hand = ddl.hand
      /\ ddl'.path = p /\ ddl'.keys = ddl.keys /\ ddl'.paths = {}
  BY <1>3, <1>7 DEF DdlTypeOK
<1>9. DdlTypeOK'
  BY <1>2, <1>3, <1>5, <1>6, <1>7, <1>8 DEF DdlTypeOK
<1>10. OpFits'
  BY <1>2, <1>3, <1>8 DEF OpFits
<1>11. KeysFit'
  BY <1>2, <1>3, <1>8 DEF KeysFit, MovesKeys
<1>12. RowsFit'
  <2>1. UNCHANGED handle
    BY <1>2 DEF storage
  <2>2. QED
    BY <2>1, <1>2, <1>4, <1>6, <1>8 DEF RowsFit
<1>13. SchemaOK(catalog)' /\ calm' \subseteq Dbs /\ requests' \in Nat
  BY <1>2, InvParts DEF SchemaOK
<1>14. QED
  BY <1>2, <1>9, <1>10, <1>11, <1>12, <1>13, DdlStep

\* An altered row is a row.
LEMMA AlteredRowType ==
  ASSUME NEW row \in SUBSET Cols, ddl.alter \in Alterations
  PROVE  AlteredRow(row) \in SUBSET Cols
BY AlteredColsType DEF AlteredRow

\* AlterRow keeps the invariant.
LEMMA AlterRowInv ==
  ASSUME StoresInv, AlterRow
  PROVE  StoresInv'
<1>1. PICK pk \in DOMAIN ddl.rows :
        /\ store' = IF Untouched(ddl.rows[pk]) THEN store
                    ELSE [store EXCEPT ![ddl.path] =
                            Put(store[ddl.path], <<ddl.path[1], ddl.path[2], pk>>,
                                Value(AlteredRow(ddl.rows[pk])))]
        /\ ddl' = [ddl EXCEPT !.rows = Drop(ddl.rows, pk)]
  BY DEF AlterRow, Step
<1>2. /\ ddl.pc = "rows"
      /\ UNCHANGED <<catalog, cache, dirs, present, handle, buffers, home, calm, expected,
                     indexed, writes, requests>>
  BY DEF AlterRow, Step
<1> DEFINE p == ddl.path
           rows == Drop(ddl.rows, pk)
           key == <<ddl.path[1], ddl.path[2], pk>>
           val == Value(AlteredRow(ddl.rows[pk]))
           held == Put(store[ddl.path], <<ddl.path[1], ddl.path[2], pk>>,
                       Value(AlteredRow(ddl.rows[pk])))
<1>3. /\ ddl.op = "alter" /\ OpFits /\ KeysFit /\ RowsFit /\ DdlTypeOK
      /\ ddl.keys = {} /\ ddl.hand = NoHand
  BY <1>2, InvParts, PcOps DEF KeysFit, MovesKeys
<1>4. ddl.rows # Empty /\ IsMap(ddl.rows, DOMAIN home, SUBSET Cols)
  BY <1>1, <1>3, EmptyMap DEF DdlTypeOK
<1>5. p = Append(ddl.from, "data") /\ ddl.paths = {} /\ handle[p] = "open"
  BY <1>3, <1>4 DEF RowsFit
<1>6. p \in Paths /\ p[3] = "data"
  BY <1>3, <1>5, AlterFacts
<1>7. IsMap(rows, DOMAIN home, SUBSET Cols)
  BY <1>4, DropMap
<1>8. key \in StoredKeys(p) /\ val \in StoredVals(p)
  <2>1. pk \in DOMAIN home /\ ddl.rows[pk] \in SUBSET Cols
    BY <1>1, <1>4, MapFacts
  <2>2. AlteredRow(ddl.rows[pk]) \in SUBSET Cols
    BY <2>1, <1>3, AlterFacts, AlteredRowType
  <2>3. p[1] \in Dbs /\ p[2] \in Tabs
    BY <1>6, PathFacts
  <2>4. QED
    BY <2>1, <2>2, <2>3, <1>6 DEF StoredKeys, StoredVals, Value
<1>9. IsMap(held, StoredKeys(p), StoredVals(p))
  <2>1. IsMap(store[p], StoredKeys(p), StoredVals(p)) /\ held = Put(store[p], key, val)
    BY <1>6, StorageFacts
  <2> HIDE DEF p, key, val, held
  <2>2. QED
    BY <2>1, <1>8, PutMap
<1>10. store' = store \/ store' = [store EXCEPT ![p] = held]
  BY <1>1
<1>11. ddl' = [ddl EXCEPT !.rows = rows]
  BY <1>1
<1> HIDE DEF rows, key, val, held
<1>12. /\ ddl'.pc = ddl.pc /\ ddl'.op = ddl.op /\ ddl'.from = ddl.from /\ ddl'.to = ddl.to
       /\ ddl'.rows = rows /\ ddl'.alter = ddl.alter /\ ddl'.hand = ddl.hand
       /\ ddl'.path = p /\ ddl'.keys = ddl.keys /\ ddl'.paths = {}
  BY <1>3, <1>5, <1>11 DEF DdlTypeOK
<1>13. DdlTypeOK'
  BY <1>2, <1>3, <1>7, <1>11, <1>12 DEF DdlTypeOK
<1>14. OpFits'
  BY <1>2, <1>3, <1>12 DEF OpFits
<1>15. KeysFit'
  BY <1>2, <1>3, <1>12 DEF KeysFit, MovesKeys
<1>16. RowsFit'
  BY <1>2, <1>5, <1>12 DEF RowsFit
<1>17. SchemaOK(catalog)' /\ calm' \subseteq Dbs /\ requests' \in Nat
  BY <1>2, InvParts DEF SchemaOK
<1>18. CASE store' = store
  <2>1. UNCHANGED <<cache, storage, buffers, home, expected, indexed, writes>>
    BY <1>2, <1>18 DEF storage
  <2>2. QED
    BY <2>1, <1>13, <1>14, <1>15, <1>16, <1>17, DdlStep
<1>19. CASE store' = [store EXCEPT ![p] = held]
  <2> HIDE DEF p
  <2>1. QED
    BY <1>2, <1>5, <1>6, <1>9, <1>13, <1>14, <1>15, <1>16, <1>19, WriteStep
<1>20. QED
  BY <1>10, <1>18, <1>19

\* AlterIndex keeps the invariant.
LEMMA AlterIndexInv ==
  ASSUME StoresInv, AlterIndex
  PROVE  StoresInv'
<1>1. /\ ddl.pc = "rows" /\ ddl.rows = Empty
      /\ ddl' = [ddl EXCEPT !.pc = "unindex", !.paths = {Append(ddl.from, "index")}]
      /\ UNCHANGED <<catalog, cache, storage, buffers, home, calm, expected, indexed, writes, requests>>
  BY DEF AlterIndex, Step
<1>2. /\ ddl.op = "alter" /\ OpFits /\ KeysFit /\ DdlTypeOK
      /\ ddl.keys = {} /\ ddl.hand = NoHand
  BY <1>1, InvParts, PcOps DEF KeysFit, MovesKeys
<1> DEFINE p == Append(ddl.from, "index")
<1>3. p \in Paths /\ p[3] = "index"
  <2>1. p = <<ddl.from[1], ddl.from[2], "index">> /\ p \in Paths
    BY <1>2, AlterFacts
  <2> HIDE DEF p
  <2>2. QED
    BY <2>1
<1>4. /\ ddl'.pc = "unindex" /\ ddl'.op = ddl.op /\ ddl'.from = ddl.from /\ ddl'.to = ddl.to
      /\ ddl'.rows = ddl.rows /\ ddl'.alter = ddl.alter /\ ddl'.hand = ddl.hand
      /\ ddl'.path = ddl.path /\ ddl'.keys = ddl.keys /\ ddl'.paths = {p}
  BY <1>1, <1>2 DEF DdlTypeOK
<1>5. p = Append(ddl'.from, "index")
  BY <1>4
<1> HIDE DEF p
<1>6. DdlTypeOK'
  BY <1>1, <1>2, <1>3, <1>4 DEF DdlTypeOK
<1>7. OpFits'
  BY <1>1, <1>2, <1>4 DEF OpFits
<1>8. KeysFit'
  BY <1>2, <1>4 DEF KeysFit, MovesKeys
<1>9. RowsFit'
  BY <1>1, <1>3, <1>4, <1>5 DEF RowsFit
<1>10. SchemaOK(catalog)' /\ calm' \subseteq Dbs /\ requests' \in Nat
  BY <1>1, InvParts DEF SchemaOK
<1>11. QED
  BY <1>1, <1>6, <1>7, <1>8, <1>9, <1>10, DdlStep

\* RemoveIndexDir keeps the invariant.
LEMMA RemoveIndexDirInv ==
  ASSUME StoresInv, RemoveIndexDir
  PROVE  StoresInv'
<1>1. PICK p \in ddl.paths :
        /\ present' = present \ {p}
        /\ store' = IF handle[p] = "open" THEN store ELSE [store EXCEPT ![p] = Empty]
        /\ ddl' = [ddl EXCEPT !.pc = "reindex", !.path = p, !.paths = ddl.paths \ {p}]
  BY DEF RemoveIndexDir, Step
<1>2. /\ ddl.pc = "unindex"
      /\ UNCHANGED <<catalog, cache, dirs, handle, buffers, home, calm, expected, indexed,
                     writes, requests>>
  BY DEF RemoveIndexDir, Step
<1>3. /\ ddl.op \in {"alter", "refresh"} /\ OpFits /\ KeysFit /\ RowsFit /\ DdlTypeOK
      /\ StoresOnDisk /\ StoresTypeOK /\ ddl.keys = {} /\ ddl.hand = NoHand /\ ddl.rows = Empty
  BY <1>2, InvParts, PcOps DEF KeysFit, MovesKeys, RowsFit
<1>4. p \in Paths /\ p[3] = "index" /\ \A q \in ddl.paths : q[3] = "index"
  BY <1>2, <1>3 DEF RowsFit, DdlTypeOK
<1>5. ddl.op = "alter" => p = Append(ddl.from, "index")
  BY <1>2, <1>3 DEF RowsFit
<1>6. /\ ddl'.pc = "reindex" /\ ddl'.op = ddl.op /\ ddl'.from = ddl.from /\ ddl'.to = ddl.to
      /\ ddl'.rows = ddl.rows /\ ddl'.alter = ddl.alter /\ ddl'.hand = ddl.hand
      /\ ddl'.path = p /\ ddl'.keys = ddl.keys /\ ddl'.paths = ddl.paths \ {p}
  BY <1>1, <1>3 DEF DdlTypeOK
<1>7. DdlTypeOK'
  BY <1>1, <1>2, <1>3, <1>4, <1>6 DEF DdlTypeOK
<1>8. OpFits'
  BY <1>2, <1>3, <1>6 DEF OpFits
<1>9. KeysFit'
  BY <1>3, <1>6 DEF KeysFit, MovesKeys
<1>10. RowsFit'
  BY <1>3, <1>4, <1>5, <1>6 DEF RowsFit
<1>11. store' = [q \in Paths |-> IF q = p /\ handle[p] # "open" THEN Empty ELSE store[q]]
  BY <1>1, <1>3, <1>4 DEF StoresTypeOK
<1>12. \A q \in Paths : store'[q] = IF q = p /\ handle[p] # "open" THEN Empty ELSE store[q]
  BY <1>11
<1>13. store' \in [Paths -> {store'[q] : q \in Paths}]
  BY <1>11
<1>14. \A q \in Paths : IsMap(store'[q], StoredKeys(q), StoredVals(q))
  BY <1>12, StorageFacts, EmptyMap
<1>15. StoresOnDisk'
  BY <1>1, <1>2, <1>3, <1>4, <1>12 DEF StoresOnDisk
<1>16. /\ handle' \in [Paths -> {"none", "open", "closed"}]
       /\ dirs' \subseteq Folders /\ present' \subseteq Paths
  BY <1>1, <1>2, StorageFacts
<1>17. QED
  BY <1>2, <1>7, <1>8, <1>9, <1>10, <1>13, <1>14, <1>15, <1>16, FolderStep

\* Storage that is left alone keeps what the invariant says of it.
LEMMA StorageKept ==
  ASSUME StoresInv, UNCHANGED storage
  PROVE  /\ handle' \in [Paths -> {"none", "open", "closed"}]
         /\ dirs' \subseteq Folders /\ present' \subseteq Paths
         /\ store' \in [Paths -> {store'[p] : p \in Paths}]
         /\ \A p \in Paths : IsMap(store'[p], StoredKeys(p), StoredVals(p))
         /\ StoresOnDisk'
<1>1. UNCHANGED <<dirs, present, store, handle>>
  BY DEF storage
<1>2. StoresOnDisk
  BY InvParts
<1>3. StoresOnDisk'
  BY <1>1, <1>2 DEF StoresOnDisk
<1>4. QED
  BY <1>1, <1>3, StorageFacts

\* RebuildIndex keeps the invariant.
LEMMA RebuildIndexInv ==
  ASSUME StoresInv, RebuildIndex
  PROVE  StoresInv'
<1> DEFINE table == <<ddl.path[1], ddl.path[2]>>
           rows == GetRows(Append(table, "data"))
           listed(c) == {pk \in DOMAIN rows : {Id, c} \subseteq rows[pk]}
           new == {Append(table, c) : c \in {c \in Cols : listed(c) # {}}}
           val(k) == (IF k \in DOMAIN ibuf THEN ibuf[k] ELSE {})
                     \cup (IF k \in new THEN listed(k[3]) ELSE {})
           place == IF ddl.op = "alter" THEN "reload" ELSE "unindex"
<1>1. /\ ddl.pc = "reindex"
      /\ UNCHANGED <<catalog, cache, storage, ram, home, expected, calm, indexed, writes, requests>>
      /\ \/ ibuf' = ibuf /\ ddl' = NoDdl
         \/ /\ ibuf' = [k \in DOMAIN ibuf \cup new |-> val(k)]
            /\ ddl' = [ddl EXCEPT !.pc = place]
  BY DEF RebuildIndex, history
<1>2. /\ ddl.op \in {"alter", "refresh"} /\ OpFits /\ KeysFit /\ RowsFit /\ DdlTypeOK
      /\ ddl.keys = {} /\ ddl.hand = NoHand /\ ddl.rows = Empty
      /\ ddl.path \in Paths /\ \A q \in ddl.paths : q[3] = "index"
  BY <1>1, InvParts, PcOps DEF KeysFit, MovesKeys, RowsFit
<1>3. table \in Tables
  BY <1>2, PathFacts
<1>4. new \subseteq Dbs \X Tabs \X Cols /\ \A k \in new : k[3] \in Cols
  <2> HIDE DEF table, listed
  <2>1. table[1] \in Dbs /\ table[2] \in Tabs
    BY <1>3, TablePaths
  <2>2. \A c \in Cols : Append(table, c) = <<table[1], table[2], c>>
    BY <1>3, AppendedIs
  <2>3. \A c \in Cols : Append(table, c) \in Dbs \X Tabs \X Cols
    BY <2>1, <2>2
  <2>4. QED
    BY <2>3
<1>5. \A c : listed(c) \subseteq Pks
  <2> HIDE DEF table
  <2> DEFINE p == Append(table, "data")
  <2>1. p \in Paths /\ p[3] = "data"
    <3>1. p = <<table[1], table[2], "data">> /\ p \in Paths
      BY <1>3, TablePaths
    <3> HIDE DEF p
    <3>2. QED
      BY <3>1
  <2> HIDE DEF p
  <2>2. IsMap(GetRows(p), DOMAIN home, SUBSET Cols)
    BY <2>1, GetRowsType
  <2>3. DOMAIN rows \subseteq Pks
    BY <2>2, StorageFacts, MapFacts DEF p
  <2> HIDE DEF rows
  <2>4. QED
    BY <2>3
<1> HIDE DEF table, rows, listed, new
<1>6. IsMap(ibuf', Dbs \X Tabs \X Cols, SUBSET Pks)
  <2>1. IsMap(ibuf, Dbs \X Tabs \X Cols, SUBSET Pks)
    BY StorageFacts
  <2>2. DOMAIN ibuf \cup new \subseteq Dbs \X Tabs \X Cols
    BY <2>1, <1>4, MapFacts
  <2>3. \A k \in DOMAIN ibuf \cup new : val(k) \in SUBSET Pks
    BY <2>1, <1>5, MapFacts
  <2> HIDE DEF val
  <2>4. QED
    BY <2>1, <2>2, <2>3, <1>1 DEF IsMap
<1>7. IsMap(ram', Dbs \X Tabs \X DOMAIN home, SUBSET Cols)
  BY <1>1, StorageFacts
<1>8. /\ handle' \in [Paths -> {"none", "open", "closed"}]
      /\ dirs' \subseteq Folders /\ present' \subseteq Paths
      /\ store' \in [Paths -> {store'[p] : p \in Paths}]
      /\ \A p \in Paths : IsMap(store'[p], StoredKeys(p), StoredVals(p))
      /\ StoresOnDisk'
  BY <1>1, StorageKept
<1>9. DdlTypeOK' /\ OpFits' /\ KeysFit' /\ RowsFit'
  <2>1. CASE ddl' = NoDdl
    BY <2>1, NoDdlFits
  <2>2. CASE ddl' = [ddl EXCEPT !.pc = place]
    <3>1. /\ ddl'.pc = place /\ ddl'.op = ddl.op /\ ddl'.from = ddl.from /\ ddl'.to = ddl.to
          /\ ddl'.rows = ddl.rows /\ ddl'.alter = ddl.alter /\ ddl'.hand = ddl.hand
          /\ ddl'.path = ddl.path /\ ddl'.keys = ddl.keys /\ ddl'.paths = ddl.paths
      BY <2>2, <1>2 DEF DdlTypeOK
    <3>2. DdlTypeOK'
      BY <2>2, <3>1, <1>1, <1>2 DEF DdlTypeOK
    <3>3. OpFits'
      BY <3>1, <1>1, <1>2 DEF OpFits
    <3>4. KeysFit'
      BY <3>1, <1>2 DEF KeysFit, MovesKeys
    <3>5. RowsFit'
      BY <3>1, <1>2 DEF RowsFit
    <3>6. QED
      BY <3>2, <3>3, <3>4, <3>5
  <2>3. QED
    BY <2>1, <2>2, <1>1
<1>10. SchemaOK(cache)' /\ expected' \subseteq expected /\ indexed' \subseteq indexed
  BY <1>1, InvParts DEF SchemaOK
<1>11. QED
  BY <1>1, <1>6, <1>7, <1>8, <1>9, <1>10, WholeStep

\* RefereshDone keeps the invariant.
LEMMA RefereshDoneInv ==
  ASSUME StoresInv, RefereshDone
  PROVE  StoresInv'
BY DdlEnds DEF RefereshDone, Step

-----------------------------------------------------------------------------
(* The schema in memory, and restarts.                                     *)

\* The tables of the databases that are listed make a schema.
LEMMA ListedOK ==
  ASSUME SchemaOK(catalog)
  PROVE  SchemaOK(Listed)
<1> DEFINE tables == Restrict(catalog.tables,
                              {t \in DOMAIN catalog.tables : t[1] \in catalog.dbs})
<1>1. /\ catalog \in [dbs : SUBSET Dbs, tables : {catalog.tables}]
      /\ IsMap(catalog.tables, Tables, SUBSET Cols)
  BY DEF SchemaOK
<1>2. IsMap(tables, Tables, SUBSET Cols)
  BY <1>1 DEF IsMap, Restrict
<1>3. Listed = [catalog EXCEPT !.tables = tables]
  BY DEF Listed
<1> HIDE DEF tables
<1>4. Listed.tables = tables /\ Listed.dbs = catalog.dbs /\ Listed = [dbs |-> catalog.dbs, tables |-> tables]
  BY <1>1, <1>3
<1>5. QED
  BY <1>1, <1>2, <1>4 DEF SchemaOK

\* SetFullSchema keeps the invariant.
LEMMA SetFullSchemaInv ==
  ASSUME StoresInv, SetFullSchema
  PROVE  StoresInv'
<1>1. /\ cache' = Listed /\ ddl' = NoDdl
      /\ UNCHANGED <<catalog, storage, ram, ibuf, home, expected, calm, indexed, writes, requests>>
  BY DEF SetFullSchema, buffers, history
<1>2. SchemaOK(cache)'
  <2>1. SchemaOK(Listed)
    BY InvParts, ListedOK
  <2>2. QED
    BY <2>1, <1>1 DEF SchemaOK
<1>3. /\ handle' \in [Paths -> {"none", "open", "closed"}]
      /\ dirs' \subseteq Folders /\ present' \subseteq Paths
      /\ store' \in [Paths -> {store'[p] : p \in Paths}]
      /\ \A p \in Paths : IsMap(store'[p], StoredKeys(p), StoredVals(p))
      /\ StoresOnDisk'
  BY <1>1, StorageKept
<1>4. /\ IsMap(ram', Dbs \X Tabs \X DOMAIN home, SUBSET Cols)
      /\ IsMap(ibuf', Dbs \X Tabs \X Cols, SUBSET Pks)
  BY <1>1, StorageFacts
<1>5. DdlTypeOK' /\ OpFits' /\ KeysFit' /\ RowsFit'
  BY <1>1, NoDdlFits
<1>6. QED
  BY <1>1, <1>2, <1>3, <1>4, <1>5, WholeStep

\* Restart keeps the invariant.
LEMMA RestartInv ==
  ASSUME StoresInv, Restarted
  PROVE  StoresInv'
<1>1. /\ cache' = Listed /\ ddl' = NoDdl /\ ram' = Empty /\ ibuf' = Empty
      /\ handle' = [p \in Paths |-> IF p \in present THEN "open" ELSE "none"]
      /\ store' = [p \in Paths |-> IF p \in present THEN store[p] ELSE Empty]
      /\ expected' \subseteq expected /\ indexed' \subseteq indexed
      /\ UNCHANGED <<catalog, dirs, present, home, calm, writes, requests>>
  BY DEF Restarted
<1>2. SchemaOK(cache)'
  <2>1. SchemaOK(Listed)
    BY InvParts, ListedOK
  <2>2. QED
    BY <2>1, <1>1 DEF SchemaOK
<1>3. /\ handle' \in [Paths -> {"none", "open", "closed"}]
      /\ store' \in [Paths -> {store'[p] : p \in Paths}]
      /\ \A p \in Paths : handle'[p] = IF p \in present THEN "open" ELSE "none"
      /\ \A p \in Paths : store'[p] = IF p \in present THEN store[p] ELSE Empty
  BY <1>1
<1>4. /\ dirs' \subseteq Folders /\ present' \subseteq Paths
      /\ \A p \in Paths : IsMap(store'[p], StoredKeys(p), StoredVals(p))
  BY <1>1, <1>3, StorageFacts, EmptyMap
<1>5. StoresOnDisk'
  BY <1>1, <1>3, InvParts DEF StoresOnDisk
<1>6. /\ IsMap(ram', Dbs \X Tabs \X DOMAIN home, SUBSET Cols)
      /\ IsMap(ibuf', Dbs \X Tabs \X Cols, SUBSET Pks)
  BY <1>1, EmptyMap
<1>7. DdlTypeOK' /\ OpFits' /\ KeysFit' /\ RowsFit'
  BY <1>1, NoDdlFits
<1>8. QED
  BY <1>1, <1>2, <1>3, <1>4, <1>5, <1>6, <1>7, WholeStep

-----------------------------------------------------------------------------
(* The invariant.                                                          *)

\* The invariant holds at the start.
LEMMA StoresInit ==
  ASSUME Init
  PROVE  StoresInv
<1>1. SchemaOK(catalog) /\ SchemaOK(cache)
  <2> DEFINE t == <<FirstDb, FirstTable>>
  <2>1. t \in Tables /\ FirstCols \in SUBSET Cols /\ FirstDb \in Dbs
    BY TableStoresConstants DEF Tables
  <2> HIDE DEF t
  <2>2. IsMap(Put(Empty, t, FirstCols), Tables, SUBSET Cols)
    BY <2>1, EmptyMap, PutMap
  <2>3. catalog = [dbs |-> {FirstDb}, tables |-> Put(Empty, t, FirstCols)] /\ cache = catalog
    BY DEF Init, t
  <2>4. QED
    BY <2>1, <2>2, <2>3 DEF SchemaOK
<1>2. /\ \A p \in Paths : store[p] = Empty /\ handle[p] = "none"
      /\ store \in [Paths -> {store[p] : p \in Paths}]
      /\ handle \in [Paths -> {"none", "open", "closed"}]
  BY DEF Init
<1>3. DdlTypeOK /\ OpFits /\ KeysFit /\ RowsFit
  <2>1. ddl = NoDdl
    BY DEF Init
  <2>2. DdlTypeOK
    BY <2>1, EmptyMap DEF DdlTypeOK, NoDdl
  <2>3. QED
    BY <2>1, <2>2 DEF OpFits, KeysFit, RowsFit, MovesKeys, NoDdl
<1>4. StoresTypeOK
  BY <1>1, <1>2, <1>3, EmptyMap DEF Init, StoresTypeOK
<1>5. StoresOnDisk
  BY <1>2 DEF Init, StoresOnDisk
<1>6. QED
  BY <1>3, <1>4, <1>5 DEF StoresInv

\* RowStep keeps the invariant.
LEMMA RowStepInv ==
  ASSUME StoresInv, RowStep
  PROVE  StoresInv'
BY InsertInv, UpdateInv, GetDataInv, FlushRowInv, FlushIndexInv DEF RowStep

\* SchemaRequest keeps the invariant.
LEMMA SchemaRequestInv ==
  ASSUME StoresInv, SchemaRequest
  PROVE  StoresInv'
<1>1. ASSUME NEW db \in Dbs, NEW table \in Tabs,
             \/ CreateTable(db, table, FirstCols)
             \/ DeleteTable(db, table)
             \/ \E to \in Tabs : RenameTable(db, table, to)
             \/ \E a \in Alterations : AlterTable(db, table, a)
      PROVE  StoresInv'
  BY <1>1, CreateTableInv, DeletesInv, RenameTableInv, AlterTableInv
<1>2. ASSUME NEW db \in Dbs, CreateDatabase(db) \/ DeleteDatabase(db)
      PROVE  StoresInv'
  BY <1>2, CreateDatabaseInv, DeletesInv
<1>3. ASSUME NEW db \in Dbs, NEW to \in Dbs, RenameDatabase(db, to)
      PROVE  StoresInv'
  BY <1>3, RenameDatabaseInv
<1>4. QED
  BY <1>1, <1>2, <1>3, RefereshIndexInv DEF SchemaRequest

\* SchemaStep keeps the invariant.
LEMMA SchemaStepInv ==
  ASSUME StoresInv, SchemaStep
  PROVE  StoresInv'
<1>1. CASE ScanKeys \/ GetKey \/ DeleteKey \/ SetKey
  BY <1>1, ScanKeysInv, GetKeyInv, DeleteKeyInv, SetKeyInv
<1>2. CASE AlterIndexKeys \/ RenameSchemaKeys \/ RenameFolder \/ DropSchemaKey \/ RemoveFolder
  BY <1>2, AlterIndexKeysInv, RenameSchemaKeysInv, RenameFolderInv, DropSchemaKeyInv,
     RemoveFolderInv
<1>3. CASE ScanRows \/ AlterRow \/ AlterRowPanics \/ AlterIndex
  BY <1>3, ScanRowsInv, AlterRowInv, RestartInv, AlterIndexInv DEF AlterRowPanics
<1>4. CASE RemoveIndexDir \/ RebuildIndex \/ RefereshDone \/ SetFullSchema
  BY <1>4, RemoveIndexDirInv, RebuildIndexInv, RefereshDoneInv, SetFullSchemaInv
<1>5. QED
  BY <1>1, <1>2, <1>3, <1>4 DEF SchemaStep

\* Every step keeps the invariant.
LEMMA StoresStep ==
  ASSUME StoresInv, [Next]_vars
  PROVE  StoresInv'
<1>1. CASE Next
  BY <1>1, RowStepInv, SchemaRequestInv, SchemaStepInv, RestartInv DEF Next, Crash
<1>2. CASE UNCHANGED vars
  <2>1. /\ UNCHANGED <<catalog, cache, storage, buffers, ddl, home, expected, calm, late,
                       indexed, writes, requests>>
    BY <1>2 DEF vars, history
  <2>2. UNCHANGED <<ram, ibuf, dirs, present, store, handle>>
    BY <2>1 DEF storage, buffers
  <2>3. DdlTypeOK' /\ OpFits' /\ KeysFit' /\ RowsFit'
    <3>1. \A p \in Paths : DOMAIN store[p] \subseteq DOMAIN store'[p]
      BY <2>2
    <3>2. QED
      BY <2>1, <2>2, <3>1, DdlKept
  <2>4. /\ handle' \in [Paths -> {"none", "open", "closed"}]
        /\ dirs' \subseteq Folders /\ present' \subseteq Paths
        /\ store' \in [Paths -> {store'[p] : p \in Paths}]
        /\ \A p \in Paths : IsMap(store'[p], StoredKeys(p), StoredVals(p))
        /\ StoresOnDisk'
    BY <2>1, StorageKept
  <2>5. /\ IsMap(ram', Dbs \X Tabs \X DOMAIN home, SUBSET Cols)
        /\ IsMap(ibuf', Dbs \X Tabs \X Cols, SUBSET Pks)
    BY <2>2, StorageFacts
  <2>6. SchemaOK(cache)' /\ expected' \subseteq expected /\ indexed' \subseteq indexed
    BY <2>1, InvParts DEF SchemaOK
  <2>7. QED
    BY <2>1, <2>3, <2>4, <2>5, <2>6, WholeStep
<1>3. QED
  BY <1>1, <1>2

\* The invariant of the stores: what is in a store lies in a directory or the store is still
\* open, and whatever a rename, deletion, alteration or refresh has in its hands fits what is
\* there (schema.go, setup.go, data.go), however saves, reads, flushes and restarts fall in between.
THEOREM StoresInvariant == StoresSpec => []StoresInv
<1>1. Init => StoresInv
  BY StoresInit
<1>2. StoresInv /\ [Next]_vars => StoresInv'
  BY StoresStep
<1>3. QED
  BY <1>1, <1>2, PTL DEF StoresSpec

-----------------------------------------------------------------------------
(* Rows are conserved.                                                     *)

HasRow(p, pk) == p[3] = "data" /\ \E k \in DOMAIN store[p] : k[3] = pk

HandHasRow(pk) == ddl.hand # NoHand /\ ddl.pc = "rowKeys" /\ ddl.hand.key[3] = pk

Somewhere(pk) == pk \in RowsInRam \/ (\E p \in Paths : HasRow(p, pk)) \/ HandHasRow(pk)

\* A row is on disk in the data stores that have a key of it.
LEMMA OnDiskIs ==
  ASSUME NEW paths \in SUBSET Paths, NEW pk \in Pks
  PROVE  pk \in RowsOnDisk(paths) <=> \E p \in paths : HasRow(p, pk)
<1>1. pk \in RowsOnDisk(paths) <=>
        \E p \in paths, k \in UNION {DOMAIN store[q] : q \in Paths} :
          p[3] = "data" /\ k[3] = pk /\ k \in DOMAIN store[p]
  BY DEF RowsOnDisk
<1>2. \A p \in paths : DOMAIN store[p] \subseteq UNION {DOMAIN store[q] : q \in Paths}
  OBVIOUS
<1>3. QED
  BY <1>1, <1>2 DEF HasRow

\* What the property says.
LEMMA ConservedIs ==
  ASSUME StoresInv, RowsConserved
  PROVE  expected \subseteq Pks /\ \A pk \in expected : Somewhere(pk)
<1>1. expected \subseteq Pks
  BY StorageFacts DEF StoresInv, StoresTypeOK
<1>2. \A pk \in expected : pk \in RowsOnDisk(Paths) <=> \E p \in Paths : HasRow(p, pk)
  BY <1>1, OnDiskIs
<1>3. QED
  BY <1>1, <1>2 DEF RowsConserved, Somewhere, HandHasRow

\* What a step owes the property.
LEMMA ConservedAgain ==
  ASSUME expected' \subseteq Pks, \A pk \in expected' : Somewhere(pk)'
  PROVE  RowsConserved'
<1> SUFFICES ASSUME NEW pk \in expected'
             PROVE  \/ pk \in RowsInRam' \cup RowsOnDisk(Paths)'
                    \/ ddl'.hand # NoHand /\ ddl'.pc = "rowKeys" /\ ddl'.hand.key[3] = pk
  BY DEF RowsConserved
<1>1. CASE \E p \in Paths : HasRow(p, pk)'
  <2>1. PICK p \in Paths : HasRow(p, pk)'
    BY <1>1
  <2>2. PICK k \in DOMAIN store'[p] : k[3] = pk /\ p[3] = "data"
    BY <2>1 DEF HasRow
  <2>3. k \in UNION {DOMAIN store'[q] : q \in Paths}
    OBVIOUS
  <2>4. pk \in RowsOnDisk(Paths)'
    BY <2>2, <2>3 DEF RowsOnDisk
  <2>5. QED
    BY <2>4
<1>2. CASE ~ \E p \in Paths : HasRow(p, pk)'
  <2>1. Somewhere(pk)'
    OBVIOUS
  <2>2. QED
    BY <2>1, <1>2 DEF Somewhere, HandHasRow
<1>3. QED
  BY <1>1, <1>2

\* A step conserves rows if those still expected stay somewhere.
LEMMA ConservedStep ==
  ASSUME StoresInv, RowsConserved, expected' \subseteq expected,
         \A pk \in expected' : Somewhere(pk) => Somewhere(pk)'
  PROVE  RowsConserved'
BY ConservedIs, ConservedAgain

\* A step that drops no key of a data store leaves the rows where they are.
LEMMA RowsStay ==
  ASSUME StoresInv, RowsConserved, expected' \subseteq expected, UNCHANGED ram,
         \A p \in Paths : p[3] = "data" => DOMAIN store[p] \subseteq DOMAIN store'[p],
         \A pk \in expected' : ~HandHasRow(pk) \/ HandHasRow(pk)'
  PROVE  RowsConserved'
<1>1. RowsInRam' = RowsInRam
  BY DEF RowsInRam
<1>2. \A p \in Paths, pk \in expected' : HasRow(p, pk) => HasRow(p, pk)'
  BY DEF HasRow
<1>3. \A pk \in expected' : Somewhere(pk) => Somewhere(pk)'
  BY <1>1, <1>2 DEF Somewhere
<1>4. QED
  BY <1>3, ConservedStep

\* Save loses no row.
LEMMA SaveConserves ==
  ASSUME StoresInv, RowsConserved, NEW db \in Dbs, NEW table \in Tabs, NEW pk \in Pks,
         Save(db, table, pk)
  PROVE  RowsConserved'
<1> DEFINE key == <<db, table, pk>>
           cols == cache.tables[<<db, table>>]
<1>1. /\ ram' = Put(ram, key, cols) /\ expected' = expected \cup {pk}
      /\ UNCHANGED <<store, ddl>>
  BY DEF Save, storage
<1>2. key[3] = pk
  OBVIOUS
<1> HIDE DEF key, cols
<1>3. DOMAIN ram' = DOMAIN ram \cup {key}
  BY <1>1, PutFacts
<1>4. RowsInRam' = RowsInRam \cup {pk}
  BY <1>2, <1>3 DEF RowsInRam
<1>5. \A x, p : HasRow(p, x)' <=> HasRow(p, x)
  BY <1>1 DEF HasRow
<1>6. \A x : HandHasRow(x)' <=> HandHasRow(x)
  BY <1>1 DEF HandHasRow
<1>7. \A x \in expected' : Somewhere(x)'
  BY <1>1, <1>4, <1>5, <1>6, ConservedIs DEF Somewhere
<1>8. expected' \subseteq Pks
  BY <1>1, ConservedIs
<1>9. QED
  BY <1>7, <1>8, ConservedAgain

\* FlushRow loses no row.
LEMMA FlushRowConserves ==
  ASSUME StoresInv, RowsConserved, NEW key \in DOMAIN ram, FlushRow(key)
  PROVE  RowsConserved'
<1> DEFINE p == <<key[1], key[2], "data">>
           held == Put(store[p], key, Value(ram[key]))
<1>1. /\ ram' = Drop(ram, key) /\ store' = [store EXCEPT ![p] = held]
      /\ UNCHANGED <<ddl, history>>
  BY DEF FlushRow
<1>2. p \in Paths /\ p[3] = "data"
  <2>1. key \in Dbs \X Tabs \X DOMAIN home
    BY StorageFacts, MapFacts
  <2>2. QED
    BY <2>1, KeyPath
<1> HIDE DEF p
<1>3. DOMAIN held = DOMAIN store[p] \cup {key}
  BY PutFacts
<1> HIDE DEF held
<1>4. /\ store'[p] = held /\ \A q \in Paths : q # p => store'[q] = store[q]
  BY <1>1, <1>2, OneStore, InvParts
<1>5. DOMAIN ram' = DOMAIN ram \ {key}
  BY <1>1, DropFacts
<1>6. HasRow(p, key[3])'
  BY <1>2, <1>3, <1>4 DEF HasRow
<1>7. \A pk : \A q \in Paths : HasRow(q, pk) => HasRow(q, pk)'
  BY <1>3, <1>4 DEF HasRow
<1>8. \A pk : pk \in RowsInRam => pk \in RowsInRam' \/ pk = key[3]
  BY <1>5 DEF RowsInRam
<1>9. \A pk : HandHasRow(pk)' <=> HandHasRow(pk)
  BY <1>1 DEF HandHasRow
<1>10. \A pk : Somewhere(pk) => Somewhere(pk)'
  BY <1>2, <1>6, <1>7, <1>8, <1>9 DEF Somewhere
<1>11. expected' \subseteq expected
  BY <1>1 DEF history
<1>12. QED
  BY <1>10, <1>11, ConservedStep

\* FlushIndex loses no row.
LEMMA FlushIndexConserves ==
  ASSUME StoresInv, RowsConserved, NEW key \in DOMAIN ibuf, FlushIndex(key)
  PROVE  RowsConserved'
<1> DEFINE p == <<key[1], key[2], "index">>
<1>1. /\ store' = store \/ \E held : store' = [store EXCEPT ![p] = held]
      /\ UNCHANGED <<ram, ddl, history>>
  BY DEF FlushIndex
<1>2. p \in Paths /\ p[3] = "index"
  <2>1. key \in Dbs \X Tabs \X Cols
    BY StorageFacts, MapFacts
  <2>2. QED
    BY <2>1, KeyPath
<1> HIDE DEF p
<1>3. \A q \in Paths : q[3] = "data" => store'[q] = store[q]
  <2>1. CASE \E held : store' = [store EXCEPT ![p] = held]
    BY <2>1, <1>2, OneStore, InvParts
  <2>2. QED
    BY <2>1, <1>1
<1>4. \A pk : HandHasRow(pk)' <=> HandHasRow(pk)
  BY <1>1 DEF HandHasRow
<1>5. expected' \subseteq expected
  BY <1>1 DEF history
<1>6. QED
  BY <1>1, <1>3, <1>4, <1>5, RowsStay

\* RowStep loses no row.
LEMMA RowStepConserves ==
  ASSUME StoresInv, RowsConserved, RowStep
  PROVE  RowsConserved'
<1>1. ASSUME NEW db \in Dbs, NEW table \in Tabs, NEW pk \in Pks,
             Insert(db, table, pk) \/ Update(db, table, pk)
      PROVE  RowsConserved'
  BY <1>1, SaveConserves DEF Insert, Update
<1>2. ASSUME NEW db \in Dbs, NEW table \in Tabs, GetData(db, table)
      PROVE  RowsConserved'
  <2>1. UNCHANGED <<store, ram, ddl, expected>>
    BY <1>2 DEF GetData, buffers, history
  <2>2. \A pk : HandHasRow(pk)' <=> HandHasRow(pk)
    BY <2>1 DEF HandHasRow
  <2>3. QED
    BY <2>1, <2>2, RowsStay
<1>3. QED
  BY <1>1, <1>2, FlushRowConserves, FlushIndexConserves DEF RowStep

\* A request begins with nothing in its hand, and moves no row.
LEMMA RequestConserves ==
  ASSUME StoresInv, RowsConserved, SchemaRequest
  PROVE  RowsConserved'
<1>1. \E t : Requested(t)
  BY DEF SchemaRequest, CreateTable, DeleteTable, RenameTable, AlterTable, CreateDatabase,
         DeleteDatabase, RenameDatabase, RefereshIndex, Rename, Delete
<1>2. ddl = NoDdl /\ UNCHANGED <<store, ram, expected>>
  BY <1>1, RequestedFacts DEF storage, buffers
<1>3. \A pk : ~HandHasRow(pk)
  BY <1>2 DEF HandHasRow, NoDdl
<1>4. QED
  BY <1>2, <1>3, RowsStay

\* A request has a row in its hand only while it goes through rows.
LEMMA HandEmpty ==
  ASSUME StoresInv, ddl.pc # "rowKeys" \/ ddl.keys = {} \/ ddl.hand = NoHand
  PROVE  \A pk : ~HandHasRow(pk)
BY InvParts DEF HandHasRow

\* DeleteKey loses no row.
LEMMA DeleteKeyConserves ==
  ASSUME StoresInv, RowsConserved, DeleteKey
  PROVE  RowsConserved'
<1> DEFINE p == ddl.path
           k == ddl.hand.key
           held == Drop(store[p], k)
           hand == [ddl.hand EXCEPT !.dropped = TRUE]
<1>1. /\ ddl.hand # NoHand
      /\ store' = [store EXCEPT ![p] = held]
      /\ ddl' = [ddl EXCEPT !.hand = hand]
      /\ UNCHANGED <<ram, expected>>
  BY DEF DeleteKey, Step, buffers
<1>2. /\ p \in Paths /\ Moved(p) /\ MovesKeys /\ ddl.hand \in Hands /\ DdlTypeOK
  BY <1>1, HandFacts, InvParts
<1>3. hand \in Hands /\ hand # NoHand /\ hand.key = k
  <2>1. hand \in Hands /\ hand.key = k
    BY <1>2 DEF Hands
  <2>2. QED
    BY <2>1, TableStoresConstants
<1>4. DOMAIN held = DOMAIN store[p] \ {k}
  BY DropFacts
<1> HIDE DEF held, hand
<1>5. ddl'.pc = ddl.pc /\ ddl'.hand = hand
  BY <1>1, <1>2 DEF DdlTypeOK
<1> HIDE DEF p
<1>6. store'[p] = held /\ \A q \in Paths : q # p => store'[q] = store[q]
  BY <1>1, <1>2, OneStore, InvParts
<1>7. \A pk : HandHasRow(pk) => HandHasRow(pk)'
  BY <1>3, <1>5 DEF HandHasRow
<1>8. p[3] = "data" => ddl.pc = "rowKeys"
  BY <1>2 DEF Moved, MovesKeys
<1>9. \A pk : \A q \in Paths : HasRow(q, pk) => HasRow(q, pk)' \/ HandHasRow(pk)'
  BY <1>3, <1>4, <1>5, <1>6, <1>8 DEF HasRow, HandHasRow
<1>10. RowsInRam' = RowsInRam
  BY <1>1 DEF RowsInRam
<1>11. \A pk : Somewhere(pk) => Somewhere(pk)'
  BY <1>7, <1>9, <1>10 DEF Somewhere
<1>12. QED
  BY <1>1, <1>11, ConservedStep

\* SetKey loses no row.
LEMMA SetKeyConserves ==
  ASSUME StoresInv, RowsConserved, SetKey
  PROVE  RowsConserved'
<1> DEFINE p == ddl.path
           k == ddl.hand.key
           j == Renamed(ddl.hand.key)
           val == [ddl.hand.val EXCEPT !.enc = ddl.hand.val.enc + 1]
           held == Put(store[p], j, val)
<1>1. /\ ddl.hand # NoHand
      /\ store' = [store EXCEPT ![p] = held]
      /\ UNCHANGED <<ram, expected>>
  BY DEF SetKey, Step, buffers
<1>2. /\ p \in Paths /\ Moved(p) /\ MovesKeys /\ ddl.op = "rename" /\ k \in StoredKeys(p)
  BY <1>1, HandFacts
<1>3. j[3] = k[3]
  <2>1. ddl.to \in Folders
    BY <1>2, InvParts DEF OpFits
  <2>2. QED
    BY <2>1, <1>2, RenamedStored
<1> HIDE DEF val, j
<1>4. DOMAIN held = DOMAIN store[p] \cup {j}
  BY PutFacts
<1> HIDE DEF held, p, k
<1>5. store'[p] = held /\ \A q \in Paths : q # p => store'[q] = store[q]
  BY <1>1, <1>2, OneStore, InvParts
<1>6. \A pk : \A q \in Paths : HasRow(q, pk) => HasRow(q, pk)'
  BY <1>4, <1>5 DEF HasRow
<1>7. \A pk : HandHasRow(pk) => \E q \in Paths : HasRow(q, pk)'
  <2>1. PICK q \in Paths : q = p
    BY <1>2
  <2>2. \A pk : HandHasRow(pk) => pk = k[3] /\ ddl.pc = "rowKeys"
    BY DEF HandHasRow, k
  <2>3. ddl.pc = "rowKeys" => q[3] = "data"
    BY <2>1, <1>2 DEF Moved
  <2>4. j \in DOMAIN store'[q]
    BY <2>1, <1>4, <1>5
  <2>5. \A pk : HandHasRow(pk) => HasRow(q, pk)'
    BY <2>2, <2>3, <2>4, <1>3 DEF HasRow
  <2>6. QED
    BY <2>5
<1>8. RowsInRam' = RowsInRam
  BY <1>1 DEF RowsInRam
<1>9. \A pk : Somewhere(pk) => Somewhere(pk)'
  BY <1>2, <1>6, <1>7, <1>8 DEF Somewhere
<1>10. QED
  BY <1>1, <1>9, ConservedStep

\* AlterRow loses no row.
LEMMA AlterRowConserves ==
  ASSUME StoresInv, RowsConserved, AlterRow
  PROVE  RowsConserved'
<1> DEFINE p == ddl.path
<1>1. /\ ddl.pc = "rows" /\ UNCHANGED <<ram, expected>>
      /\ store' = store \/ \E key, val : store' = [store EXCEPT ![p] = Put(store[p], key, val)]
      /\ ddl.rows # Empty
  <2>1. ddl.rows # Empty
    BY EmptyMap DEF AlterRow
  <2>2. QED
    BY <2>1 DEF AlterRow, Step, buffers
<1>2. p \in Paths
  <2>1. ddl.op = "alter" /\ p = Append(ddl.from, "data")
    BY <1>1, InvParts, PcOps DEF RowsFit
  <2>2. QED
    BY <2>1, AlterFacts
<1> HIDE DEF p
<1>3. \A q \in Paths : DOMAIN store[q] \subseteq DOMAIN store'[q]
  <2>1. ASSUME NEW key, NEW val, store' = [store EXCEPT ![p] = Put(store[p], key, val)]
        PROVE  \A q \in Paths : DOMAIN store[q] \subseteq DOMAIN store'[q]
    <3> DEFINE held == Put(store[p], key, val)
    <3>1. DOMAIN store[p] \subseteq DOMAIN held
      <4> DEFINE f == store[p]
      <4>1. DOMAIN Put(f, key, val) = DOMAIN f \cup {key}
        BY PutFacts
      <4>2. QED
        BY <4>1
    <3> HIDE DEF held
    <3>2. store'[p] = held /\ \A q \in Paths : q # p => store'[q] = store[q]
      BY <2>1, <1>2, OneStore, InvParts DEF held
    <3>3. QED
      BY <3>1, <3>2
  <2>2. QED
    BY <2>1, <1>1
<1>4. QED
  BY <1>1, <1>3, HandEmpty, RowsStay

\* RemoveIndexDir loses no row.
LEMMA RemoveIndexDirConserves ==
  ASSUME StoresInv, RowsConserved, RemoveIndexDir
  PROVE  RowsConserved'
<1>1. PICK p \in ddl.paths :
        store' = IF handle[p] = "open" THEN store ELSE [store EXCEPT ![p] = Empty]
  BY DEF RemoveIndexDir
<1>2. ddl.pc = "unindex" /\ UNCHANGED <<ram, expected>>
  BY DEF RemoveIndexDir, Step, buffers
<1>3. p \in Paths /\ p[3] = "index"
  BY <1>2, InvParts DEF RowsFit, DdlTypeOK
<1>4. \A q \in Paths : q[3] = "data" => store'[q] = store[q]
  BY <1>1, <1>3, OneStore, InvParts
<1>5. QED
  BY <1>2, <1>4, HandEmpty, RowsStay

\* The steps that touch neither rows nor stores.
LEMMA QuietConserves ==
  ASSUME StoresInv, RowsConserved,
         \/ ScanKeys \/ GetKey \/ AlterIndexKeys \/ RenameSchemaKeys \/ DropSchemaKey
         \/ ScanRows \/ AlterIndex \/ RebuildIndex \/ RefereshDone \/ SetFullSchema
  PROVE  RowsConserved'
<1>1. UNCHANGED <<store, ram, expected>>
  BY DEF ScanKeys, GetKey, AlterIndexKeys, RenameSchemaKeys, DropSchemaKey, ScanRows, AlterIndex,
         RebuildIndex, RefereshDone, SetFullSchema, Step, storage, buffers, history
<1>2. ddl.pc # "rowKeys" \/ ddl.keys = {} \/ ddl.hand = NoHand
  BY DEF ScanKeys, GetKey, AlterIndexKeys, RenameSchemaKeys, DropSchemaKey, ScanRows, AlterIndex,
         RebuildIndex, RefereshDone, SetFullSchema, Scanned
<1>3. QED
  BY <1>1, <1>2, HandEmpty, RowsStay

\* A data store that is not empty has a directory, and so has its table and its database.
LEMMA RowsHaveFolders ==
  ASSUME StoresInv, NEW p \in Paths, NEW pk, HasRow(p, pk)
  PROVE  p \in present /\ p[3] = "data" /\ <<p[1], p[2]>> \in dirs /\ <<p[1]>> \in dirs
<1>1. store[p] # Empty /\ p[3] = "data"
  BY EmptyMap DEF HasRow
<1>2. p \in present
  BY <1>1, InvParts DEF StoresOnDisk
<1>3. QED
  BY <1>1, <1>2, InvParts DEF StoresOnDisk

\* A folder is renamed with its stores, and only to where there is none.
LEMMA RenameFolderConserves ==
  ASSUME StoresInv, RowsConserved, RenameFolder
  PROVE  RowsConserved'
<1> DEFINE from == ddl.from
           to == ddl.to
           db == <<ddl.from[1]>>
           kept == Kept(<<ddl.from[1]>>)
           src(p) == from \o SubSeq(p, Len(from) + 1, 3)
<1>1. ddl.pc = "folder" /\ UNCHANGED <<ram, expected>>
  BY DEF RenameFolder, Step, buffers
<1>2. /\ StoresTypeOK /\ StoresOnDisk
      /\ ddl.op = "rename" /\ ddl.from \in Folders /\ ddl.to \in Folders
      /\ Len(ddl.from) = Len(ddl.to) /\ ddl.from # ddl.to
  BY <1>1, InvParts, PcOps DEF OpFits
<1>3. \A p \in Paths : kept[p] = IF Under(p, db) /\ p \notin present THEN Empty ELSE store[p]
  BY <1>2, KeptFacts
<1>4. \A pk : \A p \in Paths : HasRow(p, pk) =>
        /\ p \in present /\ kept[p] = store[p] /\ <<p[1], p[2]>> \in dirs /\ <<p[1]>> \in dirs
  BY <1>3, RowsHaveFolders
<1>5. \A pk : ~HandHasRow(pk)
  BY <1>1, HandEmpty
<1>6. RowsInRam' = RowsInRam
  BY <1>1 DEF RowsInRam
<1>7. CASE store' = kept
  <2>1. \A pk : \A p \in Paths : HasRow(p, pk) => HasRow(p, pk)'
    BY <1>4, <1>7 DEF HasRow
  <2>2. \A pk : Somewhere(pk) => Somewhere(pk)'
    BY <2>1, <1>5, <1>6 DEF Somewhere
  <2>3. QED
    BY <2>2, <1>1, ConservedStep
<1>8. CASE /\ to \notin dirs
           /\ store' = [p \in Paths |-> IF Under(p, to) THEN kept[src(p)]
                                        ELSE IF Under(p, from) THEN Empty ELSE kept[p]]
  <2>1. \A p \in Paths : store'[p] = IF Under(p, to) THEN kept[src(p)]
                                     ELSE IF Under(p, from) THEN Empty ELSE kept[p]
    BY <1>8
  <2>2. ASSUME NEW pk, NEW p \in Paths, HasRow(p, pk)
        PROVE  \E q \in Paths : HasRow(q, pk)'
    <3>1. CASE Under(p, from)
      <4>1. PICK q \in Paths : q = Renamed(p) /\ q[3] = p[3] /\ Under(q, to) /\ src(q) = p
        BY <3>1, <1>2, MovedPaths
      <4>2. store'[q] = store[p]
        <5>1. store'[q] = kept[src(q)]
          BY <4>1, <2>1
        <5> HIDE DEF src, kept
        <5>2. QED
          BY <5>1, <4>1, <2>2, <1>4
      <4>3. QED
        BY <4>1, <4>2, <2>2 DEF HasRow
    <3>2. CASE ~Under(p, from)
      <4>1. ~Under(p, to)
        <5>1. Under(p, to) => to = <<p[1]>> \/ to = <<p[1], p[2]>>
          BY <1>2, UnderFacts DEF Paths
        <5>2. QED
          BY <5>1, <2>2, <1>4, <1>8
      <4>2. store'[p] = store[p]
        BY <4>1, <3>2, <2>1, <2>2, <1>4
      <4>3. QED
        BY <4>2, <2>2 DEF HasRow
    <3>3. QED
      BY <3>1, <3>2
  <2>3. \A pk : Somewhere(pk) => Somewhere(pk)'
    BY <2>2, <1>5, <1>6 DEF Somewhere
  <2>4. QED
    BY <2>3, <1>1, ConservedStep
<1>9. QED
  BY <1>7, <1>8 DEF RenameFolder

\* A folder is removed with the rows that are nowhere else, which are no longer expected.
LEMMA RemoveFolderConserves ==
  ASSUME StoresInv, RowsConserved, RemoveFolder
  PROVE  RowsConserved'
<1> DEFINE gone == {p \in Paths : Under(p, ddl.path)}
<1>1. /\ ddl.pc = "dropFolder" /\ UNCHANGED ram
      /\ store' = [p \in Paths |-> IF p \in gone THEN Empty ELSE store[p]]
      /\ expected' = expected \ (RowsOnDisk(gone) \ (RowsInRam \cup RowsOnDisk(Paths \ gone)))
  BY DEF RemoveFolder, Step, buffers
<1>2. gone \in SUBSET Paths /\ Paths \ gone \in SUBSET Paths
  OBVIOUS
<1> HIDE DEF gone
<1>3. \A pk : ~HandHasRow(pk)
  BY <1>1, HandEmpty
<1>4. RowsInRam' = RowsInRam
  BY <1>1 DEF RowsInRam
<1>5. \A pk : \A p \in Paths \ gone : HasRow(p, pk) => HasRow(p, pk)'
  BY <1>1 DEF HasRow
<1>6. ASSUME NEW pk \in expected', Somewhere(pk)
      PROVE  Somewhere(pk)'
  <2>1. pk \in Pks /\ pk \in expected
    BY <1>1, ConservedIs
  <2>2. CASE pk \in RowsInRam
    BY <2>2, <1>4 DEF Somewhere
  <2>3. CASE \E p \in Paths \ gone : HasRow(p, pk)
    BY <2>3, <1>5 DEF Somewhere
  <2>4. CASE pk \notin RowsInRam /\ ~ \E p \in Paths \ gone : HasRow(p, pk)
    <3>1. \E p \in gone : HasRow(p, pk)
      BY <2>4, <1>3, <1>6 DEF Somewhere
    <3>2. pk \in RowsOnDisk(gone) /\ pk \notin RowsOnDisk(Paths \ gone)
      BY <3>1, <2>1, <2>4, <1>2, OnDiskIs
    <3>3. QED
      BY <3>2, <2>1, <2>4, <1>1
  <2>5. QED
    BY <2>2, <2>3, <2>4
<1>7. QED
  BY <1>1, <1>6, ConservedStep

\* A restart keeps the rows of the directories there are.
LEMMA RestartConserves ==
  ASSUME StoresInv, RowsConserved, Restarted
  PROVE  RowsConserved'
<1>1. /\ store' = [p \in Paths |-> IF p \in present THEN store[p] ELSE Empty]
      /\ expected' = expected \cap RowsOnDisk(present)
  BY DEF Restarted
<1>2. present \in SUBSET Paths
  BY StorageFacts
<1>3. ASSUME NEW pk \in expected'
      PROVE  Somewhere(pk)'
  <2>1. pk \in Pks /\ pk \in RowsOnDisk(present)
    BY <1>1, ConservedIs
  <2>2. PICK p \in present : HasRow(p, pk)
    BY <2>1, <1>2, OnDiskIs
  <2>3. p \in Paths /\ store'[p] = store[p]
    BY <1>1, <1>2
  <2>4. HasRow(p, pk)'
    BY <2>2, <2>3 DEF HasRow
  <2>5. QED
    BY <2>3, <2>4 DEF Somewhere
<1>4. QED
  BY <1>1, <1>3, ConservedStep

\* Every step conserves rows.
LEMMA ConservedNext ==
  ASSUME StoresInv, RowsConserved, [Next]_vars
  PROVE  RowsConserved'
<1>1. CASE SchemaStep
  <2>1. CASE DeleteKey \/ SetKey \/ RenameFolder \/ RemoveFolder
    BY <2>1, DeleteKeyConserves, SetKeyConserves, RenameFolderConserves, RemoveFolderConserves
  <2>2. CASE AlterRow \/ AlterRowPanics \/ RemoveIndexDir
    BY <2>2, AlterRowConserves, RestartConserves, RemoveIndexDirConserves DEF AlterRowPanics
  <2>3. CASE \/ ScanKeys \/ GetKey \/ AlterIndexKeys \/ RenameSchemaKeys \/ DropSchemaKey
             \/ ScanRows \/ AlterIndex \/ RebuildIndex \/ RefereshDone \/ SetFullSchema
    BY <2>3, QuietConserves
  <2>4. QED
    BY <1>1, <2>1, <2>2, <2>3 DEF SchemaStep
<1>2. CASE UNCHANGED vars
  <2>1. UNCHANGED <<store, ram, expected, ddl>>
    BY <1>2 DEF vars, storage, buffers, history
  <2>2. \A pk : HandHasRow(pk)' <=> HandHasRow(pk)
    BY <2>1 DEF HandHasRow
  <2>3. QED
    BY <2>1, <2>2, RowsStay
<1>3. QED
  BY <1>1, <1>2, RowStepConserves, RequestConserves, RestartConserves DEF Next, Crash

\* No row is lost but with the folder a deletion removes or by a restart before it is on disk:
\* whatever is renamed, altered and dropped, and however the flushes fall in between, it is in
\* RAM, in a data store, or in the hands of the request that moves it (schema.go, data.go).
THEOREM StoresConserveRows == StoresSpec => []RowsConserved
<1>1. Init => RowsConserved
  BY DEF Init, RowsConserved
<1>2. RowsConserved /\ StoresInv /\ [Next]_vars => RowsConserved'
  BY ConservedNext
<1>3. QED
  BY <1>1, <1>2, StoresInvariant, PTL DEF StoresSpec
=============================================================================
