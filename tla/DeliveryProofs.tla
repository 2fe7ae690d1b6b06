--------------------------- MODULE DeliveryProofs ---------------------------
(***************************************************************************)
(* Proofs about Connection: no message of an answer is lost, repeated or   *)
(* moved on its way to the task that waits for it (DeliveryInv); a copy    *)
(* that finish reports was carried out (CommitInv); the Connection         *)
(* implements the Pipeline (PageInv); a copy that was carried out was      *)
(* finished, and no item of it is lost or sent twice (ItemsInv).  Each of  *)
(* these invariants of ConnectionInv is inductive, given IInv.             *)
(***************************************************************************)
EXTENDS ConnectionProofs, FiniteSetTheorems

\* The server's last word is at most one message.
LEMMA OwnLen ==
  ASSUME NEW s \in Seq(Msg)
  PROVE  /\ Own(s) \in Nat /\ Own(s) <= Len(s) /\ Len(s) \in Nat
         /\ (s = <<>> \/ s[Len(s)].kind # "fatal") => Own(s) = Len(s)
<1>1. s # <<>> => Len(s) \in Nat /\ Len(s) >= 1
  OBVIOUS
<1> QED BY <1>1 DEF Own

\* The messages of an answer in a batch put behind others.
LEMMA OwnConcat ==
  ASSUME NEW s \in Seq(Msg), NEW c \in Chunk
  PROVE  Own(s \o c) = Len(s) + Own(c)
<1>1. c \in Seq(Msg) /\ Len(c) \in Nat /\ Len(c) >= 1 /\ Len(s) \in Nat /\ c # <<>>
  BY DEF Chunk
<1>2. /\ Len(s \o c) = Len(s) + Len(c) /\ (s \o c)[Len(s) + Len(c)] = c[Len(c)]
      /\ s \o c # <<>>
  BY <1>1
<1> QED BY <1>1, <1>2 DEF Own

\* What the places of the messages are about, but for a chunk that is held.
placeVars == <<fromServer, inbox, emitted>>

\* The places are kept by a step that moves no message of an answer.
LEMMA KeptPlaces ==
  ASSUME FatalInv, PlaceInv, PagedInv, UNCHANGED placeVars, Completed' = Completed,
         UNCHANGED pendingResponses \/ (~Holds /\ ~Holds'), serverClosed => serverClosed'
  PROVE  FatalInv' /\ PlaceInv' /\ PagedInv'
<1>1. Holds' = Holds /\ (Holds => pendingResponses' = pendingResponses)
  BY DEF Holds, IsAsyncChunk, IsAsync
<1>2. FatalInv'
  BY <1>1 DEF FatalInv, Dry, placeVars
<1>3. \A r \in Request : Decoded(r)' = Decoded(r)
  BY <1>1 DEF Decoded, placeVars
<1>4. PlaceInv'
  BY <1>3 DEF PlaceInv, placeVars
<1>5. PagedInv'
  BY <1>1 DEF PagedInv, PagedInOrder, placeVars
<1> QED BY <1>2, <1>4, <1>5

\* Decoded counts are numbers.
LEMMA DecodedType ==
  ASSUME IInv, NEW r \in Request PROVE Decoded(r) \in Nat
<1>1. inbox[r] \in Seq(Msg)
  BY DEF IInv, TypeOK, ConnTypeOK
<1>2. Holds => pendingResponses[1] \in Seq(Msg)
  BY DEF IInv, TypeOK, ConnTypeOK, Holds, Chunk
<1> QED BY <1>1, <1>2, OwnLen DEF Decoded

\* A message joins the stream.
LEMMA PlaceAppend ==
  ASSUME IInv, PlaceInv, NEW m \in Msg,
         Len(fromServer') = Len(fromServer) + 1, fromServer'[Len(fromServer) + 1] = m,
         \A i \in 1 .. Len(fromServer) : fromServer'[i] = fromServer[i],
         \A r \in Request : Decoded(r)' = Decoded(r),
         \A r \in Request : r # m.req => emitted'[r] = emitted[r],
         m.req \in Request => m.idx = emitted[m.req] + 1 /\ emitted'[m.req] = m.idx
  PROVE  PlaceInv'
<1> DEFINE n == Len(fromServer)
<1>0. fromServer \in Seq(Msg) /\ n \in Nat /\ emitted \in [Request -> Nat]
  BY DEF IInv, TypeOK, WireTypeOK, ServerTypeOK
<1>1. \A i \in 1 .. n : fromServer[i].idx \in Nat
  BY <1>0 DEF Msg
<1> SUFFICES ASSUME NEW r \in Request
             PROVE  /\ (\A i \in 1 .. Len(fromServer') : fromServer'[i].req # r) =>
                         emitted'[r] = Decoded(r)'
                    /\ \A i \in 1 .. Len(fromServer') : fromServer'[i].req = r =>
                         /\ (\A j \in 1 .. i - 1 : fromServer'[j].req # r) =>
                              fromServer'[i].idx = Decoded(r)' + 1
                         /\ (\A j \in i + 1 .. Len(fromServer') : fromServer'[j].req # r) =>
                              emitted'[r] = fromServer'[i].idx
                         /\ \A j \in i + 1 .. Len(fromServer') : fromServer'[j].req = r =>
                              /\ (\A k \in i .. j : fromServer'[k].req = r) =>
                                   fromServer'[j].idx = fromServer'[i].idx + (j - i)
                              /\ (\A k \in i + 1 .. j - 1 : fromServer'[k].req # r) =>
                                   fromServer'[j].idx = fromServer'[i].idx + 1
  BY DEF PlaceInv
<1>2. Decoded(r) \in Nat /\ emitted[r] \in Nat
  BY <1>0, DecodedType
<1>3. ASSUME NEW i \in 1 .. n + 1, i # n + 1
      PROVE  i \in 1 .. n /\ fromServer'[i] = fromServer[i]
  BY <1>0, <1>3
<1>4. n + 1 \in 1 .. n + 1 /\ \A i \in 1 .. n : i \in 1 .. n + 1
  BY <1>0
<1>5. ASSUME \A i \in 1 .. n + 1 : fromServer'[i].req # r PROVE emitted'[r] = Decoded(r)
  <2>1. r # m.req /\ \A i \in 1 .. n : fromServer[i].req # r
    BY <1>4, <1>5
  <2> QED BY <2>1 DEF PlaceInv
<1>6. ASSUME NEW i \in 1 .. n + 1, fromServer'[i].req = r,
             \A j \in 1 .. i - 1 : fromServer'[j].req # r
      PROVE  fromServer'[i].idx = Decoded(r) + 1
  <2>1. CASE i = n + 1
    <3>1. \A j \in 1 .. n : fromServer[j].req # r
      BY <1>0, <1>6, <2>1
    <3>2. emitted[r] = Decoded(r) /\ m.req = r
      BY <1>6, <2>1, <3>1 DEF PlaceInv
    <3> QED BY <2>1, <3>2
  <2>2. CASE i # n + 1
    <3>1. i \in 1 .. n /\ fromServer'[i] = fromServer[i]
      BY <1>3, <2>2
    <3>2. \A j \in 1 .. i - 1 : fromServer[j].req # r
      <4>1. \A j \in 1 .. i - 1 : j \in 1 .. n
        BY <1>0, <3>1
      <4> QED BY <1>6, <4>1
    <3> QED BY <1>6, <3>1, <3>2 DEF PlaceInv
  <2> QED BY <2>1, <2>2
<1>7. ASSUME NEW i \in 1 .. n + 1, fromServer'[i].req = r,
             \A j \in i + 1 .. n + 1 : fromServer'[j].req # r
      PROVE  emitted'[r] = fromServer'[i].idx
  <2>1. CASE i = n + 1
    BY <1>7, <2>1
  <2>2. CASE i # n + 1
    <3>1. i \in 1 .. n /\ fromServer'[i] = fromServer[i] /\ n + 1 \in i + 1 .. n + 1
      BY <1>0, <1>3, <2>2
    <3>2. r # m.req
      BY <1>7, <3>1
    <3>3. \A j \in i + 1 .. n : j \in i + 1 .. n + 1 /\ j \in 1 .. n
      BY <1>0, <3>1
    <3>4. \A j \in i + 1 .. n : fromServer[j].req # r
      BY <1>7, <3>3
    <3> QED BY <1>7, <3>1, <3>2, <3>4 DEF PlaceInv
  <2> QED BY <2>1, <2>2
<1>8. ASSUME NEW i \in 1 .. n + 1, fromServer'[i].req = r, NEW j \in i + 1 .. n + 1,
             fromServer'[j].req = r
      PROVE  /\ (\A k \in i .. j : fromServer'[k].req = r) =>
                  fromServer'[j].idx = fromServer'[i].idx + (j - i)
             /\ (\A k \in i + 1 .. j - 1 : fromServer'[k].req # r) =>
                  fromServer'[j].idx = fromServer'[i].idx + 1
  <2>1. i \in 1 .. n /\ fromServer'[i] = fromServer[i]
    BY <1>0, <1>3
  <2>2. CASE j # n + 1
    <3>1. j \in i + 1 .. n /\ j \in 1 .. n /\ fromServer'[j] = fromServer[j]
      BY <1>0, <1>3, <2>1, <2>2
    <3>2. \A k \in i .. j : k \in 1 .. n /\ fromServer'[k] = fromServer[k]
      BY <1>0, <2>1, <3>1
    <3>3. \A k \in i + 1 .. j - 1 : k \in i .. j
      BY <1>0, <2>1, <3>1
    <3> QED BY <1>8, <2>1, <3>1, <3>2, <3>3 DEF PlaceInv
  <2>3. CASE j = n + 1
    <3>1. m.req = r /\ fromServer'[j].idx = emitted[r] + 1
      BY <1>8, <2>3
    <3>2. n \in 1 .. n /\ n \in i .. j
      BY <1>0, <2>1, <2>3
    <3>3. ASSUME \A k \in i + 1 .. j - 1 : fromServer'[k].req # r
          PROVE  fromServer'[j].idx = fromServer'[i].idx + 1
      <4>1. \A k \in i + 1 .. n : k \in i + 1 .. j - 1 /\ k \in 1 .. n
        BY <1>0, <2>1, <2>3
      <4>2. \A k \in i + 1 .. n : fromServer[k].req # r
        BY <3>3, <4>1
      <4>3. emitted[r] = fromServer[i].idx
        BY <1>8, <2>1, <4>2 DEF PlaceInv
      <4> QED BY <2>1, <3>1, <4>3
    <3>4. ASSUME \A k \in i .. j : fromServer'[k].req = r
          PROVE  fromServer'[j].idx = fromServer'[i].idx + (j - i)
      <4>1. fromServer[n].req = r
        BY <3>2, <3>4
      <4>2. n + 1 .. n = {}
        BY <1>0
      <4>3. emitted[r] = fromServer[n].idx
        BY <3>2, <4>1, <4>2 DEF PlaceInv
      <4>4. CASE i = n
        BY <1>0, <1>2, <2>1, <2>3, <3>1, <4>3, <4>4
      <4>5. CASE i # n
        <5>1. n \in i + 1 .. n /\ \A k \in i .. n : k \in i .. j /\ k \in 1 .. n
          BY <1>0, <2>1, <2>3, <4>5
        <5>2. \A k \in i .. n : fromServer[k].req = r
          BY <3>4, <5>1
        <5>3. fromServer[n].idx = fromServer[i].idx + (n - i)
          BY <1>8, <2>1, <4>1, <5>1, <5>2 DEF PlaceInv
        <5>4. fromServer[i].idx \in Nat /\ i \in Int
          BY <1>1, <2>1
        <5> QED BY <1>0, <2>1, <2>3, <3>1, <4>3, <5>3, <5>4
      <4> QED BY <4>4, <4>5
    <3> QED BY <3>3, <3>4
  <2> QED BY <2>2, <2>3
<1> QED BY <1>5, <1>6, <1>7, <1>8

\* Positions behind the first k, and where they are once those have left.
LEMMA ShiftBack ==
  ASSUME NEW k \in Int, NEW l \in Int, NEW a \in Int, NEW b \in Int, 1 <= a, b + k <= l,
         NEW x \in a + k .. b + k
  PROVE  x - k \in a .. b /\ x \in k + 1 .. l
OBVIOUS

\* The first k messages leave the stream: n of q's answer, and none of another.
LEMMA PlaceShift ==
  ASSUME IInv, PlaceInv, NEW k \in 1 .. Len(fromServer), NEW n \in 0 .. k, NEW q,
         fromServer' = SubSeq(fromServer, k + 1, Len(fromServer)), emitted' = emitted,
         \A i \in 1 .. n : fromServer[i].req = q,
         \A i \in n + 1 .. k : fromServer[i].req \notin Request,
         \A r \in Request : Decoded(r)' = IF r = q THEN Decoded(r) + n ELSE Decoded(r)
  PROVE  PlaceInv'
<1> DEFINE l == Len(fromServer)
<1>0. fromServer \in Seq(Msg) /\ l \in Nat /\ k \in Int /\ k >= 1 /\ k <= l /\ n \in Int
      /\ 0 <= n /\ n <= k
  BY DEF IInv, TypeOK, WireTypeOK
<1>1. \A i \in 1 .. l : fromServer[i].idx \in Nat
  BY <1>0 DEF Msg
<1>2. /\ Len(fromServer') = l - k
      /\ \A i \in 1 .. Len(fromServer') : i + k \in k + 1 .. l /\ fromServer'[i] = fromServer[i + k]
      /\ \A i \in k + 1 .. l : i - k \in 1 .. Len(fromServer') /\ fromServer'[i - k] = fromServer[i]
  BY <1>0
<1> HIDE DEF l
<1> SUFFICES ASSUME NEW r \in Request
             PROVE  /\ (\A i \in 1 .. Len(fromServer') : fromServer'[i].req # r) =>
                         emitted'[r] = Decoded(r)'
                    /\ \A i \in 1 .. Len(fromServer') : fromServer'[i].req = r =>
                         /\ (\A j \in 1 .. i - 1 : fromServer'[j].req # r) =>
                              fromServer'[i].idx = Decoded(r)' + 1
                         /\ (\A j \in i + 1 .. Len(fromServer') : fromServer'[j].req # r) =>
                              emitted'[r] = fromServer'[i].idx
                         /\ \A j \in i + 1 .. Len(fromServer') : fromServer'[j].req = r =>
                              /\ (\A x \in i .. j : fromServer'[x].req = r) =>
                                   fromServer'[j].idx = fromServer'[i].idx + (j - i)
                              /\ (\A x \in i + 1 .. j - 1 : fromServer'[x].req # r) =>
                                   fromServer'[j].idx = fromServer'[i].idx + 1
  BY DEF PlaceInv
<1>3. Decoded(r) \in Nat
  BY DecodedType
<1>4. PlaceInv /\ l = Len(fromServer)
  BY DEF l
<1>5. ASSUME r # q \/ n = 0
      PROVE  Decoded(r)' = Decoded(r) /\ \A i \in 1 .. k : fromServer[i].req # r
  <2>1. \A i \in 1 .. k : i \in 1 .. n \/ i \in n + 1 .. k
    BY <1>0
  <2>2. n = 0 => 1 .. n = {}
    OBVIOUS
  <2> QED BY <1>3, <1>5, <2>1, <2>2
<1>6. ASSUME r = q, n # 0
      PROVE  /\ n \in 1 .. l /\ fromServer[n].req = r /\ fromServer[n].idx = Decoded(r)'
             /\ \A i \in n + 1 .. k : fromServer[i].req # r
  <2>1. n \in 1 .. n /\ 1 \in 1 .. n /\ n \in 1 .. l /\ 1 \in 1 .. l /\ 1 .. 1 - 1 = {}
    BY <1>0, <1>6
  <2>2. fromServer[1].req = r /\ fromServer[n].req = r
    BY <1>6, <2>1
  <2>3. fromServer[1].idx = Decoded(r) + 1
    BY <1>4, <2>1, <2>2 DEF PlaceInv
  <2>4. fromServer[n].idx = fromServer[1].idx + (n - 1)
    <3>1. CASE n = 1
      BY <2>1, <3>1, <1>1
    <3>2. CASE n # 1
      <4>1. n \in 1 + 1 .. l
        BY <1>0, <1>6, <3>2
      <4>2. \A j \in 1 .. n : fromServer[j].req = r
        BY <1>6
      <4>3. 1 \in 1 .. Len(fromServer) /\ n \in 1 + 1 .. Len(fromServer)
        BY <1>4, <2>1, <4>1
      <4>4. \A j \in 1 + 1 .. Len(fromServer) :
              fromServer[j].req = r /\ (\A x \in 1 .. j : fromServer[x].req = r) =>
                fromServer[j].idx = fromServer[1].idx + (j - 1)
        BY <2>2, <4>3 DEF PlaceInv
      <4> QED BY <2>2, <4>2, <4>3, <4>4
    <3> QED BY <3>1, <3>2
  <2>5. fromServer[n].idx = Decoded(r)'
    BY <1>0, <1>3, <1>6, <2>3, <2>4
  <2> QED BY <2>1, <2>2, <2>5
<1>7. ASSUME \A i \in 1 .. Len(fromServer') : fromServer'[i].req # r
      PROVE  emitted'[r] = Decoded(r)'
  <2>1. \A i \in k + 1 .. l : fromServer[i].req # r
    BY <1>2, <1>7
  <2>2. CASE r # q \/ n = 0
    <3>1. \A i \in 1 .. l : i \in 1 .. k \/ i \in k + 1 .. l
      BY <1>0
    <3>2. \A i \in 1 .. l : fromServer[i].req # r
      BY <1>5, <2>1, <2>2, <3>1
    <3> QED BY <1>4, <1>5, <2>2, <3>2 DEF PlaceInv
  <2>3. CASE r = q /\ n # 0
    <3>1. \A i \in n + 1 .. l : i \in n + 1 .. k \/ i \in k + 1 .. l
      BY <1>0
    <3>2. \A i \in n + 1 .. l : fromServer[i].req # r
      BY <1>6, <2>1, <2>3, <3>1
    <3> QED BY <1>4, <1>6, <2>3, <3>2 DEF PlaceInv
  <2> QED BY <2>2, <2>3
<1>8. ASSUME NEW i \in 1 .. Len(fromServer'), fromServer'[i].req = r,
             \A j \in 1 .. i - 1 : fromServer'[j].req # r
      PROVE  fromServer'[i].idx = Decoded(r)' + 1
  <2>0. /\ i + k \in k + 1 .. l /\ i + k \in 1 .. l /\ fromServer'[i] = fromServer[i + k]
        /\ i \in Int
    BY <1>0, <1>2
  <2>1. \A j \in k + 1 .. (i + k) - 1 : fromServer[j].req # r
    <3>1. ASSUME NEW j \in k + 1 .. (i + k) - 1
          PROVE  j - k \in 1 .. i - 1 /\ j \in k + 1 .. l
      <4>1. i - 1 \in Int /\ (i - 1) + k <= l /\ k + 1 = 1 + k /\ (i - 1) + k = (i + k) - 1
        BY <1>0, <2>0
      <4>2. j \in 1 + k .. (i - 1) + k
        BY <4>1
      <4> QED BY <1>0, <4>1, <4>2, ShiftBack
    <3> QED BY <1>2, <1>8, <3>1
  <2>2. CASE r # q \/ n = 0
    <3>1. \A j \in 1 .. (i + k) - 1 : j \in 1 .. k \/ j \in k + 1 .. (i + k) - 1
      BY <1>0
    <3>2. \A j \in 1 .. (i + k) - 1 : fromServer[j].req # r
      BY <1>5, <2>1, <2>2, <3>1
    <3>3. i + k \in 1 .. Len(fromServer) /\ fromServer[i + k].req = r
      BY <1>4, <1>8, <2>0
    <3>4. fromServer[i + k].idx = Decoded(r) + 1
      BY <1>4, <3>2, <3>3 DEF PlaceInv
    <3> QED BY <1>5, <2>0, <2>2, <3>4
  <2>3. CASE r = q /\ n # 0
    <3>1. /\ \A j \in n + 1 .. (i + k) - 1 : j \in n + 1 .. k \/ j \in k + 1 .. (i + k) - 1
          /\ i + k \in n + 1 .. l
      BY <1>0, <2>0
    <3>2. \A j \in n + 1 .. (i + k) - 1 : fromServer[j].req # r
      BY <1>6, <2>1, <2>3, <3>1
    <3>3. i + k \in n + 1 .. Len(fromServer) /\ fromServer[i + k].req = r /\ n \in 1 .. Len(fromServer)
      BY <1>4, <1>6, <1>8, <2>0, <2>3, <3>1
    <3>4. fromServer[n].req = r /\ fromServer[n].idx = Decoded(r)'
      BY <1>6, <2>3
    <3>5. fromServer[i + k].idx = fromServer[n].idx + 1
      BY <1>4, <3>2, <3>3, <3>4 DEF PlaceInv
    <3> QED BY <2>0, <3>4, <3>5
  <2> QED BY <2>2, <2>3
<1>9. ASSUME NEW i \in 1 .. Len(fromServer'), fromServer'[i].req = r,
             \A j \in i + 1 .. Len(fromServer') : fromServer'[j].req # r
      PROVE  emitted'[r] = fromServer'[i].idx
  <2>0. i + k \in 1 .. l /\ fromServer'[i] = fromServer[i + k]
    BY <1>0, <1>2
  <2>1. \A j \in (i + k) + 1 .. l : fromServer[j].req # r
    <3>1. \A j \in (i + k) + 1 .. l : j - k \in i + 1 .. Len(fromServer') /\ j \in k + 1 .. l
      BY <1>0, <1>2, <2>0
    <3> QED BY <1>2, <1>9, <3>1
  <2>2. PICK x \in 1 .. Len(fromServer) : x = i + k
    BY <1>4, <2>0
  <2>3. fromServer[x].req = r /\ \A j \in x + 1 .. Len(fromServer) : fromServer[j].req # r
    BY <1>4, <1>9, <2>0, <2>1, <2>2
  <2>4. emitted[r] = fromServer[x].idx
    BY <1>4, <2>3 DEF PlaceInv
  <2> QED BY <2>0, <2>2, <2>4
<1>10. ASSUME NEW i \in 1 .. Len(fromServer'), fromServer'[i].req = r,
              NEW j \in i + 1 .. Len(fromServer'), fromServer'[j].req = r
       PROVE  /\ (\A x \in i .. j : fromServer'[x].req = r) =>
                   fromServer'[j].idx = fromServer'[i].idx + (j - i)
              /\ (\A x \in i + 1 .. j - 1 : fromServer'[x].req # r) =>
                   fromServer'[j].idx = fromServer'[i].idx + 1
  <2>0. /\ i \in Int /\ j \in Int /\ i < j /\ j \in 1 .. Len(fromServer')
        /\ i + k \in 1 .. l /\ fromServer'[i] = fromServer[i + k]
    BY <1>0, <1>2
  <2>1. /\ j + k \in (i + k) + 1 .. l /\ fromServer'[j] = fromServer[j + k]
        /\ (j + k) - (i + k) = j - i
    BY <1>0, <1>2, <2>0
  <2>2. /\ 1 <= i /\ j + k <= l /\ i + 1 \in Int /\ j - 1 \in Int /\ (j - 1) + k <= l
        /\ (i + k) + 1 = (i + 1) + k /\ (j + k) - 1 = (j - 1) + k /\ 1 <= i + 1
    BY <1>0, <2>0, <2>1
  <2>3. ASSUME \A x \in i .. j : fromServer'[x].req = r, NEW x \in i + k .. j + k
        PROVE  fromServer[x].req = r
    <3>1. x - k \in i .. j /\ x \in k + 1 .. l
      BY <1>0, <2>0, <2>2, ShiftBack
    <3> QED BY <1>2, <2>3, <3>1
  <2>4. ASSUME \A x \in i + 1 .. j - 1 : fromServer'[x].req # r,
               NEW x \in (i + k) + 1 .. (j + k) - 1
        PROVE  fromServer[x].req # r
    <3>0. x \in (i + 1) + k .. (j - 1) + k
      BY <2>2
    <3>1. x - k \in i + 1 .. j - 1 /\ x \in k + 1 .. l
      BY <1>0, <2>2, <3>0, ShiftBack
    <3> QED BY <1>2, <2>4, <3>1
  <2>5. fromServer[i + k].req = r /\ fromServer[j + k].req = r
    BY <1>10, <2>0, <2>1
  <2>6. /\ (\A x \in i + k .. j + k : fromServer[x].req = r) =>
             fromServer[j + k].idx = fromServer[i + k].idx + ((j + k) - (i + k))
        /\ (\A x \in (i + k) + 1 .. (j + k) - 1 : fromServer[x].req # r) =>
             fromServer[j + k].idx = fromServer[i + k].idx + 1
    BY <1>4, <2>0, <2>1, <2>5 DEF PlaceInv
  <2>7. ASSUME \A x \in i .. j : fromServer'[x].req = r
        PROVE  fromServer'[j].idx = fromServer'[i].idx + (j - i)
    BY <2>0, <2>1, <2>3, <2>6, <2>7
  <2>8. ASSUME \A x \in i + 1 .. j - 1 : fromServer'[x].req # r
        PROVE  fromServer'[j].idx = fromServer'[i].idx + 1
    BY <2>0, <2>1, <2>4, <2>6, <2>8
  <2> QED BY <2>7, <2>8
<1> QED BY <1>7, <1>8, <1>9, <1>10

-----------------------------------------------------------------------------
\* The request at the front of `responses`.
LEMMA FrontRequest ==
  ASSUME IInv, responses # <<>>
  PROVE  /\ responses[1] = Completed + 1 /\ responses[1] \in Request /\ Completed \in Int
         /\ responses[1] <= Len(requests)
<1>1. responses \in Seq(Request) /\ Len(responses) >= 1
  BY DEF IInv, TypeOK, ConnTypeOK
<1>2. responses[1] = Completed + 1 /\ Completed \in Int
  BY <1>1, Counts DEF IInv, QueueInv
<1>3. Completed + 1 <= Len(requests)
  BY <1>1, Counts DEF IInv, Completed, Popped
<1> QED BY <1>1, <1>2, <1>3

\* Before anything is taken, the server's last word was not paged.
LEMMA NoFatalYet ==
  ASSUME FatalInv, Holds \/ fromServer # <<>>, NEW r \in Request
  PROVE  \A i \in 1 .. Len(inbox[r]) : inbox[r][i].kind # "fatal"
BY DEF FatalInv, Dry

\* A decoded run goes on where the last one of that request ended.
LEMMA RunPlaces ==
  ASSUME IInv, FatalInv, PlaceInv, pendingResponses = <<>>, responses # <<>>,
         NEW k \in 1 .. Len(fromServer), Decodes(k), ~IsAsync(fromServer[1]),
         NEW c \in Chunk, Len(c) = k, \A i \in 1 .. k : c[i] = fromServer[i]
  PROVE  /\ \A i \in 1 .. k : c[i].kind # "fatal" => c[i].idx = Len(inbox[Completed + 1]) + i
         /\ \A i \in 1 .. k : c[i].kind = "fatal" => i = k /\ k = Len(fromServer) /\ serverClosed
         /\ \A i \in 1 .. Own(c) : fromServer[i].req = Completed + 1
         /\ \A i \in Own(c) + 1 .. k : fromServer[i].req \notin Request
<1> DEFINE r == Completed + 1
<1>0. fromServer \in Seq(Msg) /\ Len(fromServer) \in Nat /\ k \in Int /\ 1 <= k
      /\ k <= Len(fromServer) /\ c \in Seq(Msg)
  BY DEF IInv, TypeOK, WireTypeOK, Chunk
<1>1. r \in Request /\ inbox[r] \in Seq(Msg)
  BY FrontRequest DEF IInv, TypeOK, ConnTypeOK
<1>2. \A i \in 1 .. k : i \in 1 .. Len(fromServer)
  BY <1>0
<1>3. \A i \in 1 .. k : c[i].kind = "fatal" => i = k /\ k = Len(fromServer) /\ serverClosed
  BY <1>0, <1>2 DEF FatalInv, IInv, StreamInv
<1>4. \A i \in 1 .. k : c[i].kind = "fatal" \/ c[i].req = r
  <2>1. OwnChunk(SubSeq(fromServer, 1, k))
    BY DecodeOwn DEF IInv
  <2>2. /\ Len(SubSeq(fromServer, 1, k)) = k
        /\ \A i \in 1 .. k : SubSeq(fromServer, 1, k)[i] = fromServer[i]
    BY <1>0
  <2> QED BY <2>1, <2>2 DEF OwnChunk
<1>5. Decoded(r) = Len(inbox[r])
  <2>1. ~Holds
    BY DEF Holds
  <2>2. \A i \in 1 .. Len(inbox[r]) : inbox[r][i].kind # "fatal"
    BY <1>0, <1>1, NoFatalYet
  <2>3. inbox[r] = <<>> \/ inbox[r][Len(inbox[r])].kind # "fatal"
    <3>1. inbox[r] # <<>> => Len(inbox[r]) \in 1 .. Len(inbox[r])
      BY <1>1
    <3> QED BY <2>2, <3>1
  <2> QED BY <1>1, <2>1, <2>3, OwnLen DEF Decoded
<1>6. ASSUME NEW i \in 1 .. k, c[i].kind # "fatal" PROVE c[i].idx = Len(inbox[r]) + i
  <2>1. \A j \in 1 .. i : j \in 1 .. k /\ (j # i => j # k)
    BY <1>0
  <2>2. \A j \in 1 .. i : fromServer[j].req = r
    BY <1>3, <1>4, <1>6, <2>1
  <2>3. 1 \in 1 .. i /\ i \in 1 .. i /\ 1 .. 1 - 1 = {} /\ 1 \in 1 .. Len(fromServer)
    BY <1>0
  <2>4. fromServer[1].idx = Len(inbox[r]) + 1
    BY <1>1, <1>2, <1>5, <2>2, <2>3 DEF PlaceInv
  <2>5. CASE i = 1
    BY <2>4, <2>5
  <2>6. CASE i # 1
    <3>1. i \in 1 + 1 .. Len(fromServer)
      BY <1>0, <2>6
    <3>2. fromServer[i].idx = fromServer[1].idx + (i - 1)
      <4>1. fromServer[1].req = r /\ fromServer[i].req = r
        BY <2>2, <2>3
      <4>2. \A j \in 1 .. i : fromServer[j].req = r
        BY <2>2
      <4>3. 1 \in 1 .. Len(fromServer) /\ r \in Request
        BY <1>1, <2>3
      <4> QED BY <3>1, <4>1, <4>2, <4>3 DEF PlaceInv
    <3>3. Len(inbox[r]) \in Int /\ i \in Int
      BY <1>0, <1>1
    <3>4. (Len(inbox[r]) + 1) + (i - 1) = Len(inbox[r]) + i /\ c[i] = fromServer[i]
      BY <3>3
    <3> QED BY <2>4, <3>2, <3>4
  <2> QED BY <2>5, <2>6
<1>7. /\ c[k].kind = "fatal" => Own(c) = k - 1
      /\ c[k].kind # "fatal" => Own(c) = k
  BY <1>0 DEF Own, Chunk
<1>8. k \in 1 .. k
  BY <1>0
<1>9. \A i \in 1 .. Own(c) : fromServer[i].req = r
  <2>1. \A i \in 1 .. Own(c) : i \in 1 .. k /\ (c[k].kind = "fatal" => i # k)
    BY <1>0, <1>7
  <2> QED BY <1>3, <1>4, <2>1
<1>10. \A i \in Own(c) + 1 .. k : fromServer[i].req \notin Request
  <2>1. ASSUME NEW i \in Own(c) + 1 .. k PROVE i = k /\ c[k].kind = "fatal"
    BY <1>0, <1>7
  <2>2. c[k].kind = "fatal" => c[k].req \notin Request
    BY <1>0, <1>8 DEF Msg, AnswerKind, Request
  <2> QED BY <1>8, <2>1, <2>2
<1> QED BY <1>3, <1>6, <1>9, <1>10

\* Paging a chunk that goes on where the last one ended.
LEMMA PagePlaces ==
  ASSUME IInv, PagedInv, NEW c \in Chunk, OwnChunk(c), responses # <<>>,
         \A r \in Request : \A i \in 1 .. Len(inbox[r]) : inbox[r][i].kind # "fatal",
         \A i \in 1 .. Len(c) : c[i].kind # "fatal" => c[i].idx = Len(inbox[Completed + 1]) + i,
         \A i \in 1 .. Len(c) : c[i].kind = "fatal" => i = Len(c) /\ Dry',
         inbox' = [inbox EXCEPT ![Completed + 1] = @ \o c], ~Holds',
         Completed' = IF RequestComplete(c) THEN Completed + 1 ELSE Completed
  PROVE  /\ PagedInv'
         /\ \A r \in Request : \A i \in 1 .. Len(inbox'[r]) :
              inbox'[r][i].kind = "fatal" => i = Len(inbox'[r]) /\ Dry'
         /\ \A r \in Request :
              Own(inbox'[r]) = IF r = Completed + 1 THEN Len(inbox[r]) + Own(c) ELSE Own(inbox[r])
<1> DEFINE f == Completed + 1
<1>0. /\ f \in Request /\ Completed \in Int /\ inbox \in [Request -> Seq(Msg)] /\ Len(inbox[f]) \in Nat
      /\ c \in Seq(Msg) /\ Len(c) \in Nat /\ Len(c) >= 1
  BY FrontRequest DEF IInv, TypeOK, ConnTypeOK, Chunk
<1>1. \A r \in Request : inbox'[r] = IF r = f THEN inbox[r] \o c ELSE inbox[r]
  BY <1>0
<1>2. /\ Len(inbox'[f]) = Len(inbox[f]) + Len(c)
      /\ \A i \in 1 .. Len(inbox[f]) : inbox'[f][i] = inbox[f][i]
      /\ \A i \in 1 .. Len(c) : inbox'[f][Len(inbox[f]) + i] = c[i]
  BY <1>0, <1>1
<1>3. ASSUME NEW i \in 1 .. Len(inbox'[f]), i \notin 1 .. Len(inbox[f])
      PROVE  i - Len(inbox[f]) \in 1 .. Len(c) /\ i = Len(inbox[f]) + (i - Len(inbox[f]))
  BY <1>0, <1>2, <1>3
<1>4. ASSUME NEW i \in 1 .. Len(inbox'[f]), i \notin 1 .. Len(inbox[f])
      PROVE  \E j \in 1 .. Len(c) : i = Len(inbox[f]) + j /\ inbox'[f][i] = c[j]
  BY <1>2, <1>3, <1>4
<1>5. PagedInOrder'
  <2>1. ASSUME NEW r \in Request, NEW i \in 1 .. Len(inbox'[r]), inbox'[r][i].req = r
        PROVE  inbox'[r][i].idx = i
    <3>1. CASE r # f
      BY <1>1, <2>1, <3>1 DEF PagedInv, PagedInOrder
    <3>2. CASE r = f /\ i \in 1 .. Len(inbox[f])
      BY <1>2, <2>1, <3>2 DEF PagedInv, PagedInOrder
    <3>3. CASE r = f /\ i \notin 1 .. Len(inbox[f])
      <4>1. PICK j \in 1 .. Len(c) : i = Len(inbox[f]) + j /\ inbox'[f][i] = c[j]
        BY <1>4, <2>1, <3>3
      <4>2. c[j].kind # "fatal"
        BY <1>0, <2>1, <3>3, <4>1 DEF Msg, AnswerKind, Request
      <4> QED BY <3>3, <4>1, <4>2
    <3> QED BY <3>1, <3>2, <3>3
  <2> QED BY <2>1 DEF PagedInOrder
<1>6. ASSUME NEW r \in Request, NEW i \in 1 .. Len(inbox'[r]), inbox'[r][i].kind = "ready"
      PROVE  i = Len(inbox'[r]) /\ r <= Completed'
  <2>0. Completed <= Completed' /\ Completed' \in Int
    BY <1>0
  <2>1. CASE r # f
    <3>1. i = Len(inbox[r]) /\ r <= Completed /\ r \in Int
      BY <1>1, <1>6, <2>1 DEF PagedInv, Request
    <3> QED BY <1>0, <1>1, <2>0, <2>1, <3>1
  <2>2. CASE r = f /\ i \in 1 .. Len(inbox[f])
    <3>1. f <= Completed
      BY <1>0, <1>2, <1>6, <2>2 DEF PagedInv
    <3> QED BY <1>0, <3>1
  <2>3. CASE r = f /\ i \notin 1 .. Len(inbox[f])
    <3>1. PICK j \in 1 .. Len(c) : i = Len(inbox[f]) + j /\ inbox'[f][i] = c[j]
      BY <1>4, <1>6, <2>3
    <3>2. j = Len(c) /\ c[j].kind = "ready"
      BY <1>6, <2>3, <3>1 DEF OwnChunk
    <3>3. RequestComplete(c)
      BY <3>2 DEF RequestComplete
    <3> QED BY <1>0, <1>2, <2>3, <3>1, <3>2, <3>3
  <2> QED BY <2>1, <2>2, <2>3
<1>7. PagedInv'
  BY <1>5, <1>6 DEF PagedInv
<1>8. ASSUME NEW r \in Request, NEW i \in 1 .. Len(inbox'[r]), inbox'[r][i].kind = "fatal"
      PROVE  i = Len(inbox'[r]) /\ Dry'
  <2>1. r = f /\ i \notin 1 .. Len(inbox[f])
    BY <1>1, <1>2, <1>8
  <2>2. PICK j \in 1 .. Len(c) : i = Len(inbox[f]) + j /\ inbox'[f][i] = c[j]
    BY <1>4, <1>8, <2>1
  <2> QED BY <1>2, <1>8, <2>1, <2>2
<1>9. \A r \in Request :
        Own(inbox'[r]) = IF r = f THEN Len(inbox[r]) + Own(c) ELSE Own(inbox[r])
  BY <1>0, <1>1, OwnConcat
<1> QED BY <1>7, <1>8, <1>9

\* A chunk taken from pending_responses is read in one of three ways.
LEMMA HeldCases ==
  ASSUME IInv, pendingResponses # <<>>,
         ReadMessage(pendingResponses[1], Tail(pendingResponses), fromServer)
  PROVE  /\ fromServer' = fromServer
         /\ \/ ~Holds /\ ~Holds' /\ UNCHANGED <<responses, inbox, chan, result>>
            \/ Holds /\ UNCHANGED <<pendingResponses, responses, inbox, chan, result>>
            \/ /\ Holds /\ pendingResponses' = <<>> /\ ~Holds'
               /\ ReadPage(pendingResponses[1], Tail(pendingResponses), fromServer)
<1> DEFINE c == pendingResponses[1]
<1>1. pendingResponses \in Seq(Chunk) /\ Len(pendingResponses) >= 1
  BY DEF IInv, TypeOK, ConnTypeOK
<1>2. fromServer' = fromServer
  BY DEF ReadMessage, ReadAsync, ReadUnexpected, ReadPage, ReadBlocked
<1>3. CASE IsAsyncChunk(c)
  <2>1. pendingResponses' = Tail(pendingResponses) /\ UNCHANGED <<responses, inbox, chan, result>>
    BY <1>3 DEF ReadMessage, ReadAsync, ReadUnexpected, ReadPage, ReadBlocked
  <2>2. ~Holds
    BY <1>3 DEF Holds
  <2>3. ~Holds'
    <3>1. pendingResponses' # <<>> => 2 \in 1 .. Len(pendingResponses) /\ Len(pendingResponses) # 1
                                        /\ pendingResponses'[1] = pendingResponses[2]
      BY <1>1, <2>1
    <3>2. pendingResponses' # <<>> => IsAsyncChunk(pendingResponses[2])
      BY <3>1 DEF IInv, HeldInv, HeldAlone
    <3> QED BY <3>1, <3>2 DEF Holds, IsAsyncChunk, IsAsync
  <2> QED BY <1>2, <2>1, <2>2, <2>3
<1>4. CASE ~IsAsyncChunk(c)
  <2>1. Holds /\ responses # <<>>
    BY <1>4 DEF Holds, IInv, HeldInv
  <2>2. Len(pendingResponses) = 1
    BY <1>1, <1>4 DEF IInv, HeldInv, HeldAlone
  <2>3. Tail(pendingResponses) = <<>> /\ pendingResponses = <<c>>
    <3>1. pendingResponses = <<c>>
      BY <1>1, <2>2
    <3>2. Tail(<<c>>) = <<>>
      OBVIOUS
    <3> QED BY <3>1, <3>2
  <2>4. CASE ReadPage(c, Tail(pendingResponses), fromServer)
    BY <1>2, <2>1, <2>3, <2>4 DEF ReadPage, Holds
  <2>5. CASE ReadBlocked(c, Tail(pendingResponses), fromServer)
    BY <1>2, <2>1, <2>3, <2>5 DEF ReadBlocked
  <2> QED BY <1>4, <2>1, <2>4, <2>5 DEF ReadMessage, ReadAsync, ReadUnexpected
<1> QED BY <1>3, <1>4

\* A chunk that is held keeps its places when it is paged.
LEMMA HeldPlaces ==
  ASSUME IInv, FatalInv, PlaceInv, PagedInv, PollRead, pendingResponses # <<>>,
         ReadMessage(pendingResponses[1], Tail(pendingResponses), fromServer)
  PROVE  FatalInv' /\ PlaceInv' /\ PagedInv'
<1> DEFINE c == pendingResponses[1]
<1>1. /\ UNCHANGED <<requests, receiver, emitted, serverClosed, pendingRequest, copyDone>>
      /\ UNCHANGED <<clientOpen, state, srv, served>>
  BY DEF ReadMessage, ReadAsync, ReadUnexpected, ReadPage, ReadBlocked, readFrame, clientVars,
     serverVars
<1>2. CASE /\ UNCHANGED <<responses, inbox, fromServer>>
           /\ UNCHANGED pendingResponses \/ (~Holds /\ ~Holds')
  <2>1. Completed' = Completed
    BY <1>1, <1>2 DEF Completed, Popped
  <2> QED BY <1>1, <1>2, <2>1, KeptPlaces DEF placeVars
<1>3. CASE /\ Holds /\ ~Holds' /\ fromServer' = fromServer
           /\ ReadPage(c, Tail(pendingResponses), fromServer)
  <2>1. /\ c \in Chunk /\ OwnChunk(c) /\ responses # <<>> /\ responses[1] = Completed + 1
        /\ Completed \in Int
    BY <1>3, FrontRequest DEF IInv, TypeOK, ConnTypeOK, HeldInv, Holds
  <2>2. /\ inbox' = [inbox EXCEPT ![Completed + 1] = @ \o c] /\ responses' = AfterPage(c)
        /\ result' = result
    BY <1>3, <2>1 DEF ReadPage
  <2>3. Completed' = IF RequestComplete(c) THEN Completed + 1 ELSE Completed
    BY <1>1, <2>1, <2>2, PageRoute
  <2>4. Dry' = Dry
    BY <1>1, <1>3 DEF Dry
  <2>5. /\ \A i \in 1 .. Len(c) : c[i].kind # "fatal" => c[i].idx = Len(inbox[Completed + 1]) + i
        /\ \A i \in 1 .. Len(c) : c[i].kind = "fatal" => i = Len(c) /\ Dry'
    BY <1>3, <2>4 DEF PagedInv, FatalInv
  <2>6. \A r \in Request : \A i \in 1 .. Len(inbox[r]) : inbox[r][i].kind # "fatal"
    BY <1>3, NoFatalYet
  <2>7. /\ PagedInv'
        /\ \A r \in Request : \A i \in 1 .. Len(inbox'[r]) :
             inbox'[r][i].kind = "fatal" => i = Len(inbox'[r]) /\ Dry'
        /\ \A r \in Request :
             Own(inbox'[r]) = IF r = Completed + 1 THEN Len(inbox[r]) + Own(c) ELSE Own(inbox[r])
    BY <1>3, <2>1, <2>2, <2>3, <2>5, <2>6, PagePlaces
  <2>8. \A r \in Request : Decoded(r)' = Decoded(r)
    BY <1>3, <2>7 DEF Decoded
  <2>9. PlaceInv'
    BY <1>1, <1>3, <2>8 DEF PlaceInv
  <2>10. FatalInv'
    BY <1>3, <2>7 DEF FatalInv
  <2> QED BY <2>7, <2>9, <2>10
<1> QED BY <1>2, <1>3, HeldCases

\* A chunk decoded from the stream keeps its places, paged or held.
LEMMA DecodePlaces ==
  ASSUME IInv, FatalInv, PlaceInv, PagedInv, PollRead, pendingResponses = <<>>,
         NEW k \in 1 .. Len(fromServer), Decodes(k),
         ReadMessage(SubSeq(fromServer, 1, k), <<>>,
                     SubSeq(fromServer, k + 1, Len(fromServer)))
  PROVE  FatalInv' /\ PlaceInv' /\ PagedInv'
<1> DEFINE strm == SubSeq(fromServer, k + 1, Len(fromServer))
           l == Len(fromServer)
<1>0. fromServer \in Seq(Msg) /\ l \in Nat /\ k \in Int /\ 1 <= k /\ k <= l
  BY DEF IInv, TypeOK, WireTypeOK
<1>1. PICK c \in Chunk : c = SubSeq(fromServer, 1, k)
  BY <1>0, DecodeType DEF IInv, TypeOK
<1>2. Len(c) = k /\ (\A i \in 1 .. k : c[i] = fromServer[i]) /\ c[1] = fromServer[1]
  BY <1>0, <1>1
<1>3. ReadMessage(c, <<>>, strm)
  BY <1>1
<1>4. /\ UNCHANGED <<requests, receiver, emitted, serverClosed, pendingRequest, copyDone>>
      /\ UNCHANGED <<clientOpen, state, srv, served>> /\ fromServer' = strm
  BY <1>3 DEF ReadMessage, ReadAsync, ReadUnexpected, ReadPage, ReadBlocked, readFrame, clientVars,
     serverVars
<1>5. /\ Len(fromServer') = l - k
      /\ \A i \in 1 .. Len(fromServer') : i + k \in 1 .. l /\ fromServer'[i] = fromServer[i + k]
      /\ k = l => fromServer' = <<>>
  BY <1>0, <1>4
<1> HIDE DEF strm
<1>6. \A i \in 1 .. Len(fromServer') : fromServer'[i].kind = "fatal" => i = Len(fromServer')
  <2>1. ASSUME NEW i \in 1 .. Len(fromServer'), fromServer'[i].kind = "fatal"
        PROVE  i = Len(fromServer')
    <3>1. i + k = l
      BY <1>5, <2>1 DEF FatalInv
    <3>2. i \in Int /\ Len(fromServer') = l - k
      BY <1>5
    <3> QED BY <1>0, <3>1, <3>2
  <2> QED BY <2>1
<1>7. ~Holds
  BY DEF Holds
<1>8. \A r \in Request : \A i \in 1 .. Len(inbox[r]) : inbox[r][i].kind # "fatal"
  BY <1>0, NoFatalYet
<1>9. \A r \in Request : Decoded(r) = Own(inbox[r])
  BY <1>7 DEF Decoded
<1>10. fromServer' = SubSeq(fromServer, k + 1, Len(fromServer))
  BY <1>4 DEF strm
<1>11. ASSUME UNCHANGED <<responses, inbox>>, pendingResponses' = <<>>, k = 1,
              fromServer[1].req \notin Request
       PROVE  FatalInv' /\ PlaceInv' /\ PagedInv'
  <2>1. Completed' = Completed /\ ~Holds'
    BY <1>4, <1>11 DEF Completed, Popped, Holds
  <2>2. \A r \in Request : Decoded(r)' = IF r = 0 THEN Decoded(r) + 0 ELSE Decoded(r)
    BY <1>9, <1>11, <2>1 DEF Decoded, Request
  <2>3. /\ 0 \in 0 .. k /\ \A i \in 1 .. 0 : fromServer[i].req = 0
        /\ \A i \in 0 + 1 .. k : fromServer[i].req \notin Request
    BY <1>11
  <2>4. PlaceInv'
    BY <1>4, <1>10, <2>2, <2>3, PlaceShift
  <2>5. FatalInv' /\ PagedInv'
    BY <1>6, <1>8, <1>11, <2>1 DEF FatalInv, PagedInv, PagedInOrder
  <2> QED BY <2>4, <2>5
<1>12. CASE ReadAsync(c, <<>>, strm)
  <2>1. k = 1 /\ IsAsync(fromServer[1])
    BY <1>2, <1>12 DEF ReadAsync, IsAsyncChunk, Decodes
  <2>2. 1 \in 1 .. l
    BY <1>0
  <2>3. fromServer[1].req \notin Request
    BY <1>0, <2>1, <2>2 DEF IsAsync, AsyncKind, Msg, AnswerKind, Request
  <2> QED BY <1>11, <1>12, <2>1, <2>3 DEF ReadAsync
<1>13. CASE ReadUnexpected(c, <<>>, strm)
  <2>1. responses = <<>> /\ ~IsAsync(fromServer[1])
    BY <1>2, <1>13 DEF ReadUnexpected, IsAsyncChunk
  <2>2. Completed = Popped /\ Popped \in Int
    BY <2>1, Counts DEF IInv, Completed
  <2>3. 1 \in 1 .. l /\ fromServer[1] \in Msg
    BY <1>0
  <2>4. fromServer[1].kind = "fatal"
    <3>1. SUFFICES ASSUME fromServer[1].kind \in AnswerKind PROVE FALSE
      BY <2>1, <2>3 DEF Msg, LoneKind, IsAsync
    <3>2. Seen = Completed
      BY <1>7 DEF Seen, HeldComplete
    <3>3. Seen < fromServer[1].req /\ fromServer[1].req <= Popped
      BY <2>3, <3>1 DEF IInv, StreamInv
    <3>4. fromServer[1].req \in Int
      BY <2>3 DEF Msg, Request
    <3> QED BY <2>2, <3>2, <3>3, <3>4
  <2>5. k = 1
    BY <1>0, <2>3, <2>4 DEF FatalInv
  <2>6. fromServer[1].req \notin Request
    BY <2>3, <2>4 DEF Msg, AnswerKind, Request
  <2> QED BY <1>11, <1>13, <2>5, <2>6 DEF ReadUnexpected
<1>14. ASSUME ~IsAsyncChunk(c), responses # <<>>,
              \A r \in Request :
                Decoded(r)' = IF r = Completed + 1 THEN Decoded(r) + Own(c) ELSE Decoded(r)
       PROVE  PlaceInv'
  <2>1. ~IsAsync(fromServer[1])
    BY <1>2, <1>14 DEF IsAsyncChunk
  <2>2. /\ \A i \in 1 .. Own(c) : fromServer[i].req = Completed + 1
        /\ \A i \in Own(c) + 1 .. k : fromServer[i].req \notin Request
    BY <1>2, <1>14, <2>1, RunPlaces
  <2>3. Own(c) \in 0 .. k
    BY <1>0, <1>2, OwnLen DEF Chunk
  <2> QED BY <1>4, <1>10, <1>14, <2>2, <2>3, PlaceShift
<1>15. ASSUME ~IsAsyncChunk(c), responses # <<>>
       PROVE  /\ OwnChunk(c) /\ responses[1] = Completed + 1 /\ Completed \in Int
              /\ \A i \in 1 .. Len(c) : c[i].kind # "fatal" =>
                   c[i].idx = Len(inbox[Completed + 1]) + i
              /\ \A i \in 1 .. Len(c) : c[i].kind = "fatal" => i = Len(c) /\ Dry'
              /\ Decoded(Completed + 1) = Len(inbox[Completed + 1])
  <2>1. ~IsAsync(fromServer[1])
    BY <1>2, <1>15 DEF IsAsyncChunk
  <2>2. /\ \A i \in 1 .. k : c[i].kind # "fatal" => c[i].idx = Len(inbox[Completed + 1]) + i
        /\ \A i \in 1 .. k : c[i].kind = "fatal" => i = k /\ k = Len(fromServer) /\ serverClosed
    BY <1>2, <1>15, <2>1, RunPlaces
  <2>3. OwnChunk(c)
    BY <1>1, <1>15, <2>1, DecodeOwn DEF IInv
  <2>4. responses[1] = Completed + 1 /\ Completed + 1 \in Request /\ Completed \in Int
    BY <1>15, FrontRequest
  <2>5. Own(inbox[Completed + 1]) = Len(inbox[Completed + 1])
    <3>1. inbox[Completed + 1] \in Seq(Msg)
      BY <2>4 DEF IInv, TypeOK, ConnTypeOK
    <3>2. inbox[Completed + 1] # <<>> =>
            Len(inbox[Completed + 1]) \in 1 .. Len(inbox[Completed + 1])
      BY <3>1
    <3> QED BY <1>8, <2>4, <3>1, <3>2, OwnLen
  <2>6. \A i \in 1 .. Len(c) : c[i].kind = "fatal" => i = Len(c) /\ Dry'
    BY <1>2, <1>4, <1>5, <2>2 DEF Dry
  <2> QED BY <1>2, <1>9, <2>2, <2>3, <2>4, <2>5, <2>6
<1>16. CASE ReadPage(c, <<>>, strm)
  <2>1. /\ ~IsAsyncChunk(c) /\ responses # <<>> /\ pendingResponses' = <<>> /\ ~Holds'
        /\ responses' = AfterPage(c) /\ result' = result
        /\ inbox' = [inbox EXCEPT ![responses[1]] = @ \o c]
    BY <1>16 DEF ReadPage, Holds
  <2>2. Completed' = IF RequestComplete(c) THEN Completed + 1 ELSE Completed
    BY <1>4, <1>15, <2>1, PageRoute
  <2>3. /\ PagedInv'
        /\ \A r \in Request : \A i \in 1 .. Len(inbox'[r]) :
             inbox'[r][i].kind = "fatal" => i = Len(inbox'[r]) /\ Dry'
        /\ \A r \in Request :
             Own(inbox'[r]) = IF r = Completed + 1 THEN Len(inbox[r]) + Own(c) ELSE Own(inbox[r])
    BY <1>8, <1>15, <2>1, <2>2, PagePlaces
  <2>4. \A r \in Request :
          Decoded(r)' = IF r = Completed + 1 THEN Decoded(r) + Own(c) ELSE Decoded(r)
    BY <1>9, <1>15, <2>1, <2>3 DEF Decoded
  <2>5. PlaceInv'
    BY <1>14, <2>1, <2>4
  <2>6. FatalInv'
    BY <1>6, <2>1, <2>3 DEF FatalInv
  <2> QED BY <2>3, <2>5, <2>6
<1>17. CASE ReadBlocked(c, <<>>, strm)
  <2>1. /\ ~IsAsyncChunk(c) /\ responses # <<>> /\ pendingResponses' = <<c>>
        /\ UNCHANGED <<responses, inbox>>
    BY <1>17 DEF ReadBlocked
  <2>2. Holds' /\ pendingResponses'[1] = c /\ Completed' = Completed
    BY <1>4, <2>1 DEF Holds, IsAsyncChunk, IsAsync, Completed, Popped
  <2>3. \A r \in Request :
          Decoded(r)' = IF r = Completed + 1 THEN Decoded(r) + Own(c) ELSE Decoded(r)
    BY <1>9, <1>15, <2>1, <2>2 DEF Decoded
  <2>4. PlaceInv'
    BY <1>14, <2>1, <2>3
  <2>5. FatalInv'
    BY <1>6, <1>8, <1>15, <2>1, <2>2 DEF FatalInv
  <2>6. PagedInv'
    BY <1>15, <2>1, <2>2 DEF PagedInv, PagedInOrder
  <2> QED BY <2>4, <2>5, <2>6
<1> QED BY <1>3, <1>12, <1>13, <1>16, <1>17 DEF ReadMessage

\* poll_read keeps the places.
LEMMA ReadPlaces ==
  ASSUME IInv, FatalInv, PlaceInv, PagedInv, PollRead
  PROVE  FatalInv' /\ PlaceInv' /\ PagedInv'
<1>1. CASE ReadSkip \/ ReadPending \/ ReadEof
  <2>1. UNCHANGED placeVars /\ UNCHANGED <<pendingResponses, requests, receiver, responses, serverClosed>>
    BY <1>1 DEF ReadSkip, ReadPending, ReadEof, placeVars, readFrame, clientVars, serverVars
  <2>2. Completed' = Completed
    BY <2>1 DEF Completed, Popped
  <2> QED BY <2>1, <2>2, KeptPlaces
<1> QED BY <1>1, HeldPlaces, DecodePlaces DEF PollRead

\* The server's steps keep the places.
LEMMA ServerPlaces ==
  ASSUME IInv, FatalInv, PlaceInv, PagedInv,
         \/ Server \/ (\E k \in AsyncKind : ServerAsync(k)) \/ ServerClose
  PROVE  FatalInv' /\ PlaceInv' /\ PagedInv'
<1>1. /\ UNCHANGED <<requests, receiver, responses, pendingResponses, inbox>>
      /\ serverClosed => serverClosed'
  BY DEF Server, ServerRead, ServerAnswer, ServerRefusesCopy, Emit, ServerAsync, ServerClose,
     serverFrame, clientVars, connVars
<1>2. Completed' = Completed /\ Holds' = Holds
  BY <1>1 DEF Completed, Popped, Holds, IsAsyncChunk, IsAsync
<1>3. \A r \in Request : Decoded(r)' = Decoded(r)
  BY <1>1, <1>2 DEF Decoded
<1>4. PagedInv'
  BY <1>1, <1>2 DEF PagedInv, PagedInOrder
<1>5. CASE UNCHANGED <<fromServer, emitted>>
  BY <1>1, <1>2, <1>5, KeptPlaces DEF placeVars
<1>6. ASSUME NEW m \in Msg, fromServer' = Append(fromServer, m), ~serverClosed
      PROVE  /\ Len(fromServer') = Len(fromServer) + 1 /\ fromServer'[Len(fromServer) + 1] = m
             /\ \A i \in 1 .. Len(fromServer) : fromServer'[i] = fromServer[i]
             /\ FatalInv'
  <2>0. fromServer \in Seq(Msg) /\ Len(fromServer) \in Nat
    BY DEF IInv, TypeOK, WireTypeOK
  <2>1. /\ Len(fromServer') = Len(fromServer) + 1 /\ fromServer'[Len(fromServer) + 1] = m
        /\ \A i \in 1 .. Len(fromServer) : fromServer'[i] = fromServer[i]
    BY <1>6, <2>0
  <2>2. \A i \in 1 .. Len(fromServer) : fromServer[i].kind # "fatal"
    BY <1>6 DEF IInv, StreamInv
  <2>3. \A i \in 1 .. Len(fromServer') : i \in 1 .. Len(fromServer) \/ i = Len(fromServer')
    BY <2>0, <2>1
  <2>4. \A i \in 1 .. Len(fromServer') : fromServer'[i].kind = "fatal" => i = Len(fromServer')
    BY <2>1, <2>2, <2>3
  <2>5. ~Dry
    BY <1>6 DEF Dry
  <2>6. FatalInv'
    BY <1>1, <1>2, <2>4, <2>5 DEF FatalInv
  <2> QED BY <2>1, <2>6
<1>7. ASSUME NEW k \in LoneKind, fromServer' = Append(fromServer, Lone(k)), ~serverClosed,
             emitted' = emitted
      PROVE  FatalInv' /\ PlaceInv'
  <2>1. PICK m \in Msg : m = Lone(k)
    BY LoneType
  <2>2. m.req \notin Request
    BY <2>1 DEF Lone, Request
  <2> QED BY <1>3, <1>6, <1>7, <2>1, <2>2, PlaceAppend
<1>8. ASSUME NEW k \in AnswerKind, NEW mode, srv.mode # "idle", Emit(k, mode)
      PROVE  FatalInv' /\ PlaceInv'
  <2>1. /\ srv.req \in Request /\ emitted \in [Request -> Nat]
        /\ emitted' = [emitted EXCEPT ![srv.req] = @ + 1] /\ ~serverClosed
    BY <1>8 DEF IInv, TypeOK, ServerTypeOK, ServerState, Emit
  <2>2. [kind |-> k, req |-> srv.req, idx |-> emitted[srv.req] + 1] \in Msg
    BY <2>1 DEF Msg
  <2>3. PICK m \in Msg : m = [kind |-> k, req |-> srv.req, idx |-> emitted[srv.req] + 1]
    BY <2>2
  <2>4. /\ m.req = srv.req /\ m.idx = emitted[m.req] + 1 /\ emitted'[m.req] = m.idx
        /\ \A r \in Request : r # m.req => emitted'[r] = emitted[r]
    BY <2>1, <2>3
  <2>5. fromServer' = Append(fromServer, m)
    BY <1>8, <2>3 DEF Emit
  <2> QED BY <1>3, <1>6, <2>1, <2>4, <2>5, PlaceAppend
<1>9. CASE ServerRead
  BY <1>5, <1>9 DEF ServerRead
<1>10. CASE ServerAnswer \/ ServerRefusesCopy
  BY <1>4, <1>8, <1>10 DEF ServerAnswer, ServerRefusesCopy, AnswerKind
<1>11. CASE (\E k \in AsyncKind : ServerAsync(k)) \/ ServerClose
  BY <1>4, <1>5, <1>7, <1>11 DEF ServerAsync, ServerClose, LoneKind
<1> QED BY <1>9, <1>10, <1>11 DEF Server

\* Only poll_read completes an answer.
LEMMA CompletedKept ==
  ASSUME TypeOK,
         \/ Application \/ PollStart \/ PollWrite \/ PollFlush \/ PollEnd \/ IoError
         \/ DropConnection \/ UNCHANGED vars
  PROVE  Completed' = Completed
<1>0. receiver \in Seq(Request) /\ responses \in Seq(Request) /\ requests \in Seq(Kind)
  BY DEF TypeOK, ConnTypeOK, ClientTypeOK
<1>1. CASE UNCHANGED <<requests, receiver, responses>>
  BY <1>1 DEF Completed, Popped
<1>2. ASSUME NEW k \in Kind, Send(k) PROVE Completed' = Completed
  <2>1. /\ Len(requests') = Len(requests) + 1 /\ Len(receiver') = Len(receiver) + 1
        /\ responses' = responses
    BY <1>0, <1>2 DEF Send
  <2> QED BY <1>0, <2>1 DEF Completed, Popped
<1>3. CASE /\ receiver # <<>> /\ receiver' = Tail(receiver) /\ requests' = requests
           /\ \E r : responses' = Append(responses, r)
  <2>1. Len(receiver') = Len(receiver) - 1 /\ Len(responses') = Len(responses) + 1
    BY <1>0, <1>3
  <2> QED BY <1>0, <1>3, <2>1 DEF Completed, Popped
<1>4. CASE Application
  BY <1>1, <1>2, <1>4 DEF Application, DropClient, NextMessage, SeeClosed, DropResponses,
     CopyStart, SinkPut, SinkFlush, BeginFinish, FinishDone, connVars, clientVars
<1>5. CASE PollWrite
  BY <1>1, <1>3, <1>5 DEF PollWrite, WriteClosing, WriteBackpressure, WriteTerminate, WriteIdle,
     WriteSingle, WriteCopy, WriteCopyPending, WriteCopyEnd, TakeCopy, writeFrame, clientVars
<1>6. CASE PollStart \/ PollFlush \/ PollEnd \/ IoError \/ DropConnection \/ UNCHANGED vars
  BY <1>1, <1>6 DEF PollStart, PollFlush, PollEnd, IoError, DropConnection, vars, writeFrame,
     connVars, clientVars
<1> QED BY <1>4, <1>5, <1>6

\* The steps of the application and of poll_write move no message of an answer.
LEMMA OtherPlaces ==
  ASSUME IInv, FatalInv, PlaceInv, PagedInv,
         \/ Application \/ PollStart \/ PollWrite \/ PollFlush \/ PollEnd \/ IoError
         \/ DropConnection \/ UNCHANGED vars
  PROVE  FatalInv' /\ PlaceInv' /\ PagedInv'
<1>1. UNCHANGED placeVars /\ UNCHANGED <<pendingResponses, serverClosed>>
  <2>1. CASE Application
    BY <2>1 DEF Application, Send, DropClient, NextMessage, SeeClosed, DropResponses, CopyStart,
       SinkPut, SinkFlush, BeginFinish, FinishDone, placeVars, connVars, wireVars, serverVars
  <2>2. CASE PollWrite
    BY <2>2 DEF PollWrite, WriteClosing, WriteBackpressure, WriteTerminate, WriteIdle, WriteSingle,
       WriteCopy, WriteCopyPending, WriteCopyEnd, writeFrame, placeVars, serverVars
  <2>3. CASE PollStart \/ PollFlush \/ PollEnd \/ IoError \/ DropConnection \/ UNCHANGED vars
    BY <2>3 DEF PollStart, PollFlush, PollEnd, IoError, DropConnection, vars, writeFrame, placeVars,
       connVars, wireVars, serverVars
  <2> QED BY <2>1, <2>2, <2>3
<1>2. Completed' = Completed
  BY CompletedKept DEF IInv
<1> QED BY <1>1, <1>2, KeptPlaces

\* The initial state.
LEMMA InitPlaces == Init => FatalInv /\ PlaceInv /\ PagedInv
<1> SUFFICES ASSUME Init PROVE FatalInv /\ PlaceInv /\ PagedInv
  OBVIOUS
<1>1. /\ Len(fromServer) = 0 /\ \A r \in Request : emitted[r] = 0 /\ inbox[r] = <<>>
  BY DEF Init
<1>2. ~Holds
  <2>1. pendingResponses = <<>> \/ pendingResponses[1] = <<Lone("notice")>>
    BY ConnectionAssumption DEF Init
  <2> QED BY <2>1 DEF Holds, IsAsyncChunk, IsAsync, Lone, AsyncKind
<1>3. 1 .. Len(fromServer) = {} /\ \A r \in Request : 1 .. Len(inbox[r]) = {} /\ Own(inbox[r]) = 0
  BY <1>1 DEF Own
<1>4. \A r \in Request : Decoded(r) = 0
  BY <1>2, <1>3 DEF Decoded
<1>5. FatalInv
  BY <1>2, <1>3 DEF FatalInv
<1>6. PlaceInv
  BY <1>1, <1>3, <1>4 DEF PlaceInv
<1>7. PagedInv
  BY <1>2, <1>3 DEF PagedInv, PagedInOrder
<1> QED BY <1>5, <1>6, <1>7

-----------------------------------------------------------------------------
(***************************************************************************)
(* From the channel to the task.                                           *)
(***************************************************************************)

\* One message moves from one count to the other.
LEMMA Regroup ==
  ASSUME NEW g \in Int, NEW a \in Int, NEW b \in Int, b = a - 1
  PROVE  (g + 1) + b = g + a
OBVIOUS

\* What a channel of none, one or two chunks holds.
LEMMA NoChunk == ASSUME NEW ch, Len(ch) = 0 PROVE InChan(ch) = 0
BY DEF InChan

\* The messages in a channel that holds one batch.
LEMMA OneChunk ==
  ASSUME NEW ch, Len(ch) = 1, NEW a \in Nat, Len(ch[1]) = a PROVE InChan(ch) = a
BY DEF InChan

\* The messages in a channel that holds two batches.
LEMMA TwoChunks ==
  ASSUME NEW ch, Len(ch) = 2, NEW a \in Nat, NEW b \in Nat, Len(ch[1]) = a, Len(ch[2]) = b
  PROVE  InChan(ch) = a + b
<1>1. (IF Len(ch) > 0 THEN Len(ch[1]) ELSE 0) = a
  OBVIOUS
<1>2. (IF Len(ch) > 1 THEN Len(ch[2]) ELSE 0) = b
  OBVIOUS
<1> QED BY <1>1, <1>2 DEF InChan

\* The chunks in a channel.
LEMMA ChunkLens ==
  ASSUME NEW ch \in Seq(Chunk)
  PROVE  /\ Len(ch) \in Nat
         /\ Len(ch) > 0 => ch[1] \in Seq(Msg) /\ Len(ch[1]) \in Nat /\ Len(ch[1]) >= 1
         /\ Len(ch) > 1 => ch[2] \in Seq(Msg) /\ Len(ch[2]) \in Nat
<1>1. ASSUME NEW k \in 1 .. Len(ch)
      PROVE  ch[k] \in Seq(Msg) /\ Len(ch[k]) \in Nat /\ Len(ch[k]) >= 1
  <2>1. ch[k] \in Chunk
    OBVIOUS
  <2> QED BY <2>1 DEF Chunk
<1>2. Len(ch) \in Nat /\ (Len(ch) > 0 => 1 \in 1 .. Len(ch)) /\ (Len(ch) > 1 => 2 \in 1 .. Len(ch))
  OBVIOUS
<1>3. /\ Len(ch) > 0 => ch[1] \in Seq(Msg) /\ Len(ch[1]) \in Nat /\ Len(ch[1]) >= 1
      /\ Len(ch) > 1 => ch[2] \in Seq(Msg) /\ Len(ch[2]) \in Nat
  BY <1>1, <1>2
<1> QED BY <1>2, <1>3

\* The messages in a channel are a number.
LEMMA InChanType == ASSUME NEW ch \in Seq(Chunk), Len(ch) <= ChanCap PROVE InChan(ch) \in Nat
<1>1. Len(ch) = 0 \/ Len(ch) = 1 \/ Len(ch) = 2
  <2>1. Len(ch) \in Nat /\ Len(ch) <= 2
    BY DEF ChanCap
  <2>2. \A n \in Nat : n <= 2 => n = 0 \/ n = 1 \/ n = 2
    OBVIOUS
  <2> QED BY <2>1, <2>2
<1>2. CASE Len(ch) = 0
  BY <1>2, NoChunk
<1>3. CASE Len(ch) = 1
  <2>1. PICK a \in Nat : Len(ch[1]) = a
    BY <1>3, ChunkLens
  <2> QED BY <1>3, <2>1, OneChunk
<1>4. CASE Len(ch) = 2
  <2>1. Len(ch[1]) \in Nat /\ Len(ch[2]) \in Nat
    BY <1>4, ChunkLens
  <2>2. PICK a \in Nat, b \in Nat : Len(ch[1]) = a /\ Len(ch[2]) = b
    BY <2>1
  <2>3. InChan(ch) = a + b
    BY <1>4, <2>2, TwoChunks
  <2> QED BY <2>3
<1> QED BY <1>1, <1>2, <1>3, <1>4

\* The first chunk of a channel is taken.
LEMMA InChanTail ==
  ASSUME NEW ch \in Seq(Chunk), Len(ch) <= ChanCap, Len(ch) >= 1
  PROVE  /\ Len(Tail(ch)) = Len(ch) - 1 /\ Len(Tail(ch)) \in Nat
         /\ Len(ch) > 1 => Tail(ch)[1] = ch[2]
         /\ InChan(Tail(ch)) \in Nat /\ InChan(ch) = Len(ch[1]) + InChan(Tail(ch))
<1>1. /\ Len(Tail(ch)) = Len(ch) - 1 /\ Len(Tail(ch)) \in Nat
      /\ Len(ch) > 1 => Tail(ch)[1] = ch[2]
  OBVIOUS
<1>2. Len(ch) = 1 \/ Len(ch) = 2
  <2>1. Len(ch) \in Nat /\ Len(ch) <= 2
    BY DEF ChanCap
  <2>2. \A n \in Nat : n <= 2 /\ n >= 1 => n = 1 \/ n = 2
    OBVIOUS
  <2> QED BY <2>1, <2>2
<1>3. PICK a \in Nat : Len(ch[1]) = a
  BY <1>2, ChunkLens
<1>4. CASE Len(ch) = 1
  <2>1. InChan(ch) = a /\ Len(Tail(ch)) = 0
    BY <1>1, <1>3, <1>4, OneChunk
  <2>2. InChan(Tail(ch)) = 0
    BY <2>1, NoChunk
  <2> QED BY <1>1, <1>3, <2>1, <2>2
<1>5. CASE Len(ch) = 2
  <2>1. PICK b \in Nat : Len(ch[2]) = b
    BY <1>5, ChunkLens
  <2>2. InChan(ch) = a + b
    BY <1>3, <1>5, <2>1, TwoChunks
  <2>3. Len(Tail(ch)) = 1 /\ Len(Tail(ch)[1]) = b
    BY <1>1, <1>5, <2>1
  <2>4. InChan(Tail(ch)) = b
    BY <2>3, OneChunk
  <2> QED BY <1>1, <1>3, <2>2, <2>4
<1> QED BY <1>2, <1>4, <1>5

\* The next message a task is given is the next one that was paged.
LEMMA SplitsNext ==
  ASSUME NEW box \in Seq(Msg), NEW g \in Nat, NEW cu \in Seq(Msg), NEW ch \in Seq(Chunk),
         Splits(box, g, cu, ch), cu = <<>> => ch # <<>>,
         NEW chunk, chunk = IF cu = <<>> THEN ch[1] ELSE cu
  PROVE  /\ g + 1 \in 1 .. Len(box) /\ chunk[1] = box[g + 1]
         /\ box[g + 1].kind # "ready" =>
              Splits(box, g + 1, Tail(chunk), IF cu = <<>> THEN Tail(ch) ELSE ch)
<1>0. /\ Len(box) \in Nat /\ Len(ch) \in Nat /\ Len(cu) \in Nat
      /\ Len(ch) > 0 => ch[1] \in Seq(Msg) /\ Len(ch[1]) \in Nat /\ Len(ch[1]) >= 1
      /\ Len(ch) > 1 => ch[2] \in Seq(Msg) /\ Len(ch[2]) \in Nat
  BY ChunkLens
<1>1. CASE cu # <<>>
  <2>1. /\ chunk = cu /\ Len(cu) >= 1 /\ Len(Tail(cu)) = Len(cu) - 1
        /\ \A i \in 1 .. Len(Tail(cu)) : i + 1 \in 1 .. Len(cu) /\ Tail(cu)[i] = cu[i + 1]
    BY <1>1
  <2>2. InChan(ch) \in Nat
    BY InChanType DEF Splits
  <2>3. g + 1 \in 1 .. Len(box) /\ cu[1] = box[g + 1]
    <3>1. 1 \in 1 .. Len(cu)
      BY <1>0, <2>1
    <3> QED BY <1>0, <2>1, <2>2, <3>1 DEF Splits
  <2>4. ASSUME box[g + 1].kind # "ready" PROVE Splits(box, g + 1, Tail(cu), ch)
    <3>1. (g + 1) + Len(Tail(cu)) = g + Len(cu)
      <4>1. Len(Tail(cu)) = Len(cu) - 1 /\ Len(cu) \in Int /\ Len(Tail(cu)) \in Int
        BY <1>0, <2>1
      <4>2. g \in Int
        OBVIOUS
      <4> QED BY <4>1, <4>2, Regroup
    <3>2. \A i \in 1 .. Len(Tail(cu)) : Tail(cu)[i] = box[(g + 1) + i]
      <4>1. \A i \in 1 .. Len(Tail(cu)) : g + (i + 1) = (g + 1) + i
        OBVIOUS
      <4>2. \A i \in 1 .. Len(cu) : cu[i] = box[g + i]
        BY DEF Splits
      <4>3. \A i \in 1 .. Len(Tail(cu)) : Tail(cu)[i] = box[g + (i + 1)]
        BY <2>1, <4>2
      <4> QED BY <4>1, <4>3
    <3> HIDE DEF InChan
    <3> QED BY <2>4, <3>1, <3>2 DEF Splits
  <2> QED BY <1>1, <2>1, <2>3, <2>4
<1>2. CASE cu = <<>>
  <2>1. /\ chunk = ch[1] /\ Len(ch) >= 1 /\ Len(cu) = 0 /\ 1 \in 1 .. Len(ch)
        /\ ch[1] \in Seq(Msg) /\ Len(ch[1]) \in Nat /\ Len(ch[1]) >= 1
    BY <1>0, <1>2
  <2>2. /\ Len(Tail(ch[1])) = Len(ch[1]) - 1
        /\ \A i \in 1 .. Len(Tail(ch[1])) :
             i + 1 \in 1 .. Len(ch[1]) /\ Tail(ch[1])[i] = ch[1][i + 1]
    BY <2>1
  <2>3. /\ Len(Tail(ch)) = Len(ch) - 1 /\ Len(ch) <= 2
        /\ Len(ch) > 1 => Tail(ch)[1] = ch[2] /\ Len(ch[2]) \in Nat
    BY <1>0, <2>1 DEF Splits, ChanCap
  <2>4. InChan(ch) = Len(ch[1]) + InChan(Tail(ch)) /\ InChan(Tail(ch)) \in Nat
    BY <2>1, InChanTail DEF Splits
  <2>5. g + Len(ch[1]) + InChan(Tail(ch)) = Len(box)
    BY <1>0, <2>1, <2>4 DEF Splits
  <2>6. g + 1 \in 1 .. Len(box)
    BY <1>0, <2>1, <2>4, <2>5
  <2>7. \A i \in 1 .. Len(ch[1]) : ch[1][i] = box[g + i]
    <3>1. \A i \in 1 .. Len(ch[1]) : ch[1][i] = box[g + Len(cu) + i]
      BY <2>1 DEF Splits
    <3>2. g + Len(cu) = g
      BY <2>1
    <3> QED BY <3>1, <3>2
  <2>8. ch[1][1] = box[g + 1]
    <3>1. 1 \in 1 .. Len(ch[1])
      BY <2>1
    <3> QED BY <2>7, <3>1
  <2>9. ASSUME box[g + 1].kind # "ready" PROVE Splits(box, g + 1, Tail(ch[1]), Tail(ch))
    <3>1. (g + 1) + Len(Tail(ch[1])) = g + Len(ch[1])
      <4>1. Len(Tail(ch[1])) = Len(ch[1]) - 1 /\ Len(ch[1]) \in Int /\ Len(Tail(ch[1])) \in Int
        BY <2>1, <2>2
      <4>2. g \in Int
        OBVIOUS
      <4> QED BY <4>1, <4>2, Regroup
    <3>2. \A i \in 1 .. Len(Tail(ch[1])) : Tail(ch[1])[i] = box[(g + 1) + i]
      <4>1. \A i \in 1 .. Len(Tail(ch[1])) : g + (i + 1) = (g + 1) + i
        OBVIOUS
      <4> QED BY <2>2, <2>7, <4>1
    <3>3. Len(Tail(ch)) <= ChanCap /\ ~(Len(Tail(ch)) > 1)
      BY <1>0, <2>3 DEF ChanCap
    <3>4. Len(Tail(ch)) > 0 =>
            \A i \in 1 .. Len(Tail(ch)[1]) : Tail(ch)[1][i] = box[(g + 1) + Len(Tail(ch[1])) + i]
      <4>1. Len(ch) > 1 => \A i \in 1 .. Len(ch[2]) : ch[2][i] = box[g + Len(cu) + Len(ch[1]) + i]
        BY DEF Splits
      <4>2. g + Len(cu) + Len(ch[1]) = g + Len(ch[1])
        BY <2>1
      <4>3. Len(Tail(ch)) > 0 => Len(ch) > 1
        BY <1>0, <2>3
      <4> QED BY <2>3, <3>1, <4>1, <4>2, <4>3
    <3>5. (g + 1) + Len(Tail(ch[1])) + InChan(Tail(ch)) = Len(box)
      BY <2>5, <3>1
    <3> QED BY <2>9, <3>2, <3>3, <3>4, <3>5 DEF Splits
  <2> QED BY <1>2, <2>1, <2>6, <2>8, <2>9
<1> QED BY <1>1, <1>2

\* A chunk is paged: it joins the channel.
LEMMA SplitsPage ==
  ASSUME NEW box \in Seq(Msg), NEW g \in Nat, NEW cu \in Seq(Msg), NEW ch \in Seq(Chunk),
         Splits(box, g, cu, ch), NEW c \in Chunk, Len(ch) < ChanCap
  PROVE  Splits(box \o c, g, cu, Append(ch, c))
<1> DEFINE box2 == box \o c
           ch2 == Append(ch, c)
<1>0. /\ Len(box) \in Nat /\ Len(ch) \in Nat /\ Len(cu) \in Nat /\ c \in Seq(Msg) /\ Len(c) \in Nat
      /\ Len(ch) > 0 => Len(ch[1]) \in Nat
  BY ChunkLens DEF Chunk
<1>1. /\ Len(box2) = Len(box) + Len(c)
      /\ \A i \in 1 .. Len(box) : box2[i] = box[i]
      /\ \A i \in 1 .. Len(c) : box2[Len(box) + i] = c[i]
  BY <1>0
<1>2. /\ Len(ch2) = Len(ch) + 1 /\ ch2[Len(ch) + 1] = c
      /\ Len(ch) = 1 => ch2[1] = ch[1]
      /\ Len(ch) \in {0, 1} /\ Len(ch2) <= ChanCap
  <2>1. Len(ch2) = Len(ch) + 1 /\ ch2[Len(ch) + 1] = c /\ (Len(ch) = 1 => ch2[1] = ch[1])
    OBVIOUS
  <2>2. Len(ch) \in {0, 1}
    <3>1. Len(ch) < 2 /\ Len(ch) \in Nat
      BY <1>0 DEF ChanCap
    <3>2. \A n \in Nat : n < 2 => n = 0 \/ n = 1
      OBVIOUS
    <3> QED BY <3>1, <3>2
  <2> QED BY <2>1, <2>2 DEF ChanCap
<1> HIDE DEF box2, ch2
<1>3. /\ InChan(ch2) = InChan(ch) + Len(c) /\ InChan(ch) \in Nat
      /\ InChan(ch) = IF Len(ch) = 1 THEN Len(ch[1]) ELSE 0
      /\ Len(ch) = 1 => Len(ch[1]) \in Nat
  <2>0. PICK b \in Nat : b = Len(c)
    BY <1>0
  <2>1. CASE Len(ch) = 0
    <3>1. Len(ch2[1]) = b /\ Len(ch2) = 1
      BY <1>2, <2>0, <2>1
    <3>2. InChan(ch2) = b /\ InChan(ch) = 0
      BY <2>1, <3>1, NoChunk, OneChunk
    <3> QED BY <2>0, <2>1, <3>2
  <2>2. CASE Len(ch) = 1
    <3>1. PICK a \in Nat : a = Len(ch[1])
      BY <1>0, <2>2
    <3>2. Len(ch2[1]) = a /\ Len(ch2[2]) = b /\ Len(ch2) = 2
      BY <1>2, <2>0, <2>2, <3>1
    <3>3. InChan(ch2) = a + b /\ InChan(ch) = a
      BY <2>2, <3>1, <3>2, OneChunk, TwoChunks
    <3> QED BY <2>0, <2>2, <3>1, <3>3
  <2> QED BY <1>2, <2>1, <2>2
<1>4. g + Len(cu) + InChan(ch) = Len(box) /\ Len(cu) + g <= Len(box) /\ g <= Len(box)
  <2>1. g + Len(cu) + InChan(ch) = Len(box)
    BY DEF Splits
  <2>2. InChan(ch) \in Nat
    BY <1>3
  <2> QED BY <1>0, <2>1, <2>2
<1>5. g + Len(cu) + InChan(ch2) = Len(box2)
  <2>1. Len(box2) = Len(box) + Len(c) /\ InChan(ch2) = InChan(ch) + Len(c) /\ InChan(ch) \in Nat
    BY <1>1, <1>3
  <2> QED BY <1>0, <1>4, <2>1
<1>6. \A i \in 1 .. Len(cu) : cu[i] = box2[g + i]
  <2>1. \A i \in 1 .. Len(cu) : g + i \in 1 .. Len(box)
    BY <1>0, <1>4
  <2> QED BY <1>1, <2>1 DEF Splits
<1>7. g > 0 => box2[g].kind # "ready"
  <2>1. g > 0 => g \in 1 .. Len(box)
    BY <1>0, <1>4
  <2> QED BY <1>1, <2>1 DEF Splits
<1>8. CASE Len(ch) = 0
  <2>1. Len(box) = g + Len(cu) /\ ch2[1] = c /\ Len(ch2) = 1
    BY <1>0, <1>2, <1>3, <1>4, <1>8
  <2>2. \A i \in 1 .. Len(c) : c[i] = box2[g + Len(cu) + i]
    BY <1>1, <2>1
  <2> QED BY <1>2, <1>5, <1>6, <1>7, <2>1, <2>2 DEF Splits, box2, ch2
<1>9. CASE Len(ch) = 1
  <2>1. Len(box) = g + Len(cu) + Len(ch[1]) /\ ch2[1] = ch[1] /\ ch2[2] = c /\ Len(ch2) = 2
    BY <1>0, <1>2, <1>3, <1>4, <1>9
  <2>2. \A i \in 1 .. Len(c) : c[i] = box2[g + Len(cu) + Len(ch[1]) + i]
    BY <1>1, <2>1
  <2>3. \A i \in 1 .. Len(ch[1]) : ch[1][i] = box2[g + Len(cu) + i]
    <3>1. \A i \in 1 .. Len(ch[1]) : g + Len(cu) + i \in 1 .. Len(box)
      BY <1>0, <1>3, <1>9, <2>1
    <3> QED BY <1>1, <1>9, <3>1 DEF Splits
  <2> QED BY <1>2, <1>5, <1>6, <1>7, <2>1, <2>2, <2>3 DEF Splits, box2, ch2
<1> QED BY <1>2, <1>8, <1>9

\* What the tasks see of the Connection.
taskView == <<task, chan, cur, got, inbox, requests>>

\* A step that shows the tasks nothing new.
LEMMA KeptTask ==
  ASSUME TaskInv, UNCHANGED taskView, Completed \in Int, Completed' \in Int,
         Completed <= Completed',
         \A r \in Request : sink'[r] = "none" => sink[r] = "none",
         result # "running" => result' # "running",
         pc' \in {"finished", "dropped"} => result' # "running"
  PROVE  TaskInv'
<1>1. \A r \in Request : Aligned(r)' = Aligned(r)
  BY DEF Aligned, taskView
<1>2. \A r \in Request : r <= Completed => r <= Completed'
  BY DEF Request
<1> QED BY <1>1, <1>2 DEF TaskInv, taskView

\* A step of one task.
LEMMA OneTask ==
  ASSUME TypeOK, TaskInv, NEW r \in Request, task[r] # "unsent", NEW t \in TaskState \ {"unsent"},
         task' = [task EXCEPT ![r] = t],
         UNCHANGED <<requests, inbox, receiver, responses, pc, result>>,
         \A q \in Request \ {r} : /\ chan'[q] = chan[q] /\ cur'[q] = cur[q]
                                  /\ got'[q] = got[q] /\ sink'[q] = sink[q],
         t = "waiting" => Aligned(r)',
         t = "done" /\ sink'[r] = "none" => got'[r] = Len(inbox[r]) /\ r <= Completed,
         t = "closed" => result # "running"
  PROVE  TaskInv'
<1>1. Completed' = Completed
  BY DEF Completed, Popped
<1>2. task'[r] = t /\ \A q \in Request \ {r} : task'[q] = task[q]
  BY DEF TypeOK, TaskTypeOK
<1>3. \A q \in Request \ {r} : Aligned(q)' = Aligned(q)
  BY DEF Aligned
<1>4. ASSUME NEW q \in Request
      PROVE  /\ task'[q] = "unsent" <=> q > Len(requests')
             /\ task'[q] \in {"unsent", "waiting"} => Aligned(q)'
             /\ task'[q] = "done" /\ sink'[q] = "none" =>
                  got'[q] = Len(inbox'[q]) /\ q <= Completed'
             /\ task'[q] = "closed" => result' # "running"
  <2>1. CASE q = r
    BY <1>1, <1>2, <2>1 DEF TaskInv
  <2>2. CASE q # r
    BY <1>1, <1>2, <1>3, <2>2 DEF TaskInv
  <2> QED BY <2>1, <2>2
<1> QED BY <1>4 DEF TaskInv

\* A dropped Responses concerns only its own request.
LEMMA DropOthers ==
  ASSUME TypeOK, NEW r \in Request, DropReceiver(r)
  PROVE  /\ \A q \in Request \ {r} :
              chan'[q] = chan[q] /\ cur'[q] = cur[q] /\ sink'[q] = sink[q]
         /\ sink'[r] = "none" <=> sink[r] = "none"
BY DEF DropReceiver, TypeOK, TaskTypeOK, SinkTypeOK

\* A task that is given a message.
LEMMA NextMessageTask ==
  ASSUME IInv, PagedInv, TaskInv, NEW r \in Request, NextMessage(r) PROVE TaskInv'
<1>0. /\ TypeOK /\ inbox[r] \in Seq(Msg) /\ got[r] \in Nat /\ cur[r] \in Seq(Msg)
      /\ chan[r] \in Seq(Chunk)
  BY DEF IInv, TypeOK, ConnTypeOK, TaskTypeOK
<1>1. PICK chunk : chunk = IF cur[r] = <<>> THEN chan[r][1] ELSE cur[r]
  OBVIOUS
<1>2. /\ task[r] = "waiting" /\ (cur[r] = <<>> => chan[r] # <<>>)
      /\ UNCHANGED <<requests, inbox, receiver, responses, pc, result>>
      /\ got' = [got EXCEPT ![r] = @ + 1]
      /\ task' = [task EXCEPT ![r] = Outcome(r, chunk[1])]
  BY <1>1 DEF NextMessage, PollsResponses, clientVars, connVars
<1>3. Splits(inbox[r], got[r], cur[r], chan[r])
  BY <1>2 DEF TaskInv, Aligned
<1>4. /\ got[r] + 1 \in 1 .. Len(inbox[r]) /\ chunk[1] = inbox[r][got[r] + 1]
      /\ inbox[r][got[r] + 1].kind # "ready" =>
           Splits(inbox[r], got[r] + 1, Tail(chunk), IF cur[r] = <<>> THEN Tail(chan[r]) ELSE chan[r])
  <2>1. PICK box \in Seq(Msg), g \in Nat, cu \in Seq(Msg), ch \in Seq(Chunk) :
          box = inbox[r] /\ g = got[r] /\ cu = cur[r] /\ ch = chan[r]
    BY <1>0
  <2>2. /\ Splits(box, g, cu, ch) /\ (cu = <<>> => ch # <<>>)
        /\ chunk = IF cu = <<>> THEN ch[1] ELSE cu
    BY <1>1, <1>2, <1>3, <2>1
  <2>3. /\ g + 1 \in 1 .. Len(box) /\ chunk[1] = box[g + 1]
        /\ box[g + 1].kind # "ready" =>
             Splits(box, g + 1, Tail(chunk), IF cu = <<>> THEN Tail(ch) ELSE ch)
    BY <2>2, SplitsNext
  <2> QED BY <2>1, <2>3
<1>5. PICK m : m = chunk[1]
  OBVIOUS
<1>6. got'[r] = got[r] + 1 /\ \A q \in Request \ {r} : got'[q] = got[q]
  BY <1>0, <1>2 DEF TypeOK, TaskTypeOK
<1>7. Outcome(r, m) \in TaskState \ {"unsent", "closed"}
  BY DEF Outcome, TaskState
<1>8. CASE Outcome(r, m) = "waiting"
  <2>1. m.kind # "ready"
    BY <1>8 DEF Outcome
  <2>2. /\ cur' = [cur EXCEPT ![r] = Tail(chunk)]
        /\ chan' = IF cur[r] = <<>> THEN [chan EXCEPT ![r] = Tail(@)] ELSE chan
        /\ sink' = IF sink[r] = "starting" THEN [sink EXCEPT ![r] = "active"] ELSE sink
    BY <1>1, <1>5, <1>8 DEF NextMessage
  <2>3. /\ cur'[r] = Tail(chunk)
        /\ chan'[r] = IF cur[r] = <<>> THEN Tail(chan[r]) ELSE chan[r]
        /\ \A q \in Request \ {r} :
             chan'[q] = chan[q] /\ cur'[q] = cur[q] /\ sink'[q] = sink[q]
    BY <1>0, <2>2 DEF TypeOK, TaskTypeOK, SinkTypeOK
  <2>4. Aligned(r)'
    BY <1>2, <1>4, <1>5, <1>6, <2>1, <2>3 DEF Aligned
  <2> QED BY <1>0, <1>2, <1>5, <1>6, <1>7, <1>8, <2>3, <2>4, OneTask
<1>9. CASE Outcome(r, m) # "waiting"
  <2>1. DropReceiver(r)
    BY <1>1, <1>5, <1>9 DEF NextMessage
  <2>2. /\ \A q \in Request \ {r} :
             chan'[q] = chan[q] /\ cur'[q] = cur[q] /\ sink'[q] = sink[q]
        /\ sink'[r] = "none" <=> sink[r] = "none"
    BY <1>0, <2>1, DropOthers
  <2>3. ASSUME Outcome(r, m) = "done", sink'[r] = "none"
        PROVE  got'[r] = Len(inbox[r]) /\ r <= Completed
    <3>1. m.kind = "ready"
      BY <2>2, <2>3 DEF Outcome
    <3> QED BY <1>4, <1>5, <1>6, <3>1 DEF PagedInv
  <2> QED BY <1>0, <1>2, <1>5, <1>6, <1>7, <1>9, <2>2, <2>3, OneTask
<1> QED BY <1>8, <1>9

\* A request that is neither queued nor unanswered has its whole answer.
LEMMA SenderDropped ==
  ASSUME IInv, NEW r \in Request, r <= Len(requests), ~SenderAlive(r), pc # "dropped"
  PROVE  r <= Completed
<1>1. /\ Len(requests) \in Nat /\ Len(receiver) \in Nat /\ Len(responses) \in Nat
      /\ Popped \in Int /\ Completed \in Int /\ r \in Int
  BY Counts DEF IInv, Request
<1>2. Popped = Len(requests) - Len(receiver) /\ Completed = Popped - Len(responses)
  BY DEF Popped, Completed
<1>3. SUFFICES ASSUME Completed < r PROVE FALSE
  BY <1>1
<1>4. CASE r > Popped
  <2>1. r - Popped \in 1 .. Len(receiver) /\ Popped + (r - Popped) = r
    BY <1>1, <1>2, <1>4
  <2>2. receiver[r - Popped] = r
    BY <2>1 DEF IInv, QueueInv
  <2> QED BY <2>1, <2>2 DEF SenderAlive
<1>5. CASE r <= Popped
  <2>1. r - Completed \in 1 .. Len(responses) /\ Completed + (r - Completed) = r
    BY <1>1, <1>2, <1>3, <1>5
  <2>2. responses[r - Completed] = r
    BY <2>1 DEF IInv, QueueInv
  <2> QED BY <2>1, <2>2 DEF SenderAlive
<1> QED BY <1>1, <1>4, <1>5

\* A task that finds its channel closed, or that drops its Responses.
LEMMA LeaveTask ==
  ASSUME IInv, TaskInv, NEW r \in Request, SeeClosed(r) \/ DropResponses(r) PROVE TaskInv'
<1>0. /\ TypeOK /\ inbox[r] \in Seq(Msg) /\ got[r] \in Nat /\ Len(requests) \in Nat
  BY Counts DEF IInv, TypeOK, ConnTypeOK, TaskTypeOK
<1>1. /\ UNCHANGED <<requests, inbox, receiver, responses, pc, result, got>> /\ DropReceiver(r)
  BY DEF SeeClosed, DropResponses, clientVars, connVars
<1>2. /\ \A q \in Request \ {r} :
           chan'[q] = chan[q] /\ cur'[q] = cur[q] /\ sink'[q] = sink[q]
      /\ sink'[r] = "none" <=> sink[r] = "none"
  BY <1>0, <1>1, DropOthers
<1>3. CASE DropResponses(r)
  <2>1. task[r] = "waiting" /\ task' = [task EXCEPT ![r] = "dropped"]
    BY <1>3 DEF DropResponses
  <2> QED BY <1>0, <1>1, <1>2, <2>1, OneTask DEF TaskState
<1>4. CASE SeeClosed(r)
  <2>1. task' = [task EXCEPT ![r] = "closed"]
    BY <1>4 DEF SeeClosed
  <2>2. CASE pc = "dropped"
    <3>1. task[r] # "unsent"
      <4>1. task[r] = "waiting" \/ sink[r] # "none"
        BY <1>4 DEF SeeClosed, PollsResponses
      <4>2. sink[r] # "none" => ~(r > Len(requests))
        BY DEF IInv, CopyInv
      <4> QED BY <4>1, <4>2 DEF TaskInv
    <3>2. result # "running"
      BY <2>2 DEF TaskInv
    <3> QED BY <1>0, <1>1, <1>2, <2>1, <3>1, <3>2, OneTask DEF TaskState
  <2>3. CASE pc # "dropped"
    <3>1. task[r] = "waiting" /\ cur[r] = <<>> /\ chan[r] = <<>> /\ ~SenderAlive(r)
      BY <1>4, <2>3 DEF SeeClosed, PollsResponses
    <3>2. r <= Len(requests)
      BY <1>0, <3>1 DEF TaskInv, Request
    <3>3. r <= Completed /\ Completed \in Int
      BY <2>3, <3>1, <3>2, SenderDropped, Counts DEF IInv
    <3>4. inbox[r] # <<>> /\ inbox[r][Len(inbox[r])].kind = "ready"
      <4>1. r \in 1 .. Completed
        BY <3>3 DEF Request
      <4> QED BY <4>1 DEF IInv, EndInv
    <3>5. Splits(inbox[r], got[r], <<>>, <<>>)
      BY <3>1 DEF TaskInv, Aligned
    <3>6. InChan(<<>>) = 0 /\ Len(<<>>) = 0
      BY NoChunk
    <3>7. got[r] = Len(inbox[r])
      BY <1>0, <3>5, <3>6 DEF Splits
    <3>8. Len(inbox[r]) > 0
      BY <1>0, <3>4
    <3> QED BY <3>4, <3>5, <3>7, <3>8 DEF Splits
  <2> QED BY <2>2, <2>3
<1> QED BY <1>3, <1>4

\* A request is submitted.
LEMMA SendTask == ASSUME IInv, TaskInv, NEW k \in Kind, Send(k) PROVE TaskInv'
<1>0. /\ TypeOK /\ requests \in Seq(Kind) /\ Len(requests) \in Nat /\ MaxRequests \in Nat
      /\ task \in [Request -> TaskState] /\ sink \in [Request -> SinkState]
  BY ConnectionAssumption DEF IInv, TypeOK, ClientTypeOK, TaskTypeOK, SinkTypeOK
<1>1. PICK r \in Request : r = Len(requests) + 1
  BY <1>0 DEF Send, Request
<1>2. /\ UNCHANGED <<chan, cur, got, inbox, pc, result>>
      /\ task' = [task EXCEPT ![r] = "waiting"]
      /\ sink' = [sink EXCEPT ![r] = IF k = "copy" THEN "created" ELSE "none"]
      /\ requests' = Append(requests, k)
  BY <1>1 DEF Send
<1>3. Len(requests') = Len(requests) + 1
  BY <1>0, <1>2
<1>4. Completed' = Completed
  BY <1>0 DEF Send, Completed, Popped, IInv, TypeOK, ConnTypeOK
<1>5. \A q \in Request : Aligned(q)' = Aligned(q)
  BY <1>2 DEF Aligned
<1>6. ASSUME NEW q \in Request
      PROVE  /\ task'[q] = "unsent" <=> q > Len(requests')
             /\ task'[q] \in {"unsent", "waiting"} => Aligned(q)'
             /\ task'[q] = "done" /\ sink'[q] = "none" =>
                  got'[q] = Len(inbox'[q]) /\ q <= Completed'
             /\ task'[q] = "closed" => result' # "running"
  <2>1. CASE q = r
    <3>1. task'[q] = "waiting"
      BY <1>0, <1>2, <2>1
    <3>2. r > Len(requests) /\ ~(r > Len(requests'))
      BY <1>0, <1>1, <1>3
    <3>3. Aligned(q)'
      BY <1>5, <2>1, <3>2 DEF TaskInv
    <3> QED BY <2>1, <3>1, <3>2, <3>3
  <2>2. CASE q # r
    <3>1. task'[q] = task[q] /\ sink'[q] = sink[q]
      BY <1>0, <1>2, <2>2
    <3>2. q > Len(requests) <=> q > Len(requests')
      BY <1>0, <1>1, <1>3, <2>2 DEF Request
    <3> QED BY <1>2, <1>4, <1>5, <3>1, <3>2 DEF TaskInv
  <2> QED BY <2>1, <2>2
<1> QED BY <1>2, <1>6 DEF TaskInv

\* A chunk is paged.
LEMMA PageTask ==
  ASSUME IInv, TaskInv, NEW c \in Chunk, NEW pend, NEW strm, ReadPage(c, pend, strm),
         pc = "read"
  PROVE  TaskInv'
<1>0. TypeOK /\ responses # <<>>
  BY DEF IInv, ReadPage
<1>1. PICK r \in Request : r = responses[1] /\ r = Completed + 1 /\ r <= Len(requests)
  BY <1>0, FrontRequest
<1>2. /\ UNCHANGED <<requests, receiver, task, cur, got, sink, pc, result>>
      /\ inbox' = [inbox EXCEPT ![r] = @ \o c] /\ responses' = AfterPage(c)
      /\ chan' = IF task[r] # "waiting" THEN chan ELSE [chan EXCEPT ![r] = Append(@, c)]
      /\ task[r] = "waiting" => Len(chan[r]) < ChanCap
  BY <1>1 DEF ReadPage, readFrame, ChanReady, ReceiverGone, clientVars, sinkVars
<1>3. Completed \in Int /\ Completed' \in Int /\ Completed <= Completed'
  <2>1. responses \in Seq(Request) /\ receiver \in Seq(Request) /\ requests \in Seq(Kind)
    BY <1>0 DEF TypeOK, ConnTypeOK, ClientTypeOK
  <2>2. Len(responses') \in {Len(responses), Len(responses) - 1}
    BY <1>0, <1>2, <2>1 DEF AfterPage
  <2> QED BY <1>2, <2>1, <2>2 DEF Completed, Popped
<1>4. /\ inbox'[r] = inbox[r] \o c
      /\ task[r] = "waiting" => chan'[r] = Append(chan[r], c)
      /\ \A q \in Request \ {r} : inbox'[q] = inbox[q] /\ chan'[q] = chan[q]
  BY <1>0, <1>2 DEF TypeOK, ConnTypeOK, TaskTypeOK
<1>5. ASSUME NEW q \in Request
      PROVE  /\ task[q] = "unsent" <=> q > Len(requests)
             /\ task[q] \in {"unsent", "waiting"} => Aligned(q)'
             /\ task[q] = "done" /\ sink[q] = "none" =>
                  got[q] = Len(inbox'[q]) /\ q <= Completed'
             /\ task[q] = "closed" => result # "running"
  <2>1. CASE q = r
    <3>1. task[q] # "unsent"
      <4>1. ~(r > Len(requests))
        BY <1>0, <1>1, Counts DEF Request
      <4> QED BY <2>1, <4>1 DEF TaskInv
    <3>2. ~(task[q] = "done" /\ sink[q] = "none")
      <4>1. ~(r <= Completed)
        BY <1>1, <1>3
      <4> QED BY <2>1, <4>1 DEF TaskInv
    <3>3. ASSUME task[q] = "waiting" PROVE Aligned(q)'
      <4>1. /\ inbox[r] \in Seq(Msg) /\ got[r] \in Nat /\ cur[r] \in Seq(Msg)
            /\ chan[r] \in Seq(Chunk)
        BY <1>0 DEF TypeOK, ConnTypeOK, TaskTypeOK
      <4>2. Splits(inbox[r], got[r], cur[r], chan[r]) /\ Len(chan[r]) < ChanCap
        BY <1>2, <2>1, <3>3 DEF TaskInv, Aligned
      <4>3. Splits(inbox[r] \o c, got[r], cur[r], Append(chan[r], c))
        BY <4>1, <4>2, SplitsPage
      <4> QED BY <1>2, <1>4, <2>1, <3>3, <4>3 DEF Aligned
    <3> QED BY <3>1, <3>2, <3>3 DEF TaskInv
  <2>2. CASE q # r
    <3>1. Aligned(q)' = Aligned(q)
      BY <1>2, <1>4, <2>2 DEF Aligned
    <3>2. q <= Completed => q <= Completed'
      BY <1>3 DEF Request
    <3> QED BY <1>4, <2>2, <3>1, <3>2 DEF TaskInv
  <2> QED BY <2>1, <2>2
<1> QED BY <1>2, <1>5 DEF TaskInv

\* poll_read keeps what the tasks have been given.
LEMMA ReadTask == ASSUME IInv, TaskInv, PollRead PROVE TaskInv'
<1>0. TypeOK /\ Completed \in Int /\ pc = "read"
  BY Counts DEF IInv, PollRead
<1>1. ASSUME UNCHANGED <<taskView, receiver, responses, sink>>,
             \/ pc' # "finished" /\ pc' # "dropped" /\ result' = result
             \/ result' = "error"
      PROVE  TaskInv'
  <2>1. Completed' = Completed
    BY <1>1 DEF taskView, Completed, Popped
  <2> QED BY <1>0, <1>1, <2>1, KeptTask
<1>2. CASE ReadSkip \/ ReadPending \/ ReadEof
  BY <1>0, <1>1, <1>2 DEF ReadSkip, ReadPending, ReadEof, Resolve, readFrame, taskView, clientVars,
     sinkVars
<1>3. ASSUME NEW c \in Chunk, NEW pend, NEW strm, ReadMessage(c, pend, strm) PROVE TaskInv'
  <2>1. CASE ReadPage(c, pend, strm)
    BY <1>0, <2>1, PageTask
  <2>2. CASE ReadAsync(c, pend, strm) \/ ReadUnexpected(c, pend, strm) \/ ReadBlocked(c, pend, strm)
    BY <1>0, <1>1, <2>2 DEF ReadAsync, ReadUnexpected, ReadBlocked, Resolve, readFrame, taskView,
       clientVars, sinkVars
  <2> QED BY <1>3, <2>1, <2>2 DEF ReadMessage
<1>4. CASE /\ pendingResponses # <<>>
           /\ ReadMessage(pendingResponses[1], Tail(pendingResponses), fromServer)
  <2>1. pendingResponses[1] \in Chunk
    BY <1>0, <1>4 DEF TypeOK, ConnTypeOK
  <2> QED BY <1>3, <1>4, <2>1
<1>5. ASSUME NEW k \in 1 .. Len(fromServer),
             ReadMessage(SubSeq(fromServer, 1, k), <<>>,
                         SubSeq(fromServer, k + 1, Len(fromServer)))
      PROVE  TaskInv'
  <2>1. SubSeq(fromServer, 1, k) \in Chunk
    BY <1>0, DecodeType DEF TypeOK
  <2> QED BY <1>3, <1>5, <2>1
<1> QED BY <1>2, <1>4, <1>5 DEF PollRead

\* The other steps show the tasks nothing new.
LEMMA OtherTask ==
  ASSUME IInv, TaskInv,
         \/ DropClient
         \/ \E r \in Request : CopyStart(r) \/ SinkPut(r) \/ SinkFlush(r) \/ BeginFinish(r)
                                 \/ FinishDone(r)
         \/ PollStart \/ PollWrite \/ PollFlush \/ PollEnd \/ IoError \/ DropConnection
         \/ Server \/ (\E k \in AsyncKind : ServerAsync(k)) \/ ServerClose \/ UNCHANGED vars
  PROVE  TaskInv'
<1>0. TypeOK /\ Completed \in Int
  BY Counts DEF IInv
<1>1. CASE \/ DropClient
           \/ \E r \in Request : CopyStart(r) \/ SinkPut(r) \/ SinkFlush(r) \/ BeginFinish(r)
                                   \/ FinishDone(r)
  <2>1. UNCHANGED <<taskView, pc, result>>
    BY <1>1 DEF DropClient, CopyStart, SinkPut, SinkFlush, BeginFinish, FinishDone, taskView,
       clientVars, taskVars, connVars
  <2>2. \A r \in Request : sink'[r] = "none" => sink[r] = "none"
    BY <1>0, <1>1 DEF DropClient, CopyStart, SinkPut, SinkFlush, BeginFinish, FinishDone, TypeOK,
       SinkTypeOK, sinkVars
  <2>3. Completed' = Completed
    BY <1>0, <1>1, CompletedKept DEF Application
  <2> QED BY <1>0, <2>1, <2>2, <2>3, KeptTask DEF TaskInv
<1>2. CASE \/ PollStart \/ PollWrite \/ PollFlush \/ PollEnd \/ IoError \/ DropConnection
           \/ UNCHANGED vars
  <2>1. Completed' = Completed
    BY <1>0, <1>2, CompletedKept
  <2>2. UNCHANGED <<taskView, sink>>
    BY <1>2 DEF PollStart, PollWrite, PollFlush, PollEnd, IoError, DropConnection, WriteClosing,
       WriteBackpressure, WriteTerminate, WriteIdle, WriteSingle, WriteCopy, WriteCopyPending,
       WriteCopyEnd, writeFrame, taskView, vars, clientVars, taskVars, sinkVars, connVars
  <2>3. /\ result # "running" => result' # "running"
        /\ pc' \in {"finished", "dropped"} => result' # "running"
    <3>1. CASE PollWrite
      <4>1. result' = result /\ pc' \in {"write", "end", "flush"}
        BY <3>1 DEF PollWrite, WriteClosing, WriteBackpressure, WriteTerminate, WriteIdle,
           WriteSingle, WriteCopy, WriteCopyPending, WriteCopyEnd
      <4> QED BY <4>1
    <3>2. CASE PollStart \/ PollFlush \/ PollEnd \/ IoError \/ DropConnection \/ UNCHANGED vars
      BY <3>2 DEF PollStart, PollFlush, PollEnd, IoError, DropConnection, Resolve, AfterMessage,
         vars, connVars, TaskInv
    <3> QED BY <1>2, <3>1, <3>2
  <2> QED BY <1>0, <2>1, <2>2, <2>3, KeptTask
<1>3. CASE Server \/ (\E k \in AsyncKind : ServerAsync(k)) \/ ServerClose
  <2>1. UNCHANGED <<taskView, sink, pc, result, receiver, responses>>
    BY <1>3 DEF Server, ServerRead, ServerAnswer, ServerRefusesCopy, Emit, ServerAsync, ServerClose,
       serverFrame, taskView, clientVars, taskVars, sinkVars, connVars
  <2>2. Completed' = Completed
    BY <2>1 DEF taskView, Completed, Popped
  <2> QED BY <1>0, <2>1, <2>2, KeptTask DEF TaskInv
<1> QED BY <1>1, <1>2, <1>3

\* The initial state.
LEMMA InitTask == Init => TaskInv
<1> SUFFICES ASSUME Init PROVE TaskInv
  OBVIOUS
<1>1. ASSUME NEW r \in Request
      PROVE  task[r] = "unsent" /\ r > Len(requests) /\ Aligned(r)
  <2>1. /\ task[r] = "unsent" /\ inbox[r] = <<>> /\ got[r] = 0 /\ cur[r] = <<>> /\ chan[r] = <<>>
        /\ requests = <<>>
    BY DEF Init
  <2>2. InChan(<<>>) = 0 /\ Len(<<>>) = 0
    BY NoChunk
  <2>3. Splits(<<>>, 0, <<>>, <<>>)
    BY <2>2 DEF Splits, ChanCap
  <2> QED BY <2>1, <2>3 DEF Aligned, Request
<1>2. pc = "parked"
  BY DEF Init
<1> QED BY <1>1, <1>2 DEF TaskInv

\* Every step keeps the invariant.
LEMMA NextDelivery == IInv /\ DeliveryInv /\ [Next]_vars => DeliveryInv'
<1> SUFFICES ASSUME IInv, DeliveryInv, [Next]_vars PROVE DeliveryInv'
  OBVIOUS
<1> USE DEF DeliveryInv
<1>1. CASE Application
  <2>1. FatalInv' /\ PlaceInv' /\ PagedInv'
    BY <1>1, OtherPlaces
  <2>2. TaskInv'
    BY <1>1, SendTask, NextMessageTask, LeaveTask, OtherTask DEF Application
  <2> QED BY <2>1, <2>2
<1>2. CASE PollRead
  BY <1>2, ReadPlaces, ReadTask
<1>3. CASE PollStart \/ PollWrite \/ PollFlush \/ PollEnd \/ IoError \/ DropConnection
           \/ UNCHANGED vars
  BY <1>3, OtherPlaces, OtherTask
<1>4. CASE Server \/ (\E k \in AsyncKind : ServerAsync(k)) \/ ServerClose
  BY <1>4, ServerPlaces, OtherTask
<1> QED BY <1>1, <1>2, <1>3, <1>4 DEF Next, Poll, Terminated

\* The invariants hold in every reachable state.
LEMMA Delivery == ASSUME ~EarlyCopyError PROVE Spec => [](IInv /\ DeliveryInv)
<1>1. Init => IInv /\ DeliveryInv
  BY InitRoute, InitPlaces, InitTask DEF DeliveryInv
<1>2. IInv /\ DeliveryInv /\ [Next]_vars => (IInv /\ DeliveryInv)'
  BY NextRoute, NextDelivery
<1> QED BY <1>1, <1>2, PTL DEF Spec

\* A request whose last message has been decoded has all of its answer.
LEMMA WholeAnswer ==
  ASSUME IInv, DeliveryInv, NEW r \in Request, r <= Completed
  PROVE  emitted[r] = Len(inbox[r])
<1>0. /\ TypeOK /\ Completed \in Int /\ r \in Int /\ r < Completed + 1 /\ r <= Seen
      /\ fromServer \in Seq(Msg) /\ Seen \in Int
  <2>1. TypeOK /\ Completed \in Int /\ r \in Int /\ fromServer \in Seq(Msg)
    BY Counts DEF IInv, TypeOK, WireTypeOK, Request
  <2>2. Seen \in {Completed, Completed + 1}
    BY DEF Seen
  <2> QED BY <2>1, <2>2
<1>1. ASSUME NEW i \in 1 .. Len(fromServer) PROVE fromServer[i].req # r
  <2>1. CASE fromServer[i].kind \in AnswerKind
    <3>1. Seen < fromServer[i].req
      BY <2>1 DEF IInv, StreamInv
    <3> QED BY <1>0, <3>1
  <2>2. CASE fromServer[i].kind \notin AnswerKind
    <3>1. fromServer[i].req = 0
      BY <1>0, <2>2 DEF Msg
    <3> QED BY <3>1 DEF Request
  <2> QED BY <2>1, <2>2
<1>2. emitted[r] = Decoded(r)
  BY <1>1 DEF DeliveryInv, PlaceInv
<1>3. r # Completed + 1
  BY <1>0
<1>4. inbox[r] # <<>> /\ inbox[r][Len(inbox[r])].kind = "ready"
  <2>1. r \in 1 .. Completed
    BY <1>0 DEF Request
  <2> QED BY <2>1 DEF IInv, EndInv
<1>5. Own(inbox[r]) = Len(inbox[r])
  BY <1>4 DEF Own
<1> QED BY <1>2, <1>3, <1>5 DEF Decoded

\* However many requests are pipelined, however the codec cuts the stream into
\* chunks and whatever waits in pending_responses, a request is paged its
\* answer in order with nothing missing; a task whose stream ended normally was
\* given every message the server sent it; and a task sees Error::closed only
\* after the Connection has resolved.
THEOREM AnswersAreWhole == ASSUME ~EarlyCopyError PROVE Spec => []NothingLost
<1>1. ASSUME IInv, DeliveryInv PROVE NothingLost
  <2>1. ASSUME NEW r \in Request, task[r] = "done", sink[r] = "none" PROVE got[r] = emitted[r]
    <3>1. got[r] = Len(inbox[r]) /\ r <= Completed
      BY <1>1, <2>1 DEF DeliveryInv, TaskInv
    <3> QED BY <1>1, <3>1, WholeAnswer
  <2> QED BY <1>1, <2>1 DEF NothingLost, DeliveryInv, TaskInv, PagedInv
<1> QED BY <1>1, Delivery, PTL

-----------------------------------------------------------------------------
(***************************************************************************)
(* A finished copy is a copy that was carried out.                         *)
(***************************************************************************)

\* Requests are added and copies carried out; neither is taken back.
Grows ==
  /\ Len(requests) <= Len(requests')
  /\ \A r \in 1 .. Len(requests) : requests'[r] = requests[r]
  /\ committed \subseteq committed'

\* No step takes back a request, or a copy that was carried out.
LEMMA NextGrows == ASSUME TypeOK, [Next]_vars PROVE Grows
<1>0. requests \in Seq(Kind) /\ Len(requests) \in Nat
  BY DEF TypeOK, ClientTypeOK
<1>1. \/ requests' = requests
      \/ \E k \in Kind : requests' = Append(requests, k)
  <2>1. CASE Application
    BY <2>1 DEF Application, Send, DropClient, NextMessage, SeeClosed, DropResponses, CopyStart,
       SinkPut, SinkFlush, BeginFinish, FinishDone, clientVars
  <2>2. CASE PollRead
    BY <2>2 DEF PollRead, ReadSkip, ReadPending, ReadEof, ReadMessage, ReadAsync, ReadUnexpected,
       ReadPage, ReadBlocked, readFrame, clientVars
  <2>3. CASE PollWrite
    BY <2>3 DEF PollWrite, WriteClosing, WriteBackpressure, WriteTerminate, WriteIdle,
       WriteSingle, WriteCopy, WriteCopyPending, WriteCopyEnd, writeFrame, clientVars
  <2>4. CASE PollStart \/ PollFlush \/ PollEnd \/ IoError \/ DropConnection \/ UNCHANGED vars
    BY <2>4 DEF PollStart, PollFlush, PollEnd, IoError, DropConnection, writeFrame, vars, clientVars
  <2>5. CASE Server \/ (\E k \in AsyncKind : ServerAsync(k)) \/ ServerClose
    BY <2>5 DEF Server, ServerRead, ServerAnswer, ServerRefusesCopy, Emit, ServerAsync, ServerClose,
       serverFrame, clientVars
  <2> QED BY <2>1, <2>2, <2>3, <2>4, <2>5 DEF Next, Poll, Terminated
<1>2. committed \subseteq committed'
  <2>1. CASE ServerRead
    BY <2>1 DEF ServerRead
  <2>2. CASE Application
    BY <2>2 DEF Application, Send, DropClient, NextMessage, SeeClosed, DropResponses, CopyStart,
       SinkPut, SinkFlush, BeginFinish, FinishDone, serverVars
  <2>3. CASE PollRead
    BY <2>3 DEF PollRead, ReadSkip, ReadPending, ReadEof, ReadMessage, ReadAsync, ReadUnexpected,
       ReadPage, ReadBlocked, readFrame, serverVars
  <2>4. CASE PollWrite
    BY <2>4 DEF PollWrite, WriteClosing, WriteBackpressure, WriteTerminate, WriteIdle,
       WriteSingle, WriteCopy, WriteCopyPending, WriteCopyEnd, writeFrame, serverVars
  <2>5. CASE PollStart \/ PollFlush \/ PollEnd \/ IoError \/ DropConnection \/ UNCHANGED vars
    BY <2>5 DEF PollStart, PollFlush, PollEnd, IoError, DropConnection, writeFrame, vars, serverVars
  <2>6. CASE ServerAnswer \/ ServerRefusesCopy \/ (\E k \in AsyncKind : ServerAsync(k)) \/ ServerClose
    BY <2>6 DEF ServerAnswer, ServerRefusesCopy, Emit, ServerAsync, ServerClose
  <2> QED BY <2>1, <2>2, <2>3, <2>4, <2>5, <2>6 DEF Next, Poll, Server, Terminated
<1>3. /\ Len(requests) <= Len(requests')
      /\ \A r \in 1 .. Len(requests) : requests'[r] = requests[r]
  BY <1>0, <1>1
<1> QED BY <1>2, <1>3 DEF Grows

\* What a request is, and that it was carried out, stays.
LEMMA GrownRequest ==
  ASSUME TypeOK, TypeOK', Grows, NEW r \in Request, r <= Len(requests)
  PROVE  /\ r <= Len(requests') /\ requests'[r] = requests[r]
         /\ r \in committed => r \in committed'
<1>1. Len(requests) \in Nat /\ Len(requests') \in Nat /\ r \in 1 .. Len(requests)
  BY DEF TypeOK, ClientTypeOK, Request
<1> QED BY <1>1 DEF Grows

\* A row that was sent stays one that was sent.
LEMMA GrownRow ==
  ASSUME TypeOK, TypeOK', Grows, NEW m \in Msg, RowOk(m) PROVE RowOk(m)'
<1>1. m.kind = "row" => m.req \in Request
  BY DEF Msg, LoneKind, AsyncKind
<1> QED BY <1>1, GrownRequest DEF RowOk

\* Steps that move no message of an answer.
LEMMA KeptRows ==
  ASSUME TypeOK, TypeOK', Grows, RowInv, UNCHANGED <<fromServer, inbox, pendingResponses>>
  PROVE  RowInv'
<1>1. fromServer \in Seq(Msg) /\ inbox \in [Request -> Seq(Msg)] /\ pendingResponses \in Seq(Chunk)
  BY DEF TypeOK, WireTypeOK, ConnTypeOK
<1>2. \A i \in 1 .. Len(fromServer) : fromServer[i] \in Msg
  BY <1>1
<1>3. \A r \in Request : \A i \in 1 .. Len(inbox[r]) : inbox[r][i] \in Msg
  BY <1>1
<1>4. Holds => \A i \in 1 .. Len(pendingResponses[1]) : pendingResponses[1][i] \in Msg
  BY <1>1 DEF Holds, Chunk
<1>5. Holds' = Holds
  BY DEF Holds, IsAsyncChunk, IsAsync
<1> QED BY <1>2, <1>3, <1>4, <1>5, GrownRow DEF RowInv

\* A message joins the stream.
LEMMA AppendRow ==
  ASSUME TypeOK, TypeOK', Grows, RowInv, UNCHANGED <<inbox, pendingResponses>>, NEW m \in Msg,
         fromServer' = Append(fromServer, m), RowOk(m)'
  PROVE  RowInv'
<1>1. fromServer \in Seq(Msg) /\ inbox \in [Request -> Seq(Msg)] /\ pendingResponses \in Seq(Chunk)
  BY DEF TypeOK, WireTypeOK, ConnTypeOK
<1>2. \A i \in 1 .. Len(fromServer) : fromServer[i] \in Msg
  BY <1>1
<1>3. \A r \in Request : \A i \in 1 .. Len(inbox[r]) : inbox[r][i] \in Msg
  BY <1>1
<1>4. Holds => \A i \in 1 .. Len(pendingResponses[1]) : pendingResponses[1][i] \in Msg
  BY <1>1 DEF Holds, Chunk
<1>5. Holds' = Holds
  BY DEF Holds, IsAsyncChunk, IsAsync
<1>6. \A i \in 1 .. Len(fromServer') :
        fromServer'[i] = m \/ (i \in 1 .. Len(fromServer) /\ fromServer'[i] = fromServer[i])
  BY <1>1
<1>7. (\A i \in 1 .. Len(fromServer) : RowOk(fromServer[i]))'
  <2>1. \A x \in Msg : RowOk(x) => RowOk(x)'
    BY GrownRow
  <2>3. ASSUME NEW i \in 1 .. Len(fromServer') PROVE (RowOk(fromServer[i]))'
    <3>1. CASE fromServer'[i] = m
      BY <3>1 DEF RowOk
    <3>2. CASE i \in 1 .. Len(fromServer) /\ fromServer'[i] = fromServer[i]
      <4>1. PICK x \in Msg : x = fromServer[i]
        BY <1>2, <3>2
      <4>2. RowOk(x)'
        BY <2>1, <3>2, <4>1 DEF RowInv
      <4> QED BY <3>2, <4>1, <4>2 DEF RowOk
    <3> QED BY <1>6, <3>1, <3>2
  <2> QED BY <2>3
<1>8. (\A r \in Request : \A i \in 1 .. Len(inbox[r]) : RowOk(inbox[r][i]))'
  BY <1>3, GrownRow DEF RowInv
<1>9. (Holds => \A i \in 1 .. Len(pendingResponses[1]) : RowOk(pendingResponses[1][i]))'
  BY <1>4, <1>5, GrownRow DEF RowInv
<1> QED BY <1>7, <1>8, <1>9 DEF RowInv

\* poll_read moves the messages as they are.
LEMMA MovedRows ==
  ASSUME TypeOK, RowInv, NEW c \in Chunk, NEW pend \in Seq(Chunk), NEW strm \in Seq(Msg),
         pend # <<>> => IsAsyncChunk(pend[1]),
         ~IsAsyncChunk(c) => \A i \in 1 .. Len(c) : RowOk(c[i]),
         \A i \in 1 .. Len(strm) : RowOk(strm[i]),
         ReadMessage(c, pend, strm)
  PROVE  RowInv'
<1>1. /\ UNCHANGED <<requests, committed>> /\ fromServer' = strm
      /\ pendingResponses' = pend \/ (pendingResponses' = Append(pend, c) /\ ~IsAsyncChunk(c))
  BY DEF ReadMessage, ReadAsync, ReadUnexpected, ReadPage, ReadBlocked, readFrame, clientVars,
     serverVars
<1>2. \A m : RowOk(m)' <=> RowOk(m)
  BY <1>1 DEF RowOk
<1>3. \A r \in Request : \A i \in 1 .. Len(inbox'[r]) : RowOk(inbox'[r][i])
  <2>1. CASE inbox' = inbox
    BY <2>1 DEF RowInv
  <2>2. CASE ReadPage(c, pend, strm)
    <3>1. PICK q \in Request : q = responses[1]
      BY <2>2 DEF ReadPage, TypeOK, ConnTypeOK
    <3>2. inbox' = [inbox EXCEPT ![q] = @ \o c] /\ ~IsAsyncChunk(c)
      BY <2>2, <3>1 DEF ReadPage
    <3>3. inbox \in [Request -> Seq(Msg)] /\ c \in Seq(Msg)
      BY DEF TypeOK, ConnTypeOK, Chunk
    <3>4. ASSUME NEW r \in Request, NEW i \in 1 .. Len(inbox'[r]) PROVE RowOk(inbox'[r][i])
      <4>1. CASE r # q
        BY <3>2, <3>3, <3>4, <4>1 DEF RowInv
      <4>2. CASE r = q
        <5>1. inbox'[r] = inbox[r] \o c /\ inbox[r] \in Seq(Msg)
          BY <3>2, <3>3, <4>2
        <5>2. \/ i \in 1 .. Len(inbox[r]) /\ inbox'[r][i] = inbox[r][i]
              \/ \E j \in 1 .. Len(c) : inbox'[r][i] = c[j]
          <6>1. i \in 1 .. Len(inbox[r]) + Len(c) /\ Len(inbox[r]) \in Nat /\ Len(c) \in Nat
            BY <3>3, <3>4, <5>1
          <6>2. CASE i <= Len(inbox[r])
            BY <3>3, <5>1, <6>1, <6>2
          <6>3. CASE i > Len(inbox[r])
            <7>1. i - Len(inbox[r]) \in 1 .. Len(c) /\ inbox'[r][i] = c[i - Len(inbox[r])]
              BY <3>3, <5>1, <6>1, <6>3
            <7> QED BY <7>1
          <6> QED BY <6>1, <6>2, <6>3
        <5> QED BY <3>2, <5>2 DEF RowInv
      <4> QED BY <4>1, <4>2
    <3> QED BY <3>4
  <2> QED BY <2>1, <2>2 DEF ReadMessage, ReadAsync, ReadUnexpected, ReadBlocked
<1>4. ASSUME Holds' PROVE \A i \in 1 .. Len(pendingResponses'[1]) : RowOk(pendingResponses'[1][i])
  <2>1. pendingResponses' # <<>> /\ ~IsAsync(pendingResponses'[1][1])
    BY <1>4 DEF Holds, IsAsyncChunk, IsAsync
  <2>2. CASE pend = <<>>
    <3>1. pendingResponses' = <<c>> /\ ~IsAsyncChunk(c)
      BY <1>1, <2>1, <2>2
    <3> QED BY <3>1
  <2>3. CASE pend # <<>>
    <3>1. pendingResponses'[1] = pend[1]
      BY <1>1, <2>3
    <3> QED BY <2>1, <2>3, <3>1 DEF IsAsyncChunk
  <2> QED BY <2>2, <2>3
<1> QED BY <1>1, <1>2, <1>3, <1>4 DEF RowInv

\* What waits behind a chunk in pending_responses is a notice.
LEMMA HeldTail ==
  ASSUME IInv, pendingResponses # <<>>, Tail(pendingResponses) # <<>>
  PROVE  IsAsyncChunk(Tail(pendingResponses)[1])
<1>1. pendingResponses \in Seq(Chunk) /\ Len(pendingResponses) \in Nat /\ Len(pendingResponses) >= 1
  BY DEF IInv, TypeOK, ConnTypeOK
<1>2. CASE Len(pendingResponses) = 1
  <2>1. PICK c : pendingResponses = <<c>>
    BY <1>1, <1>2
  <2>2. Tail(<<c>>) = <<>>
    OBVIOUS
  <2> QED BY <2>1, <2>2
<1>3. CASE Len(pendingResponses) > 1
  <2>1. 2 \in 1 .. Len(pendingResponses) /\ Tail(pendingResponses)[1] = pendingResponses[2]
    BY <1>1, <1>3
  <2> QED BY <1>3, <2>1 DEF IInv, HeldInv, HeldAlone
<1> QED BY <1>1, <1>2, <1>3

\* poll_read routes only rows the server has sent.
LEMMA ReadRows == ASSUME IInv, RowInv, PollRead PROVE RowInv'
<1>0. TypeOK /\ pendingResponses \in Seq(Chunk) /\ fromServer \in Seq(Msg)
  BY DEF IInv, TypeOK, ConnTypeOK, WireTypeOK
<1>1. CASE ReadSkip \/ ReadPending \/ ReadEof
  <2>1. UNCHANGED <<requests, committed, fromServer, inbox, pendingResponses>>
    BY <1>1 DEF ReadSkip, ReadPending, ReadEof, readFrame, clientVars, serverVars
  <2> QED BY <2>1 DEF RowInv, RowOk, Holds, IsAsyncChunk, IsAsync
<1>2. CASE /\ pendingResponses # <<>>
           /\ ReadMessage(pendingResponses[1], Tail(pendingResponses), fromServer)
  <2>1. pendingResponses[1] \in Chunk /\ Tail(pendingResponses) \in Seq(Chunk)
    BY <1>0, <1>2
  <2>2. Tail(pendingResponses) # <<>> => IsAsyncChunk(Tail(pendingResponses)[1])
    BY <1>0, <1>2, HeldTail
  <2>3. ~IsAsyncChunk(pendingResponses[1]) =>
          \A i \in 1 .. Len(pendingResponses[1]) : RowOk(pendingResponses[1][i])
    BY <1>2 DEF RowInv, Holds
  <2>4. \A i \in 1 .. Len(fromServer) : RowOk(fromServer[i])
    BY DEF RowInv
  <2> QED BY <1>0, <1>2, <2>1, <2>2, <2>3, <2>4, MovedRows
<1>3. ASSUME pendingResponses = <<>>, NEW k \in 1 .. Len(fromServer),
             ReadMessage(SubSeq(fromServer, 1, k), <<>>,
                         SubSeq(fromServer, k + 1, Len(fromServer)))
      PROVE  RowInv'
  <2>1. PICK c \in Chunk, strm \in Seq(Msg) :
          c = SubSeq(fromServer, 1, k) /\ strm = SubSeq(fromServer, k + 1, Len(fromServer))
    BY <1>0, DecodeType DEF TypeOK
  <2>2. \A i \in 1 .. Len(c) : i \in 1 .. Len(fromServer) /\ c[i] = fromServer[i]
    BY <1>0, <2>1
  <2>3. \A i \in 1 .. Len(strm) : i + k \in 1 .. Len(fromServer) /\ strm[i] = fromServer[i + k]
    BY <1>0, <2>1
  <2>4. (\A i \in 1 .. Len(c) : RowOk(c[i])) /\ \A i \in 1 .. Len(strm) : RowOk(strm[i])
    BY <2>2, <2>3 DEF RowInv
  <2>5. ReadMessage(c, <<>>, strm)
    BY <1>3, <2>1
  <2>6. <<>> \in Seq(Chunk)
    OBVIOUS
  <2> QED BY <1>0, <2>4, <2>5, <2>6, MovedRows
<1> QED BY <1>1, <1>2, <1>3 DEF PollRead

\* The frontend messages and the server's modes.
LEMMA KeptQuery ==
  ASSUME TypeOK, TypeOK', Grows, QueryInv, UNCHANGED srv,
         \A i \in 1 .. Len(outbound') : outbound'[i].kind = "query" =>
           \/ \E j \in 1 .. Len(outbound) : outbound'[i] = outbound[j]
           \/ /\ outbound'[i].req \in Request /\ outbound'[i].req <= Len(requests)
              /\ requests[outbound'[i].req] = "single"
  PROVE  QueryInv'
<1>1. srv.mode # "idle" => srv.req \in Request
  BY DEF TypeOK, ServerTypeOK, ServerState
<1>2. srv.mode = "busy" => srv.req <= Len(requests') /\ requests'[srv.req] = "single"
  BY <1>1, GrownRequest DEF QueryInv
<1>3. srv.mode = "complete" => srv.req <= Len(requests') /\ srv.req \in committed'
  BY <1>1, GrownRequest DEF QueryInv
<1>4. ASSUME NEW i \in 1 .. Len(outbound'), outbound'[i].kind = "query"
      PROVE  outbound'[i].req <= Len(requests') /\ requests'[outbound'[i].req] = "single"
  <2>1. PICK m : m = outbound'[i]
    OBVIOUS
  <2>2. m.req \in Request
    <3>1. outbound' \in Seq(OutMsg)
      BY DEF TypeOK, WireTypeOK
    <3> QED BY <1>4, <2>1, <3>1 DEF OutMsg
  <2>3. m.req <= Len(requests) /\ requests[m.req] = "single"
    BY <1>4, <2>1 DEF QueryInv
  <2>4. m.req <= Len(requests') /\ requests'[m.req] = requests[m.req]
    BY <2>2, <2>3, GrownRequest
  <2> QED BY <2>1, <2>3, <2>4
<1> QED BY <1>2, <1>3, <1>4 DEF QueryInv

\* poll_write writes Query only for a request that is one.
LEMMA WriteQuery ==
  ASSUME IInv, TypeOK', Grows, QueryInv, PollWrite PROVE QueryInv'
<1>0. TypeOK /\ outbound \in Seq(OutMsg) /\ Len(outbound) \in Nat
  BY DEF IInv, TypeOK, WireTypeOK
<1>1. srv' = srv
  BY DEF PollWrite, WriteClosing, WriteBackpressure, WriteTerminate, WriteIdle, WriteSingle,
     WriteCopy, WriteCopyPending, WriteCopyEnd, writeFrame, serverVars
<1>2. ASSUME NEW m, outbound' = Append(outbound, m),
             m.kind = "query" => m.req \in Request /\ m.req <= Len(requests)
                                   /\ requests[m.req] = "single"
      PROVE  QueryInv'
  <2>1. \A i \in 1 .. Len(outbound') :
          outbound'[i] = m \/ (i \in 1 .. Len(outbound) /\ outbound'[i] = outbound[i])
    BY <1>0, <1>2
  <2> QED BY <1>0, <1>1, <1>2, <2>1, KeptQuery
<1>3. CASE WriteSingle
  <2>1. PICK r \in Request : r = receiver[1]
    BY <1>0, <1>3 DEF WriteSingle, TypeOK, ConnTypeOK
  <2>2. r <= Len(requests)
    <3>1. 1 \in 1 .. Len(receiver) /\ Len(receiver) \in Nat /\ Len(requests) \in Nat
      <4>1. receiver \in Seq(Request) /\ requests \in Seq(Kind)
        BY <1>0 DEF TypeOK, ConnTypeOK, ClientTypeOK
      <4>2. receiver # <<>>
        BY <1>3 DEF WriteSingle
      <4> QED BY <4>1, <4>2
    <3>2. r = Popped + 1
      BY <2>1, <3>1 DEF IInv, QueueInv
    <3> QED BY <3>1, <3>2 DEF Popped
  <2>3. outbound' = Append(outbound, Out("query", r, 0)) /\ requests[r] = "single"
    BY <1>3, <2>1 DEF WriteSingle
  <2>4. Out("query", r, 0).req = r
    BY DEF Out
  <2> QED BY <1>2, <2>2, <2>3, <2>4
<1>4. CASE WriteTerminate
  <2>1. outbound' = Append(outbound, Out("terminate", 0, 0)) /\ Out("terminate", 0, 0).kind # "query"
    BY <1>4 DEF WriteTerminate, Out
  <2> QED BY <1>2, <2>1
<1>5. ASSUME NEW r \in Request, WriteCopy(r) PROVE QueryInv'
  <2>1. PICK k, n : outbound' = Append(outbound, Out(k, r, n)) /\ k # "query"
    <3>1. copyChan[r] # <<>> => copyChan[r][1].kind # "query"
      <4>1. copyChan[r] \in Seq(CopyMsg)
        BY <1>0 DEF TypeOK, SinkTypeOK
      <4>2. copyChan[r] # <<>> => copyChan[r][1] \in CopyMsg
        BY <4>1
      <4> QED BY <4>2 DEF CopyMsg
    <3> QED BY <1>5, <3>1 DEF WriteCopy, AbandonedCopy
  <2>2. Out(k, r, n).kind # "query"
    BY <2>1 DEF Out
  <2> QED BY <1>2, <2>1, <2>2
<1>6. CASE outbound' = outbound
  BY <1>0, <1>1, <1>6, KeptQuery
<1> QED BY <1>3, <1>4, <1>5, <1>6 DEF PollWrite, WriteClosing, WriteBackpressure, WriteIdle,
        WriteCopyPending, WriteCopyEnd, FlushSocket

\* The server is made busy by a Query, complete by CopyDone.
LEMMA ServerReadQuery ==
  ASSUME IInv, TypeOK', Grows, QueryInv, ServerRead PROVE QueryInv'
<1>0. /\ TypeOK /\ outbound \in Seq(OutMsg) /\ flushed \in 0 .. Len(outbound) /\ Len(outbound) \in Nat
      /\ srv \in ServerState /\ requests' = requests
  BY DEF IInv, TypeOK, WireTypeOK, ServerTypeOK, ServerRead, serverFrame, clientVars
<1>1. PICK m : m = outbound[1] /\ outbound' = Tail(outbound) /\ Len(outbound) >= 1
               /\ 1 \in 1 .. Len(outbound)
  BY <1>0 DEF ServerRead
<1>2. \A i \in 1 .. Len(outbound') : i + 1 \in 1 .. Len(outbound) /\ outbound'[i] = outbound[i + 1]
  BY <1>0, <1>1
<1>3. \A i \in 1 .. Len(outbound') : outbound'[i].kind = "query" =>
        outbound'[i].req <= Len(requests') /\ requests'[outbound'[i].req] = "single"
  BY <1>0, <1>2 DEF QueryInv
<1>4. srv'.mode = "busy" => srv'.req <= Len(requests') /\ requests'[srv'.req] = "single"
  <2>1. srv'.mode = "busy" => m.kind = "query" /\ srv'.req = m.req
    BY <1>0, <1>1 DEF ServerRead, Serve, ServerState
  <2> QED BY <1>0, <1>1, <2>1 DEF QueryInv
<1>5. srv'.mode = "complete" => srv'.req <= Len(requests') /\ srv'.req \in committed'
  <2>1. srv'.mode = "complete" => srv.mode = "copy" /\ srv'.req = srv.req /\ srv.req \in committed'
    BY <1>0, <1>1 DEF ServerRead, Serve, ServerState
  <2>2. srv.mode = "copy" => srv.req <= Len(requests)
    <3>1. srv.mode = "copy" => srv.req <= Popped /\ srv.req \in Int
      BY <1>0 DEF IInv, ServerInv, ServerState, Request
    <3>2. Popped <= Len(requests) /\ Popped \in Int /\ Len(requests) \in Nat
      BY <1>0, Counts DEF Popped
    <3> QED BY <3>1, <3>2
  <2> QED BY <1>0, <2>1, <2>2
<1> QED BY <1>3, <1>4, <1>5 DEF QueryInv

\* The server answers: CommandComplete for a query, or for a copy carried out.
LEMMA EmitCommit ==
  ASSUME IInv, TypeOK', Grows, QueryInv, RowInv, ServerAnswer \/ ServerRefusesCopy
  PROVE  QueryInv' /\ RowInv'
<1>0. TypeOK /\ srv \in ServerState
  BY DEF IInv, TypeOK, ServerTypeOK
<1>1. PICK k \in AnswerKind, mode \in {"busy", "idle", "ending", "copy", "skip"} :
        /\ Emit(k, mode) /\ srv.mode # "idle"
        /\ mode = "busy" => srv.mode = "busy"
        /\ k = "row" => srv.mode \in {"busy", "complete"}
  <2> USE DEF AnswerKind
  <2>1. CASE srv.mode = "busy" /\ Emit("row", "busy")
    BY <2>1
  <2>2. CASE srv.mode = "complete" /\ Emit("row", "ending")
    BY <2>2
  <2>3. CASE \E k \in {"error", "ready"}, mode \in {"ending", "idle", "skip"} :
               Emit(k, mode) /\ srv.mode # "idle"
    BY <2>3
  <2>4. CASE srv.mode = "copystart" /\ Emit("copyin", "copy")
    BY <2>4
  <2> QED BY <2>1, <2>2, <2>3, <2>4 DEF ServerAnswer, ServerRefusesCopy
<1>2. srv.req \in Request
  BY <1>0, <1>1 DEF ServerState
<1>3. PICK m \in Msg : m = [kind |-> k, req |-> srv.req, idx |-> emitted[srv.req] + 1]
  <2>1. emitted[srv.req] \in Nat
    BY <1>0, <1>2 DEF TypeOK, ServerTypeOK
  <2>2. emitted[srv.req] + 1 \in Nat \ {0}
    BY <2>1
  <2>3. k \in AnswerKind
    BY <1>1
  <2> QED BY <1>2, <2>2, <2>3 DEF Msg
<1>4. /\ fromServer' = Append(fromServer, m)
      /\ UNCHANGED <<requests, committed, inbox, pendingResponses, outbound>>
      /\ srv' = [mode |-> mode, req |-> IF mode = "idle" THEN 0 ELSE srv.req]
  BY <1>1, <1>3 DEF Emit, serverFrame, clientVars, connVars
<1>5. RowOk(m)
  BY <1>1, <1>3 DEF RowOk, QueryInv
<1>6. RowOk(m)'
  BY <1>0, <1>5, GrownRow
<1>7. RowInv'
  BY <1>0, <1>4, <1>6, AppendRow
<1>8. srv'.mode = mode /\ (mode = "busy" => srv'.req = srv.req)
  BY <1>4
<1>9. QueryInv'
  BY <1>1, <1>4, <1>8 DEF QueryInv
<1> QED BY <1>7, <1>9

\* A task takes the end of its copy from a CommandComplete of its own.
LEMMA OutcomeCommit ==
  ASSUME IInv, DeliveryInv, CommitInv, NEW r \in Request, NextMessage(r),
         task'[r] = "done", sink'[r] # "none"
  PROVE  r \in committed
<1>0. /\ TypeOK /\ inbox[r] \in Seq(Msg) /\ got[r] \in Nat /\ cur[r] \in Seq(Msg)
      /\ chan[r] \in Seq(Chunk) /\ task \in [Request -> TaskState]
      /\ sink \in [Request -> SinkState]
  BY DEF IInv, TypeOK, ConnTypeOK, TaskTypeOK, SinkTypeOK
<1>1. PICK chunk : chunk = IF cur[r] = <<>> THEN chan[r][1] ELSE cur[r]
  OBVIOUS
<1>2. PICK m : m = chunk[1]
  OBVIOUS
<1>3. /\ task[r] = "waiting" /\ (cur[r] = <<>> => chan[r] # <<>>)
      /\ task' = [task EXCEPT ![r] = Outcome(r, m)]
  BY <1>1, <1>2 DEF NextMessage, PollsResponses
<1>4. Splits(inbox[r], got[r], cur[r], chan[r])
  BY <1>3 DEF DeliveryInv, TaskInv, Aligned
<1>5. got[r] + 1 \in 1 .. Len(inbox[r]) /\ m = inbox[r][got[r] + 1]
  <2>1. /\ inbox[r] \in Seq(Msg) /\ got[r] \in Nat /\ cur[r] \in Seq(Msg) /\ chan[r] \in Seq(Chunk)
        /\ cur[r] = <<>> => chan[r] # <<>>
    BY <1>0, <1>3
  <2>2. got[r] + 1 \in 1 .. Len(inbox[r]) /\ chunk[1] = inbox[r][got[r] + 1]
    BY <1>1, <1>4, <2>1, SplitsNext
  <2> QED BY <1>2, <2>2
<1>6. Outcome(r, m) = "done"
  BY <1>0, <1>3
<1>7. sink[r] # "none"
  <2>1. DropReceiver(r)
    BY <1>1, <1>2, <1>6 DEF NextMessage
  <2> QED BY <1>0, <2>1, DropOthers
<1>8. m.kind = "row"
  BY <1>6, <1>7 DEF Outcome
<1>9. m.req = r /\ RowOk(m)
  BY <1>5, <1>8 DEF IInv, RoutedToOwner, CommitInv, RowInv
<1>10. requests[r] # "single"
  BY <1>7 DEF CommitInv, SinksInv
<1> QED BY <1>8, <1>9, <1>10 DEF RowOk

\* Steps that end no copy.
LEMMA KeptSinks ==
  ASSUME TypeOK, TypeOK', Grows, SinksInv,
         \A r \in Request :
           /\ sink'[r] # "none" => sink[r] # "none"
           /\ task'[r] = "done" /\ sink'[r] # "none" => task[r] = "done" \/ r \in committed
  PROVE  SinksInv'
BY GrownRequest DEF SinksInv

\* What the application does keeps the state of every CopyInSink.
LEMMA ApplicationSinks ==
  ASSUME IInv, DeliveryInv, CommitInv, TypeOK', Grows, Application PROVE SinksInv'
<1>0. /\ TypeOK /\ SinksInv /\ task \in [Request -> TaskState] /\ sink \in [Request -> SinkState]
  BY DEF IInv, CommitInv, TypeOK, TaskTypeOK, SinkTypeOK
<1>1. ASSUME NEW k \in Kind, Send(k) PROVE SinksInv'
  <2>1. requests \in Seq(Kind) /\ Len(requests) \in Nat /\ MaxRequests \in Nat
    BY <1>0, ConnectionAssumption DEF TypeOK, ClientTypeOK
  <2>2. PICK r \in Request : r = Len(requests) + 1
    BY <1>1, <2>1 DEF Send, Request
  <2>3. /\ task' = [task EXCEPT ![r] = "waiting"] /\ requests' = Append(requests, k)
        /\ sink' = [sink EXCEPT ![r] = IF k = "copy" THEN "created" ELSE "none"]
    BY <1>1, <2>2 DEF Send
  <2>4. Len(requests') = r /\ requests'[r] = k
    BY <2>1, <2>2, <2>3
  <2>5. ASSUME NEW q \in Request
        PROVE  /\ sink'[q] # "none" => q <= Len(requests') /\ requests'[q] = "copy"
               /\ task'[q] = "done" /\ sink'[q] # "none" => q \in committed'
    <3>1. CASE q = r
      BY <1>0, <2>3, <2>4, <3>1 DEF Request
    <3>2. CASE q # r
      BY <1>0, <2>3, <3>2, GrownRequest DEF SinksInv
    <3> QED BY <3>1, <3>2
  <2> QED BY <2>5 DEF SinksInv
<1>2. ASSUME NEW r \in Request, NextMessage(r) PROVE SinksInv'
  <2>1. /\ \A q \in Request \ {r} : task'[q] = task[q] /\ sink'[q] = sink[q]
        /\ sink'[r] # "none" => sink[r] # "none"
    BY <1>0, <1>2 DEF NextMessage, DropReceiver
  <2>2. task'[r] = "done" /\ sink'[r] # "none" => r \in committed
    BY <1>2, OutcomeCommit
  <2> QED BY <1>0, <2>1, <2>2, KeptSinks
<1>3. ASSUME NEW r \in Request, SeeClosed(r) \/ DropResponses(r) PROVE SinksInv'
  <2>1. /\ \A q \in Request \ {r} : task'[q] = task[q] /\ sink'[q] = sink[q]
        /\ sink'[r] # "none" => sink[r] # "none"
        /\ task'[r] \in {"closed", "dropped"}
    BY <1>0, <1>3 DEF SeeClosed, DropResponses, DropReceiver
  <2> QED BY <1>0, <2>1, KeptSinks
<1>4. ASSUME NEW r \in Request,
             CopyStart(r) \/ SinkPut(r) \/ SinkFlush(r) \/ BeginFinish(r) \/ FinishDone(r)
      PROVE  SinksInv'
  <2>1. task' = task /\ \A q \in Request : sink'[q] # "none" => sink[q] # "none"
    BY <1>0, <1>4 DEF CopyStart, SinkPut, SinkFlush, BeginFinish, FinishDone, taskVars
  <2> QED BY <1>0, <2>1, KeptSinks
<1>5. CASE DropClient
  BY <1>0, <1>5, KeptSinks DEF DropClient, taskVars, sinkVars
<1> QED BY <1>1, <1>2, <1>3, <1>4, <1>5 DEF Application

\* Every step keeps the invariant.
LEMMA NextCommit == IInv /\ DeliveryInv /\ CommitInv /\ [Next]_vars => CommitInv'
<1> SUFFICES ASSUME IInv, DeliveryInv, CommitInv, [Next]_vars PROVE CommitInv'
  OBVIOUS
<1>0. TypeOK /\ TypeOK' /\ Grows /\ QueryInv /\ RowInv /\ SinksInv
  BY NextType, NextGrows DEF IInv, CommitInv
<1>1. SUFFICES QueryInv' /\ RowInv' /\ SinksInv'
  BY DEF CommitInv
<1>2. ASSUME UNCHANGED <<task, sink>> PROVE SinksInv'
  BY <1>0, <1>2, KeptSinks
<1>3. ASSUME UNCHANGED <<srv, outbound>> PROVE QueryInv'
  BY <1>0, <1>3, KeptQuery
<1>4. CASE Application
  <2>1. UNCHANGED <<srv, outbound, fromServer, inbox, pendingResponses>>
    BY <1>4 DEF Application, Send, DropClient, NextMessage, SeeClosed, DropResponses, CopyStart,
       SinkPut, SinkFlush, BeginFinish, FinishDone, connVars, wireVars, serverVars
  <2> QED BY <1>0, <1>3, <1>4, <2>1, KeptRows, ApplicationSinks
<1>5. CASE PollRead
  <2>1. UNCHANGED <<srv, outbound, task, sink>>
    BY <1>5 DEF PollRead, ReadSkip, ReadPending, ReadEof, ReadMessage, ReadAsync, ReadUnexpected,
       ReadPage, ReadBlocked, readFrame, sinkVars, serverVars
  <2> QED BY <1>0, <1>2, <1>3, <1>5, <2>1, ReadRows
<1>6. CASE PollWrite
  <2>1. UNCHANGED <<task, sink, fromServer, inbox, pendingResponses>>
    BY <1>6 DEF PollWrite, WriteClosing, WriteBackpressure, WriteTerminate, WriteIdle,
       WriteSingle, WriteCopy, WriteCopyPending, WriteCopyEnd, writeFrame, taskVars
  <2> QED BY <1>0, <1>2, <1>6, <2>1, KeptRows, WriteQuery
<1>7. CASE PollStart \/ PollFlush \/ PollEnd \/ IoError \/ DropConnection \/ UNCHANGED vars
  <2>1. UNCHANGED <<task, sink, srv, outbound, fromServer, inbox, pendingResponses>>
    BY <1>7 DEF PollStart, PollFlush, PollEnd, IoError, DropConnection, FlushSocket, writeFrame,
       vars, taskVars, sinkVars, connVars, wireVars, serverVars
  <2> QED BY <1>0, <1>2, <1>3, <2>1, KeptRows
<1>8. CASE ServerRead
  <2>1. UNCHANGED <<task, sink, fromServer, inbox, pendingResponses>>
    BY <1>8 DEF ServerRead, serverFrame, taskVars, sinkVars, connVars
  <2> QED BY <1>0, <1>2, <1>8, <2>1, KeptRows, ServerReadQuery
<1>9. CASE ServerAnswer \/ ServerRefusesCopy
  <2>1. UNCHANGED <<task, sink>>
    BY <1>9 DEF ServerAnswer, ServerRefusesCopy, Emit, serverFrame, taskVars, sinkVars
  <2> QED BY <1>0, <1>2, <1>9, <2>1, EmitCommit
<1>10. CASE (\E k \in AsyncKind : ServerAsync(k)) \/ ServerClose
  <2>1. UNCHANGED <<task, sink, srv, outbound, inbox, pendingResponses>>
    BY <1>10 DEF ServerAsync, ServerClose, serverFrame, taskVars, sinkVars, connVars
  <2>2. fromServer' = fromServer \/ \E k \in LoneKind : fromServer' = Append(fromServer, Lone(k))
    BY <1>10 DEF ServerAsync, ServerClose, LoneKind
  <2>3. ASSUME NEW k \in LoneKind, fromServer' = Append(fromServer, Lone(k)) PROVE RowInv'
    <3>1. PICK m \in Msg : m = Lone(k) /\ m.kind # "row"
      BY LoneType DEF Lone, LoneKind, AsyncKind
    <3>2. RowOk(m)'
      BY <3>1 DEF RowOk
    <3> QED BY <1>0, <2>1, <2>3, <3>1, <3>2, AppendRow
  <2>4. RowInv'
    BY <1>0, <2>1, <2>2, <2>3, KeptRows
  <2> QED BY <1>2, <1>3, <2>1, <2>4
<1> QED BY <1>4, <1>5, <1>6, <1>7, <1>8, <1>9, <1>10 DEF Next, Poll, Server, Terminated

\* CopyInSink::finish returns a row count only for a copy that the server has
\* carried out, whatever answers of other requests are under way: the
\* CommandComplete it takes for the end of its copy is never another's.
THEOREM FinishIsCommit == ASSUME ~EarlyCopyError PROVE Spec => []FinishMeansCommitted
<1>1. Init => CommitInv
  <2>1. ASSUME Init PROVE CommitInv
    <3>1. /\ Len(outbound) = 0 /\ Len(fromServer) = 0 /\ srv.mode = "idle"
          /\ \A r \in Request : sink[r] = "none" /\ inbox[r] = <<>>
      BY <2>1 DEF Init
    <3>2. ~Holds
      <4>1. pendingResponses = <<>> \/ pendingResponses[1] = <<Lone("notice")>>
        BY <2>1, ConnectionAssumption DEF Init
      <4> QED BY <4>1 DEF Holds, IsAsyncChunk, IsAsync, Lone, AsyncKind
    <3> QED BY <3>1, <3>2 DEF CommitInv, QueryInv, RowInv, SinksInv
  <2> QED BY <2>1
<1>2. IInv /\ DeliveryInv /\ CommitInv /\ [Next]_vars => CommitInv'
  BY NextCommit
<1>3. CommitInv => FinishMeansCommitted
  BY DEF CommitInv, SinksInv, FinishMeansCommitted
<1> QED BY <1>1, <1>2, <1>3, Delivery, PTL DEF Spec

-----------------------------------------------------------------------------
(***************************************************************************)
(* The Connection implements the Pipeline.                                 *)
(***************************************************************************)

\* A part of the stream holds no more of the answers than the stream.
LEMMA OwnParts ==
  ASSUME NEW s \in Seq(Msg), NEW k \in 1 .. Len(s)
  PROVE  Own(SubSeq(s, 1, k)) <= Own(s) /\ Own(SubSeq(s, k + 1, Len(s))) <= Own(s)
<1>0. Len(s) \in Nat /\ Len(s) >= 1 /\ k \in Nat /\ k <= Len(s) /\ k >= 1
  OBVIOUS
<1>1. SubSeq(s, 1, k) \in Seq(Msg) /\ Len(SubSeq(s, 1, k)) = k /\ SubSeq(s, 1, k)[k] = s[k]
  BY <1>0
<1>2. SubSeq(s, k + 1, Len(s)) \in Seq(Msg) /\ Len(SubSeq(s, k + 1, Len(s))) = Len(s) - k
  BY <1>0
<1>a. PICK a \in Seq(Msg) : a = SubSeq(s, 1, k) /\ Len(a) = k /\ a[k] = s[k]
  BY <1>1
<1>b. PICK b \in Seq(Msg) : b = SubSeq(s, k + 1, Len(s)) /\ Len(b) = Len(s) - k
  BY <1>2
<1>3. Own(s) \in Nat /\ Own(s) \in {Len(s) - 1, Len(s)}
  BY <1>0, OwnLen DEF Own
<1>4. Own(a) <= Own(s)
  <2>1. CASE k = Len(s)
    <3>1. a # <<>> /\ s # <<>> /\ Len(a) = Len(s) /\ a[Len(a)] = s[Len(s)]
      BY <1>0, <1>a, <2>1
    <3>2. Own(a) = Own(s)
      BY <3>1 DEF Own
    <3> QED BY <1>3, <3>2
  <2>2. CASE k < Len(s)
    <3>1. Own(a) \in Nat /\ Own(a) <= k
      BY <1>a, OwnLen
    <3> QED BY <1>0, <1>3, <2>2, <3>1
  <2> QED BY <1>0, <2>1, <2>2
<1>5. Own(b) <= Own(s)
  <2>1. CASE b = <<>>
    <3>1. Own(b) = 0
      BY <2>1 DEF Own
    <3> QED BY <1>3, <3>1
  <2>2. CASE b # <<>>
    <3>1. Len(b) <= Len(s) - 1 /\ Len(b) \in Nat
      BY <1>0, <1>b
    <3>2. Own(b) \in Nat /\ Own(b) <= Len(b)
      BY OwnLen
    <3> QED BY <1>0, <1>3, <3>1, <3>2
  <2> QED BY <2>1, <2>2
<1> QED BY <1>a, <1>b, <1>4, <1>5

\* poll_read pages, or keeps, no more than it was given.
LEMMA MovedPage ==
  ASSUME PageInv, pc = "read", NEW c \in Chunk, NEW pend \in Seq(Chunk), NEW strm \in Seq(Msg),
         pend # <<>> => IsAsyncChunk(pend[1]),
         ~IsAsyncChunk(c) => Own(c) <= RecvCap, Own(strm) <= RecvCap,
         ReadMessage(c, pend, strm)
  PROVE  PageInv'
<1>1. /\ fromServer' = strm
      /\ pendingResponses' = pend \/ (pendingResponses' = Append(pend, c) /\ ~IsAsyncChunk(c))
      /\ result' # "running" => pc' \in {"finished", "dropped"}
  BY DEF ReadMessage, ReadAsync, ReadUnexpected, ReadPage, ReadBlocked, Resolve, PageInv
<1>2. ASSUME Holds' PROVE Own(pendingResponses'[1]) <= RecvCap
  <2>1. pendingResponses' # <<>> /\ ~IsAsync(pendingResponses'[1][1])
    BY <1>2 DEF Holds, IsAsyncChunk, IsAsync
  <2>2. CASE pend = <<>>
    <3>1. pendingResponses' = <<c>> /\ ~IsAsyncChunk(c)
      BY <1>1, <2>1, <2>2
    <3> QED BY <3>1
  <2>3. CASE pend # <<>>
    <3>1. pendingResponses'[1] = pend[1]
      BY <1>1, <2>3
    <3> QED BY <2>1, <2>3, <3>1 DEF IsAsyncChunk
  <2> QED BY <2>2, <2>3
<1> QED BY <1>1, <1>2 DEF PageInv

\* What poll_read looks at: a chunk of at most RecvCap messages of an answer.
LEMMA ReadChunk ==
  ASSUME IInv, PageInv, PollRead
  PROVE  \/ ReadSkip \/ ReadPending \/ ReadEof
         \/ \E c \in Chunk, pend \in Seq(Chunk), strm \in Seq(Msg) :
              /\ pend # <<>> => IsAsyncChunk(pend[1])
              /\ ~IsAsyncChunk(c) => Own(c) <= RecvCap
              /\ Own(strm) <= RecvCap
              /\ Holds \/ fromServer # <<>> \/ IsAsyncChunk(c)
              /\ ReadMessage(c, pend, strm)
<1>0. TypeOK /\ pendingResponses \in Seq(Chunk) /\ fromServer \in Seq(Msg)
  BY DEF IInv, TypeOK, ConnTypeOK, WireTypeOK
<1>1. CASE /\ pendingResponses # <<>>
           /\ ReadMessage(pendingResponses[1], Tail(pendingResponses), fromServer)
  <2>1. pendingResponses[1] \in Chunk /\ Tail(pendingResponses) \in Seq(Chunk)
    BY <1>0, <1>1
  <2>2. Tail(pendingResponses) # <<>> => IsAsyncChunk(Tail(pendingResponses)[1])
    BY <1>0, <1>1, HeldTail
  <2>3. /\ ~IsAsyncChunk(pendingResponses[1]) => Own(pendingResponses[1]) <= RecvCap
        /\ Holds \/ IsAsyncChunk(pendingResponses[1])
    BY <1>1 DEF PageInv, Holds
  <2>4. Own(fromServer) <= RecvCap
    BY DEF PageInv
  <2> QED BY <1>0, <1>1, <2>1, <2>2, <2>3, <2>4
<1>2. ASSUME pendingResponses = <<>>, NEW k \in 1 .. Len(fromServer),
             ReadMessage(SubSeq(fromServer, 1, k), <<>>,
                         SubSeq(fromServer, k + 1, Len(fromServer)))
      PROVE  \E c \in Chunk, pend \in Seq(Chunk), strm \in Seq(Msg) :
               /\ pend # <<>> => IsAsyncChunk(pend[1])
               /\ ~IsAsyncChunk(c) => Own(c) <= RecvCap
               /\ Own(strm) <= RecvCap
               /\ Holds \/ fromServer # <<>> \/ IsAsyncChunk(c)
               /\ ReadMessage(c, pend, strm)
  <2>1. PICK c \in Chunk, strm \in Seq(Msg) :
          c = SubSeq(fromServer, 1, k) /\ strm = SubSeq(fromServer, k + 1, Len(fromServer))
    BY <1>0, DecodeType DEF TypeOK
  <2>2. Own(c) <= Own(fromServer) /\ Own(strm) <= Own(fromServer)
    BY <1>0, <2>1, OwnParts
  <2>3. Own(c) <= RecvCap /\ Own(strm) <= RecvCap
    <3>1. Own(c) \in Nat /\ Own(strm) \in Nat /\ Own(fromServer) \in Nat /\ RecvCap \in Nat
      BY <1>0, OwnLen, ConnectionAssumption DEF Chunk
    <3> QED BY <2>2, <3>1 DEF PageInv
  <2>4. fromServer # <<>> /\ <<>> \in Seq(Chunk)
    BY <1>0
  <2>5. ReadMessage(c, <<>>, strm)
    BY <1>2, <2>1
  <2> QED BY <2>3, <2>4, <2>5
<1> QED BY <1>1, <1>2 DEF PollRead

\* A server that has not gone has not had its last word.
LEMMA NoLastWord ==
  ASSUME IInv, ~serverClosed PROVE Own(fromServer) = Len(fromServer) /\ Len(fromServer) \in Nat
<1>1. fromServer \in Seq(Msg)
  BY DEF IInv, TypeOK, WireTypeOK
<1>2. fromServer # <<>> => Len(fromServer) \in 1 .. Len(fromServer)
  BY <1>1
<1>3. fromServer = <<>> \/ fromServer[Len(fromServer)].kind # "fatal"
  BY <1>2 DEF IInv, StreamInv
<1> QED BY <1>1, <1>3, OwnLen

\* Every step keeps the bound on a chunk, and the pc of a future that has ended.
LEMMA NextPage == IInv /\ PageInv /\ [Next]_vars => PageInv'
<1> SUFFICES ASSUME IInv, PageInv, [Next]_vars PROVE PageInv'
  OBVIOUS
<1>0. fromServer \in Seq(Msg) /\ RecvCap \in Nat
  BY ConnectionAssumption DEF IInv, TypeOK, WireTypeOK
<1>1. ASSUME UNCHANGED <<fromServer, pendingResponses>>,
             result' # "running" => pc' \in {"finished", "dropped"}
      PROVE  PageInv'
  BY <1>1 DEF PageInv, Holds, IsAsyncChunk, IsAsync
<1>2. CASE PollRead
  <2>1. CASE ReadSkip \/ ReadPending \/ ReadEof
    <3>1. pc = "read"
      BY <1>2 DEF PollRead
    <3>2. /\ UNCHANGED <<fromServer, pendingResponses>>
          /\ result' # "running" => pc' \in {"finished", "dropped"}
      BY <2>1, <3>1 DEF ReadSkip, ReadPending, ReadEof, Resolve, PageInv
    <3> QED BY <1>1, <3>2
  <2>2. ASSUME NEW c \in Chunk, NEW pend \in Seq(Chunk), NEW strm \in Seq(Msg),
               pend # <<>> => IsAsyncChunk(pend[1]),
               ~IsAsyncChunk(c) => Own(c) <= RecvCap, Own(strm) <= RecvCap,
               ReadMessage(c, pend, strm)
        PROVE  PageInv'
    BY <1>2, <2>2, MovedPage DEF PollRead
  <2> QED BY <1>2, <2>1, <2>2, ReadChunk
<1>3. CASE Application \/ UNCHANGED vars
  <2>1. UNCHANGED <<fromServer, pendingResponses, result, pc>>
    BY <1>3 DEF Application, Send, DropClient, NextMessage, SeeClosed, DropResponses, CopyStart,
       SinkPut, SinkFlush, BeginFinish, FinishDone, vars, connVars, wireVars
  <2> QED BY <1>1, <2>1 DEF PageInv
<1>4. CASE PollWrite
  <2>1. UNCHANGED <<fromServer, pendingResponses, result>> /\ pc = "write"
    BY <1>4 DEF PollWrite, WriteClosing, WriteBackpressure, WriteTerminate, WriteIdle, WriteSingle,
       WriteCopy, WriteCopyPending, WriteCopyEnd, writeFrame
  <2> QED BY <1>1, <2>1 DEF PageInv
<1>5. CASE PollStart \/ PollFlush \/ PollEnd \/ IoError \/ DropConnection
  <2>1. /\ UNCHANGED <<fromServer, pendingResponses>>
        /\ result' # "running" => pc' \in {"finished", "dropped"}
    BY <1>5 DEF PollStart, PollFlush, PollEnd, IoError, DropConnection, Resolve, writeFrame,
       connVars, wireVars, PageInv
  <2> QED BY <1>1, <2>1
<1>6. ASSUME UNCHANGED <<pendingResponses, result, pc>>, Own(fromServer') <= RecvCap PROVE PageInv'
  BY <1>6 DEF PageInv, Holds, IsAsyncChunk, IsAsync
<1>7. CASE ServerRead
  BY <1>1, <1>7 DEF ServerRead, serverFrame, connVars, PageInv
<1>8. CASE ServerAnswer \/ ServerRefusesCopy \/ \E k \in AsyncKind : ServerAsync(k)
  <2>1. UNCHANGED <<pendingResponses, result, pc>>
    BY <1>8 DEF ServerAnswer, ServerRefusesCopy, Emit, ServerAsync, serverFrame, connVars
  <2>2. Len(fromServer) < RecvCap /\ \E m : fromServer' = Append(fromServer, m)
    BY <1>8 DEF ServerAnswer, ServerRefusesCopy, Emit, ServerAsync
  <2>3. fromServer' \in Seq(Msg)
    BY NextType DEF IInv, TypeOK, WireTypeOK
  <2>4. Len(fromServer') = Len(fromServer) + 1 /\ Len(fromServer) \in Nat
    BY <1>0, <2>2
  <2>5. Own(fromServer') \in Nat /\ Own(fromServer') <= Len(fromServer')
    BY <2>3, OwnLen
  <2>6. Own(fromServer') <= RecvCap
    BY <1>0, <2>2, <2>4, <2>5
  <2> QED BY <1>6, <2>1, <2>6
<1>9. CASE ServerClose
  <2>1. /\ UNCHANGED <<pendingResponses, result, pc>> /\ ~serverClosed
        /\ fromServer' = fromServer \/ fromServer' = Append(fromServer, Lone("fatal"))
    BY <1>9 DEF ServerClose, serverFrame, connVars
  <2>2. Own(fromServer) <= RecvCap
    BY DEF PageInv
  <2>3. CASE fromServer' = Append(fromServer, Lone("fatal"))
    <3>1. /\ fromServer' # <<>> /\ Len(fromServer') = Len(fromServer) + 1
          /\ fromServer'[Len(fromServer')].kind = "fatal"
      BY <1>0, <2>3 DEF Lone
    <3>2. Own(fromServer') = Len(fromServer') - 1
      BY <3>1 DEF Own
    <3>3. Own(fromServer) = Len(fromServer) /\ Len(fromServer) \in Nat
      BY <2>1, NoLastWord
    <3>4. Own(fromServer') <= RecvCap
      BY <1>0, <2>2, <3>1, <3>2, <3>3
    <3> QED BY <1>6, <2>1, <3>4
  <2> QED BY <1>6, <2>1, <2>2, <2>3
<1> QED BY <1>2, <1>3, <1>4, <1>5, <1>7, <1>8, <1>9 DEF Next, Poll, Server, Terminated

\* A request counts as received what its inbox holds of its own answer.
LEMMA OwnPaged ==
  ASSUME NEW r \in Request, NEW s \in Seq(Msg),
         \A i \in 1 .. Len(s) : s[i].kind # "fatal" => s[i].req = r,
         \A i \in 1 .. Len(s) : s[i].req = r => s[i].idx = i,
         \A i \in 1 .. Len(s) : s[i].kind = "fatal" => i = Len(s)
  PROVE  Cardinality({i \in 1 .. Len(s) : s[i].req = r /\ s[i].idx = i}) = Own(s)
<1>0. Len(s) \in Nat /\ Own(s) \in Nat /\ Own(s) <= Len(s)
  BY OwnLen
<1>1. ASSUME NEW i \in 1 .. Len(s)
      PROVE  s[i].req = r /\ s[i].idx = i <=> i \in 1 .. Own(s)
  <2>1. s[i] \in Msg /\ i \in Nat /\ i >= 1 /\ i <= Len(s)
    BY <1>0
  <2>2. CASE s[i].kind = "fatal"
    <3>1. s[i].req # r
      BY <2>1, <2>2 DEF Msg, AnswerKind, Request
    <3>2. i = Len(s) /\ s # <<>>
      BY <2>2
    <3>3. Own(s) = Len(s) - 1
      BY <2>2, <3>2 DEF Own
    <3> QED BY <1>0, <2>1, <3>1, <3>2, <3>3
  <2>3. CASE s[i].kind # "fatal"
    <3>1. s[i].req = r /\ s[i].idx = i
      BY <2>3
    <3>2. CASE i < Len(s)
      <4>1. Own(s) >= Len(s) - 1
        BY <1>0 DEF Own
      <4> QED BY <1>0, <2>1, <3>1, <3>2, <4>1
    <3>3. CASE i = Len(s)
      <4>1. Own(s) = Len(s)
        BY <2>3, <3>3, OwnLen
      <4> QED BY <1>0, <2>1, <3>1, <3>3, <4>1
    <3> QED BY <2>1, <3>2, <3>3
  <2> QED BY <2>2, <2>3
<1>2. {i \in 1 .. Len(s) : s[i].req = r /\ s[i].idx = i} = 1 .. Own(s)
  <2>1. 1 .. Own(s) \subseteq 1 .. Len(s)
    BY <1>0
  <2> QED BY <1>1, <2>1
<1>3. Cardinality(1 .. Own(s)) = Own(s)
  <2>1. 1 \in Int /\ Own(s) \in Int
    BY <1>0
  <2>2. Cardinality(1 .. Own(s)) = IF 1 > Own(s) THEN 0 ELSE Own(s) - 1 + 1
    BY <2>1, FS_Interval
  <2> QED BY <1>0, <2>2
<1> QED BY <1>2, <1>3

\* A step that pages nothing and sends nothing: the future may resolve.
LEMMA MapQuiet ==
  ASSUME UNCHANGED <<requests, inbox>>, Completed' = Completed,
         result' = result \/ result' # "running"
  PROVE  Abstract!Next \/ UNCHANGED Abstract!pipelineVars
<1>1. \A r \in Request : PagedOwn(r)' = PagedOwn(r)
  BY DEF PagedOwn
<1>2. Len(requests') - Len(receiver') - Len(responses')
        = Len(requests) - Len(receiver) - Len(responses)
  BY DEF Completed, Popped
<1>3. CASE result = "running" /\ result' # "running"
  BY <1>1, <1>2, <1>3 DEF Abstract!Next, Abstract!Close
<1>4. CASE ~(result = "running" /\ result' # "running")
  BY <1>1, <1>2, <1>4 DEF Abstract!pipelineVars
<1> QED BY <1>3, <1>4

\* A request is sent.
LEMMA MapSubmit == ASSUME TypeOK, NEW k \in Kind, Send(k) PROVE Abstract!Submit
<1>1. inbox' = inbox /\ result' = result /\ result = "running" /\ Len(requests) < MaxRequests
  BY DEF Send, ReceiverOpen
<1>2. /\ Len(requests') = Len(requests) + 1 /\ Len(receiver') = Len(receiver) + 1
      /\ responses' = responses /\ Len(requests) \in Nat /\ Len(receiver) \in Nat
      /\ Len(responses) \in Nat
  BY DEF Send, TypeOK, ClientTypeOK, ConnTypeOK
<1>3. Len(requests') - Len(receiver') - Len(responses')
        = Len(requests) - Len(receiver) - Len(responses)
  BY <1>2
<1>4. \A r \in Request : PagedOwn(r)' = PagedOwn(r)
  BY <1>1 DEF PagedOwn
<1> QED BY <1>1, <1>2, <1>3, <1>4 DEF Abstract!Submit

\* A chunk paged is a page of the request at the front; the server's last word
\* alone is not one.
LEMMA MapPage ==
  ASSUME IInv, DeliveryInv, PageInv, IInv', DeliveryInv', pc = "read",
         NEW c \in Chunk, NEW pend, NEW strm, ReadPage(c, pend, strm),
         Own(c) <= RecvCap, Holds \/ fromServer # <<>>,
         Completed' = IF RequestComplete(c) THEN Completed + 1 ELSE Completed
  PROVE  Abstract!Next \/ UNCHANGED Abstract!pipelineVars
<1>0. TypeOK /\ responses # <<>> /\ result = "running"
  BY DEF IInv, ReadPage, PageInv, TypeOK, ConnTypeOK
<1>1. PICK r \in Request : r = responses[1] /\ r = Completed + 1 /\ r <= Len(requests)
  BY <1>0, FrontRequest
<1>2. /\ UNCHANGED <<requests, receiver, result>> /\ inbox' = [inbox EXCEPT ![r] = @ \o c]
      /\ inbox \in [Request -> Seq(Msg)]
  BY <1>0, <1>1 DEF ReadPage, readFrame, clientVars, TypeOK, ConnTypeOK
<1>3. inbox'[r] = inbox[r] \o c /\ \A q \in Request \ {r} : inbox'[q] = inbox[q]
  BY <1>2
<1>4. PagedOwn(r) = Own(inbox[r]) /\ inbox[r] \in Seq(Msg)
  <2>1. inbox[r] \in Seq(Msg)
    BY <1>2
  <2>2. \A i \in 1 .. Len(inbox[r]) : inbox[r][i].kind # "fatal" => inbox[r][i].req = r
    BY DEF IInv, RoutedToOwner
  <2>3. \A i \in 1 .. Len(inbox[r]) : inbox[r][i].req = r => inbox[r][i].idx = i
    BY DEF DeliveryInv, PagedInv, PagedInOrder
  <2>4. \A i \in 1 .. Len(inbox[r]) : inbox[r][i].kind = "fatal" => i = Len(inbox[r])
    BY DEF DeliveryInv, FatalInv
  <2> QED BY <2>1, <2>2, <2>3, <2>4, OwnPaged DEF PagedOwn
<1>5. PagedOwn(r)' = Own(inbox'[r])
  <2>1. inbox'[r] \in Seq(Msg)
    BY <1>2 DEF IInv, TypeOK, ConnTypeOK
  <2>2. \A i \in 1 .. Len(inbox'[r]) : inbox'[r][i].kind # "fatal" => inbox'[r][i].req = r
    BY DEF IInv, RoutedToOwner
  <2>3. \A i \in 1 .. Len(inbox'[r]) : inbox'[r][i].req = r => inbox'[r][i].idx = i
    BY DEF DeliveryInv, PagedInv, PagedInOrder
  <2>4. \A i \in 1 .. Len(inbox'[r]) : inbox'[r][i].kind = "fatal" => i = Len(inbox'[r])
    BY DEF DeliveryInv, FatalInv
  <2> QED BY <2>1, <2>2, <2>3, <2>4, OwnPaged DEF PagedOwn
<1>6. Own(inbox[r]) = Len(inbox[r]) /\ Len(inbox[r]) \in Nat
  <2>1. inbox[r] # <<>> => Len(inbox[r]) \in 1 .. Len(inbox[r])
    BY <1>4
  <2>2. inbox[r] = <<>> \/ inbox[r][Len(inbox[r])].kind # "fatal"
    BY <2>1, NoFatalYet DEF DeliveryInv
  <2> QED BY <1>4, <2>2, OwnLen
<1>7. PagedOwn(r)' = PagedOwn(r) + Own(c)
  BY <1>3, <1>4, <1>5, <1>6, OwnConcat
<1>8. \A q \in Request \ {r} : PagedOwn(q)' = PagedOwn(q)
  BY <1>3 DEF PagedOwn
<1>9. Own(c) \in Nat /\ PagedOwn(r) \in Nat /\ RecvCap \in Nat
  BY <1>4, <1>6, OwnLen, ConnectionAssumption DEF Chunk
<1>10. /\ Completed = Len(requests) - Len(receiver) - Len(responses)
       /\ Completed' = Len(requests') - Len(receiver') - Len(responses')
       /\ Completed \in Int /\ Len(requests) \in Nat
  BY <1>0, Counts DEF Completed, Popped
<1>11. CASE Own(c) = 0
  <2>1. ~RequestComplete(c)
    <3>1. c # <<>> /\ c \in Seq(Msg)
      BY DEF Chunk
    <3>2. Len(c) \in Nat /\ Len(c) # 0
      BY <3>1
    <3>3. c[Len(c)].kind = "fatal"
      BY <1>11, <3>1, <3>2 DEF Own
    <3> QED BY <3>3 DEF RequestComplete
  <2>2. \A q \in Request : PagedOwn(q)' = PagedOwn(q)
    BY <1>7, <1>8, <1>9, <1>11
  <2>3. Completed' = Completed
    BY <2>1
  <2> QED BY <1>2, <1>10, <2>2, <2>3 DEF Abstract!pipelineVars
<1>12. CASE Own(c) # 0
  <2>1. PICK k \in 1 .. RecvCap : k = Own(c)
    BY <1>9, <1>12
  <2>2. PICK fin \in BOOLEAN : fin = RequestComplete(c)
    BY DEF RequestComplete
  <2>3. [q \in Request |-> PagedOwn(q)]'
          = [[q \in Request |-> PagedOwn(q)] EXCEPT ![Completed + 1] = @ + k]
    BY <1>1, <1>7, <1>8, <2>1
  <2>4. Completed < Len(requests)
    BY <1>1, <1>10
  <2>5. Completed' = IF fin THEN Completed + 1 ELSE Completed
    BY <2>2
  <2>6. Abstract!Page(k, fin)
    BY <1>0, <1>2, <1>10, <2>3, <2>4, <2>5 DEF Abstract!Page
  <2> QED BY <2>1, <2>2, <2>6 DEF Abstract!Next
<1> QED BY <1>11, <1>12

\* Every step of the Connection is a step of the Pipeline, or none.
LEMMA MapNext ==
  ASSUME IInv, DeliveryInv, PageInv, IInv', DeliveryInv', [Next]_vars
  PROVE  [Abstract!Next]_(Abstract!pipelineVars)
<1>0. TypeOK
  BY DEF IInv
<1>1. CASE Application
  <2>1. ASSUME NEW k \in Kind, Send(k) PROVE Abstract!Next
    BY <1>0, <2>1, MapSubmit DEF Abstract!Next
  <2>2. CASE UNCHANGED <<requests, inbox, result>>
    BY <1>0, <1>1, <2>2, CompletedKept, MapQuiet
  <2> QED BY <1>1, <2>1, <2>2 DEF Application, DropClient, NextMessage, SeeClosed, DropResponses,
          CopyStart, SinkPut, SinkFlush, BeginFinish, FinishDone, clientVars, connVars
<1>2. CASE \/ PollStart \/ PollWrite \/ PollFlush \/ PollEnd \/ IoError \/ DropConnection
           \/ UNCHANGED vars
  <2>1. Completed' = Completed
    BY <1>0, <1>2, CompletedKept
  <2>2. UNCHANGED <<requests, inbox>> /\ (result' = result \/ result' # "running")
    <3>1. CASE PollWrite
      BY <3>1 DEF PollWrite, WriteClosing, WriteBackpressure, WriteTerminate, WriteIdle,
         WriteSingle, WriteCopy, WriteCopyPending, WriteCopyEnd, writeFrame, clientVars
    <3>2. CASE PollStart \/ PollFlush \/ PollEnd \/ IoError \/ DropConnection \/ UNCHANGED vars
      BY <3>2 DEF PollStart, PollFlush, PollEnd, IoError, DropConnection, Resolve, writeFrame, vars,
         clientVars, connVars
    <3> QED BY <1>2, <3>1, <3>2
  <2> QED BY <2>1, <2>2, MapQuiet
<1>3. CASE Server \/ (\E k \in AsyncKind : ServerAsync(k)) \/ ServerClose
  <2>1. UNCHANGED <<requests, receiver, responses, inbox, result>>
    BY <1>3 DEF Server, ServerRead, ServerAnswer, ServerRefusesCopy, Emit, ServerAsync, ServerClose,
       serverFrame, clientVars, connVars
  <2>2. Completed' = Completed
    BY <2>1 DEF Completed, Popped
  <2> QED BY <2>1, <2>2, MapQuiet
<1>4. CASE PollRead
  <2>0. pc = "read"
    BY <1>4 DEF PollRead
  <2>1. ASSUME UNCHANGED <<requests, receiver, responses, inbox>>,
               result' = result \/ result' # "running"
        PROVE  [Abstract!Next]_(Abstract!pipelineVars)
    <3>1. Completed' = Completed
      BY <2>1 DEF Completed, Popped
    <3> QED BY <2>1, <3>1, MapQuiet
  <2>2. CASE ReadSkip \/ ReadPending \/ ReadEof
    BY <2>1, <2>2 DEF ReadSkip, ReadPending, ReadEof, Resolve, readFrame, clientVars
  <2>3. ASSUME NEW c \in Chunk, NEW pend \in Seq(Chunk), NEW strm \in Seq(Msg),
               ~IsAsyncChunk(c) => Own(c) <= RecvCap,
               Holds \/ fromServer # <<>> \/ IsAsyncChunk(c),
               ReadMessage(c, pend, strm)
        PROVE  [Abstract!Next]_(Abstract!pipelineVars)
    <3>1. CASE ReadPage(c, pend, strm)
      <4>1. Completed' = IF RequestComplete(c) THEN Completed + 1 ELSE Completed
        <5>1. /\ UNCHANGED <<requests, receiver>> /\ responses' = AfterPage(c) /\ responses # <<>>
          BY <3>1 DEF ReadPage, readFrame, clientVars
        <5>2. /\ responses \in Seq(Request) /\ Len(responses) \in Nat /\ Popped \in Int
          BY <1>0, Counts DEF TypeOK, ConnTypeOK
        <5>3. Popped' = Popped
          BY <5>1 DEF Popped
        <5>4. CASE RequestComplete(c)
          <6>1. Len(responses') = Len(responses) - 1
            BY <5>1, <5>2, <5>4 DEF AfterPage
          <6> QED BY <5>2, <5>3, <5>4, <6>1 DEF Completed
        <5>5. CASE ~RequestComplete(c)
          BY <5>1, <5>3, <5>5 DEF AfterPage, Completed
        <5> QED BY <5>4, <5>5
      <4>2. Own(c) <= RecvCap /\ (Holds \/ fromServer # <<>>)
        BY <2>3, <3>1 DEF ReadPage
      <4> QED BY <2>0, <3>1, <4>1, <4>2, MapPage
    <3>2. CASE ReadAsync(c, pend, strm) \/ ReadUnexpected(c, pend, strm) \/ ReadBlocked(c, pend, strm)
      BY <2>1, <3>2 DEF ReadAsync, ReadUnexpected, ReadBlocked, Resolve, readFrame, clientVars
    <3> QED BY <2>3, <3>1, <3>2 DEF ReadMessage
  <2> QED BY <1>4, <2>2, <2>3, ReadChunk
<1> QED BY <1>1, <1>2, <1>3, <1>4 DEF Next, Poll, Terminated

\* The Connection implements the Pipeline: whatever the chunks, the back
\* pressure, the dropped receivers and the asynchronous messages, requests are
\* answered strictly in the order they were sent, and every chunk that poll_read
\* pages goes to the oldest request that is not complete.
THEOREM Refinement == ASSUME ~EarlyCopyError PROVE Spec => ImplementsPipeline
<1>1. Init => Abstract!Init
  <2>1. ASSUME Init PROVE Abstract!Init
    <3>1. /\ Len(requests) = 0 /\ Len(receiver) = 0 /\ Len(responses) = 0 /\ result = "running"
          /\ \A r \in Request : inbox[r] = <<>>
      BY <2>1 DEF Init
    <3>2. ASSUME NEW r \in Request PROVE PagedOwn(r) = 0
      <4>1. {i \in 1 .. Len(inbox[r]) : inbox[r][i].req = r /\ inbox[r][i].idx = i} = {}
        BY <3>1
      <4>2. Cardinality({}) = 0
        BY FS_EmptySet
      <4> QED BY <4>1, <4>2 DEF PagedOwn
    <3>3. [r \in Request |-> PagedOwn(r)] = [r \in 1 .. MaxRequests |-> 0]
      BY <3>2 DEF Request
    <3> QED BY <3>1, <3>3 DEF Abstract!Init
  <2> QED BY <2>1
<1>2. Init => PageInv
  <2>1. ASSUME Init PROVE PageInv
    <3>1. fromServer = <<>> /\ result = "running" /\ RecvCap \in Nat
      BY <2>1, ConnectionAssumption DEF Init
    <3>2. ~Holds
      <4>1. pendingResponses = <<>> \/ pendingResponses[1] = <<Lone("notice")>>
        BY <2>1, ConnectionAssumption DEF Init
      <4> QED BY <4>1 DEF Holds, IsAsyncChunk, IsAsync, Lone, AsyncKind
    <3>3. Own(fromServer) = 0
      BY <3>1 DEF Own
    <3> QED BY <3>1, <3>2, <3>3 DEF PageInv
  <2> QED BY <2>1
<1>3. IInv /\ PageInv /\ [Next]_vars => PageInv'
  BY NextPage
<1>4. /\ IInv /\ DeliveryInv /\ PageInv /\ (IInv /\ DeliveryInv)' /\ [Next]_vars
      => [Abstract!Next]_(Abstract!pipelineVars)
  BY MapNext
<1>5. Spec => Abstract!Spec
  BY <1>1, <1>2, <1>3, <1>4, Delivery, PTL DEF Spec, Abstract!Spec
<1> QED BY <1>5 DEF ImplementsPipeline

-----------------------------------------------------------------------------
(***************************************************************************)
(* A copy is carried out only if it was finished, and then as a whole.     *)
(***************************************************************************)

\* Messages and channels hold numbers of items.
LEMMA ItemsType ==
  /\ \A m \in OutMsg : Items(m) \in Nat /\ \A r : ItemsOf(m, r) \in Nat
  /\ \A x \in CopyMsg : Items(x) \in Nat
<1>1. \A m \in OutMsg : Items(m) \in Nat
  BY DEF Items, OutMsg
<1>2. \A x \in CopyMsg : Items(x) \in Nat
  BY DEF Items, CopyMsg
<1> QED BY <1>1, <1>2 DEF ItemsOf

\* The items on their way, with one message more behind them.
LEMMA SumsAppend ==
  ASSUME NEW out \in Seq(OutMsg), NEW r, NEW a, NEW z \in Int, Sums(out, r, a, z),
         NEW m \in OutMsg
  PROVE  Sums(Append(out, m), r, a, z + ItemsOf(m, r))
<1>1. PICK n \in Nat : n = Len(out)
  OBVIOUS
<1>2. PICK w \in Nat : w = ItemsOf(m, r)
  BY ItemsType
<1>3. PICK out2 : out2 = Append(out, m)
  OBVIOUS
<1>4. Len(out2) = n + 1 /\ out2[n + 1] = m /\ \A i \in 1 .. n : out2[i] = out[i]
  BY <1>1, <1>3
<1>5. PICK f \in [0 .. n -> 0 .. z] :
        /\ f[0] = a /\ f[n] = z
        /\ \A i \in 1 .. n : f[i] = f[i - 1] + ItemsOf(out[i], r)
        /\ \A i \in 0 .. n : (\A k \in i + 1 .. n : ItemsOf(out[k], r) = 0) => f[i] = z
  BY <1>1 DEF Sums
<1>6. PICK g : g = [i \in 0 .. n + 1 |-> IF i = n + 1 THEN z + w ELSE f[i]]
  OBVIOUS
<1>7. /\ g[n + 1] = z + w
      /\ \A i \in 0 .. n : g[i] = f[i] /\ f[i] \in 0 .. z /\ i \in 0 .. n + 1 /\ i # n + 1
  BY <1>5, <1>6
<1>8. z \in Nat
  <2>1. f[n] \in 0 .. z /\ f[n] = z
    BY <1>5
  <2> QED BY <2>1
<1>9. g \in [0 .. n + 1 -> 0 .. z + w]
  <2>1. ASSUME NEW i \in 0 .. n + 1 PROVE g[i] \in 0 .. z + w
    <3>1. i = n + 1 \/ i \in 0 .. n
      OBVIOUS
    <3> QED BY <1>7, <1>8, <3>1
  <2> QED BY <1>6, <2>1
<1>10. ASSUME NEW i \in 1 .. n + 1 PROVE g[i] = g[i - 1] + ItemsOf(out2[i], r)
  <2>1. CASE i = n + 1
    <3>1. i - 1 = n /\ n \in 0 .. n
      BY <2>1
    <3>2. g[i - 1] = z
      BY <1>5, <1>7, <3>1
    <3> QED BY <1>2, <1>4, <1>7, <2>1, <3>2
  <2>2. CASE i \in 1 .. n
    <3>1. i \in 0 .. n /\ i - 1 \in 0 .. n
      BY <2>2
    <3>2. g[i] = f[i] /\ g[i - 1] = f[i - 1] /\ out2[i] = out[i]
      BY <1>4, <1>7, <2>2, <3>1
    <3> QED BY <1>5, <2>2, <3>2
  <2>3. i = n + 1 \/ i \in 1 .. n
    OBVIOUS
  <2> QED BY <2>1, <2>2, <2>3
<1>11. ASSUME NEW i \in 0 .. n + 1, \A k \in i + 1 .. n + 1 : ItemsOf(out2[k], r) = 0
       PROVE  g[i] = z + w
  <2>1. CASE i = n + 1
    BY <1>7, <2>1
  <2>2. CASE i \in 0 .. n
    <3>1. n + 1 \in i + 1 .. n + 1 /\ \A k \in i + 1 .. n : k \in 1 .. n /\ k \in i + 1 .. n + 1
      BY <2>2
    <3>2. w = 0
      BY <1>2, <1>4, <1>11, <3>1
    <3>3. \A k \in i + 1 .. n : ItemsOf(out[k], r) = 0
      BY <1>4, <1>11, <3>1
    <3>4. f[i] = z
      BY <1>5, <2>2, <3>3
    <3> QED BY <1>7, <1>8, <2>2, <3>2, <3>4
  <2>3. i = n + 1 \/ i \in 0 .. n
    OBVIOUS
  <2> QED BY <2>1, <2>2, <2>3
<1>12. g[0] = a
  <2>1. 0 \in 0 .. n
    OBVIOUS
  <2> QED BY <1>5, <1>7, <2>1
<1>13. Sums(out2, r, a, z + w)
  <2>1. g \in [0 .. Len(out2) -> 0 .. z + w]
    BY <1>4, <1>9
  <2>2. g[0] = a /\ g[Len(out2)] = z + w
    BY <1>4, <1>7, <1>12
  <2>3. \A i \in 1 .. Len(out2) : g[i] = g[i - 1] + ItemsOf(out2[i], r)
    BY <1>4, <1>10
  <2>4. \A i \in 0 .. Len(out2) :
          (\A k \in i + 1 .. Len(out2) : ItemsOf(out2[k], r) = 0) => g[i] = z + w
    BY <1>4, <1>11
  <2> QED BY <2>1, <2>2, <2>3, <2>4 DEF Sums
<1> QED BY <1>2, <1>3, <1>13

\* The items on their way, without the first message.
LEMMA SumsTail ==
  ASSUME NEW out \in Seq(OutMsg), out # <<>>, NEW r, NEW a, NEW z \in Int, Sums(out, r, a, z)
  PROVE  Sums(Tail(out), r, a + ItemsOf(out[1], r), z)
<1>1. PICK n \in Nat : n = Len(out)
  OBVIOUS
<1>2. n >= 1
  BY <1>1
<1>3. PICK out2 : out2 = Tail(out)
  OBVIOUS
<1>4. Len(out2) = n - 1 /\ \A i \in 1 .. n - 1 : out2[i] = out[i + 1]
  BY <1>1, <1>2, <1>3
<1>5. PICK f \in [0 .. n -> 0 .. z] :
        /\ f[0] = a /\ f[n] = z
        /\ \A i \in 1 .. n : f[i] = f[i - 1] + ItemsOf(out[i], r)
        /\ \A i \in 0 .. n : (\A k \in i + 1 .. n : ItemsOf(out[k], r) = 0) => f[i] = z
  BY <1>1 DEF Sums
<1>6. PICK g : g = [i \in 0 .. n - 1 |-> f[i + 1]]
  OBVIOUS
<1>7. \A i \in 0 .. n - 1 : g[i] = f[i + 1] /\ i + 1 \in 1 .. n /\ i + 1 \in 0 .. n
  BY <1>6
<1>8. g \in [0 .. n - 1 -> 0 .. z]
  BY <1>5, <1>6, <1>7
<1>9. g[0] = a + ItemsOf(out[1], r)
  <2>1. 0 \in 0 .. n - 1 /\ 1 \in 1 .. n /\ 0 + 1 = 1 /\ 1 - 1 = 0
    BY <1>2
  <2> QED BY <1>5, <1>7, <2>1
<1>10. g[n - 1] = z
  <2>1. n - 1 \in 0 .. n - 1 /\ (n - 1) + 1 = n
    BY <1>2
  <2> QED BY <1>5, <1>7, <2>1
<1>11. ASSUME NEW i \in 1 .. n - 1 PROVE g[i] = g[i - 1] + ItemsOf(out2[i], r)
  <2>1. i \in 0 .. n - 1 /\ i - 1 \in 0 .. n - 1 /\ (i - 1) + 1 = i /\ i + 1 \in 1 .. n
        /\ (i + 1) - 1 = i
    OBVIOUS
  <2>2. g[i] = f[i + 1] /\ g[i - 1] = f[i] /\ out2[i] = out[i + 1]
    BY <1>4, <1>7, <2>1
  <2>3. f[i + 1] = f[i] + ItemsOf(out[i + 1], r)
    BY <1>5, <2>1
  <2> QED BY <2>2, <2>3
<1>12. ASSUME NEW i \in 0 .. n - 1, \A k \in i + 1 .. n - 1 : ItemsOf(out2[k], r) = 0
       PROVE  g[i] = z
  <2>1. ASSUME NEW k \in (i + 1) + 1 .. n PROVE ItemsOf(out[k], r) = 0
    <3>1. k - 1 \in i + 1 .. n - 1 /\ k - 1 \in 1 .. n - 1 /\ (k - 1) + 1 = k
      OBVIOUS
    <3> QED BY <1>4, <1>12, <3>1
  <2>2. i + 1 \in 0 .. n
    OBVIOUS
  <2> QED BY <1>5, <1>7, <2>1, <2>2
<1>13. Sums(out2, r, a + ItemsOf(out[1], r), z)
  <2>1. PICK b : b = a + ItemsOf(out[1], r)
    OBVIOUS
  <2>2. PICK l : l = n - 1
    OBVIOUS
  <2>3. /\ g \in [0 .. l -> 0 .. z] /\ Len(out2) = l /\ g[0] = b /\ g[l] = z
        /\ \A i \in 1 .. l : g[i] = g[i - 1] + ItemsOf(out2[i], r)
        /\ \A i \in 0 .. l : (\A k \in i + 1 .. l : ItemsOf(out2[k], r) = 0) => g[i] = z
    BY <1>4, <1>8, <1>9, <1>10, <1>11, <1>12, <2>1, <2>2
  <2>4. Sums(out2, r, b, z)
    BY <2>3 DEF Sums
  <2> QED BY <2>1, <2>4
<1> QED BY <1>3, <1>13

\* Messages that hold no item of a COPY carry none of it.
LEMMA SumsNone ==
  ASSUME NEW out, NEW r, NEW a, NEW z, Sums(out, r, a, z), Len(out) \in Nat,
         \A k \in 1 .. Len(out) : ItemsOf(out[k], r) = 0
  PROVE  a = z
<1>1. 0 \in 0 .. Len(out) /\ 0 + 1 = 1
  OBVIOUS
<1> QED BY <1>1 DEF Sums

\* A sink's channel takes a message, and gives one.
LEMMA ChanItemsEmpty == ChanItems(<<>>) = 0
<1>1. Len(<<>>) = 0
  OBVIOUS
<1> QED BY <1>1 DEF ChanItems

\* The items in a COPY channel that holds one message.
LEMMA ChanItemsOne ==
  ASSUME NEW ch, Len(ch) = 1, NEW a \in Nat, Items(ch[1]) = a PROVE ChanItems(ch) = a
BY DEF ChanItems

\* The items in a COPY channel that holds two messages.
LEMMA ChanItemsTwo ==
  ASSUME NEW ch, Len(ch) = 2, NEW a \in Nat, NEW b \in Nat, Items(ch[1]) = a, Items(ch[2]) = b
  PROVE  ChanItems(ch) = a + b
<1>1. (IF Len(ch) > 0 THEN Items(ch[1]) ELSE 0) = a
  OBVIOUS
<1>2. (IF Len(ch) > 1 THEN Items(ch[2]) ELSE 0) = b
  OBVIOUS
<1> QED BY <1>1, <1>2 DEF ChanItems

\* The items in a COPY channel that is sent another message.
LEMMA ChanItemsAppend ==
  ASSUME NEW ch \in Seq(CopyMsg), Len(ch) < ChanCap, NEW x \in CopyMsg
  PROVE  /\ ChanItems(Append(ch, x)) = ChanItems(ch) + Items(x)
         /\ ChanItems(ch) \in Nat /\ Len(Append(ch, x)) <= ChanCap
<1>0. PICK b \in Nat : Items(x) = b
  BY ItemsType
<1>1. Len(ch) = 0 \/ Len(ch) = 1
  <2>1. Len(ch) \in Nat /\ Len(ch) < 2
    BY DEF ChanCap
  <2>2. \A n \in Nat : n < 2 => n = 0 \/ n = 1
    OBVIOUS
  <2> QED BY <2>1, <2>2
<1>2. PICK c2 : c2 = Append(ch, x)
  OBVIOUS
<1>3. Len(c2) = Len(ch) + 1 /\ c2[Len(ch) + 1] = x /\ (Len(ch) = 1 => c2[1] = ch[1])
  BY <1>2
<1>4. CASE Len(ch) = 0
  <2>1. ChanItems(c2) = b
    BY <1>0, <1>3, <1>4, ChanItemsOne
  <2>2. ch = <<>>
    BY <1>4
  <2>3. ChanItems(ch) = 0
    BY <2>2, ChanItemsEmpty
  <2> QED BY <1>0, <1>2, <1>3, <1>4, <2>1, <2>3 DEF ChanCap
<1>5. CASE Len(ch) = 1
  <2>1. ch[1] \in CopyMsg
    BY <1>5
  <2>2. PICK a \in Nat : Items(ch[1]) = a
    BY <2>1, ItemsType
  <2>3. ChanItems(ch) = a
    BY <1>5, <2>2, ChanItemsOne
  <2>4. Len(c2) = 2 /\ Items(c2[1]) = a /\ Items(c2[2]) = b
    BY <1>0, <1>3, <1>5, <2>2
  <2>5. ChanItems(c2) = a + b
    BY <2>4, ChanItemsTwo
  <2> QED BY <1>0, <1>2, <2>3, <2>4, <2>5 DEF ChanCap
<1> QED BY <1>1, <1>4, <1>5

\* The items in a COPY channel whose first message is received.
LEMMA ChanItemsTail ==
  ASSUME NEW ch \in Seq(CopyMsg), Len(ch) <= ChanCap, ch # <<>>
  PROVE  /\ ChanItems(ch) = Items(ch[1]) + ChanItems(Tail(ch))
         /\ ChanItems(Tail(ch)) \in Nat /\ Items(ch[1]) \in Nat
<1>0. Len(ch) = 1 \/ Len(ch) = 2
  <2>1. Len(ch) \in Nat /\ Len(ch) <= 2 /\ Len(ch) >= 1
    BY DEF ChanCap
  <2>2. \A n \in Nat : n <= 2 /\ n >= 1 => n = 1 \/ n = 2
    OBVIOUS
  <2> QED BY <2>1, <2>2
<1>1. ch[1] \in CopyMsg
  BY <1>0
<1>2. PICK a \in Nat : Items(ch[1]) = a
  BY <1>1, ItemsType
<1>3. CASE Len(ch) = 1
  <2>1. PICK c : ch = <<c>>
    BY <1>3
  <2>2. Tail(<<c>>) = <<>>
    OBVIOUS
  <2>3. ChanItems(Tail(ch)) = 0
    BY <2>1, <2>2, ChanItemsEmpty
  <2>4. ChanItems(ch) = a
    BY <1>2, <1>3, ChanItemsOne
  <2> QED BY <1>2, <2>3, <2>4
<1>4. CASE Len(ch) = 2
  <2>1. ch[2] \in CopyMsg
    BY <1>4
  <2>2. PICK b \in Nat : Items(ch[2]) = b
    BY <2>1, ItemsType
  <2>3. Len(Tail(ch)) = 1 /\ Tail(ch)[1] = ch[2]
    BY <1>4
  <2>4. ChanItems(Tail(ch)) = b
    BY <2>2, <2>3, ChanItemsOne
  <2>5. ChanItems(ch) = a + b
    BY <1>2, <1>4, <2>2, ChanItemsTwo
  <2> QED BY <1>2, <2>4, <2>5
<1> QED BY <1>0, <1>3, <1>4

\* Steps that move nothing of a copy.
LEMMA KeptItems ==
  ASSUME ItemsInv, UNCHANGED <<sinkVars, outbound, srv, served, committed, copied>>,
         pc = "dropped" => pc' = "dropped"
  PROVE  ItemsInv'
<1>1. /\ UNCHANGED <<sink, copyChan, sinkBuf, put>> /\ Taken' = Taken
      /\ \A r \in Request : (Unstarted(r)' <=> Unstarted(r)) /\ (Live(r)' <=> Live(r))
  BY DEF sinkVars, Taken, Unstarted, Live
<1>2. StartInv'
  BY <1>1 DEF ItemsInv, StartInv
<1>3. DoneInv'
  BY <1>1 DEF ItemsInv, DoneInv
<1>4. AmountInv'
  BY <1>1 DEF ItemsInv, AmountInv
<1> QED BY <1>2, <1>3, <1>4 DEF ItemsInv

\* A step of one sink.
LEMMA OneSink ==
  ASSUME ItemsInv, NEW r \in Request,
         UNCHANGED <<outbound, srv, served, committed, copied, pc>>,
         \A q \in Request \ {r} : /\ sink'[q] = sink[q] /\ copyChan'[q] = copyChan[q]
                                  /\ sinkBuf'[q] = sinkBuf[q] /\ put'[q] = put[q],
         \/ pc = "dropped" \/ sink'[r] = "none" \/ Unstarted(r)'
         \/ sink[r] # "none" /\ ~Unstarted(r),
         Len(copyChan'[r]) <= ChanCap,
         \A i \in 1 .. Len(copyChan'[r]) : copyChan'[r][i].kind = "done" =>
           i = Len(copyChan'[r]) /\ sink'[r] \in {"reading", "closed"},
         sink'[r] \notin {"active", "finishing"} => sinkBuf'[r] = 0,
         sink[r] \in {"reading", "closed"} =>
           sink'[r] \in {"reading", "closed"} /\ copyChan'[r] = copyChan[r],
         sink'[r] # "gone" =>
           /\ sink[r] # "gone"
           /\ put'[r] - sinkBuf'[r] - ChanItems(copyChan'[r])
                = put[r] - sinkBuf[r] - ChanItems(copyChan[r])
  PROVE  ItemsInv'
<1>1. /\ Taken' = Taken
      /\ \A q \in Request \ {r} : Unstarted(q)' <=> Unstarted(q)
      /\ \A q \in Request : Live(q)' <=> Live(q)
  BY DEF Taken, Unstarted, Live
<1>2. StartInv'
  <2>1. ASSUME pc # "dropped", NEW q \in Request, sink'[q] # "none", ~Unstarted(q)', q > Taken
        PROVE  \/ srv.req = q /\ srv.mode \in CopyModes
               \/ \E j \in 1 .. Len(outbound) : outbound[j].kind = "start" /\ outbound[j].req = q
    <3>1. sink[q] # "none" /\ ~Unstarted(q)
      BY <1>1, <2>1
    <3> QED BY <2>1, <3>1 DEF ItemsInv, StartInv
  <2> QED BY <1>1, <2>1 DEF ItemsInv, StartInv
<1>3. DoneInv'
  <2>1. ASSUME NEW q \in Request
        PROVE  /\ Len(copyChan'[q]) <= ChanCap
               /\ \A i \in 1 .. Len(copyChan'[q]) : copyChan'[q][i].kind = "done" =>
                    i = Len(copyChan'[q]) /\ sink'[q] \in {"reading", "closed"}
               /\ sink'[q] \notin {"active", "finishing"} => sinkBuf'[q] = 0
               /\ q \in committed' \/ (\E i \in 1 .. Len(outbound') :
                                        outbound'[i].kind = "done" /\ outbound'[i].req = q) =>
                    copyChan'[q] = <<>> /\ sink'[q] \in {"reading", "closed"}
               /\ q \in committed' => q <= Taken'
    <3>1. CASE q = r
      BY <1>1, <3>1 DEF ItemsInv, DoneInv
    <3>2. CASE q # r
      BY <1>1, <3>2 DEF ItemsInv, DoneInv
    <3> QED BY <3>1, <3>2
  <2> QED BY <2>1 DEF DoneInv
<1>4. AmountInv'
  <2>1. ASSUME NEW q \in Request, sink'[q] # "gone", Live(q)'
        PROVE  Sums(outbound', q, copied'[q], put'[q] - sinkBuf'[q] - ChanItems(copyChan'[q]))
    <3>1. CASE q = r
      BY <1>1, <2>1, <3>1 DEF ItemsInv, AmountInv
    <3>2. CASE q # r
      BY <1>1, <2>1, <3>2 DEF ItemsInv, AmountInv
    <3> QED BY <3>1, <3>2
  <2> QED BY <2>1 DEF AmountInv
<1> QED BY <1>2, <1>3, <1>4 DEF ItemsInv

\* The application's steps on its sinks.
LEMMA SinkItems ==
  ASSUME IInv, ItemsInv, NEW r \in Request,
         CopyStart(r) \/ SinkPut(r) \/ SinkFlush(r) \/ BeginFinish(r) \/ FinishDone(r)
  PROVE  ItemsInv'
<1>0. /\ sink \in [Request -> SinkState] /\ copyChan \in [Request -> Seq(CopyMsg)]
      /\ sinkBuf \in [Request -> Nat] /\ put \in [Request -> Nat]
      /\ copyChan[r] \in Seq(CopyMsg) /\ sinkBuf[r] \in Nat /\ put[r] \in Nat
  BY DEF IInv, TypeOK, SinkTypeOK
<1>1. UNCHANGED <<outbound, srv, served, committed, copied, pc>>
  BY DEF CopyStart, SinkPut, SinkFlush, BeginFinish, FinishDone, wireVars, serverVars
<1>2. /\ Len(copyChan[r]) <= ChanCap
      /\ \A i \in 1 .. Len(copyChan[r]) : copyChan[r][i].kind = "done" =>
           i = Len(copyChan[r]) /\ sink[r] \in {"reading", "closed"}
      /\ sink[r] \notin {"active", "finishing"} => sinkBuf[r] = 0
  BY DEF ItemsInv, DoneInv
<1>3. ASSUME NEW k \in {"start", "data", "done"}, NEW n \in Nat, CopySend(r, k, n),
             sink[r] \in {"created", "active", "finishing"}
      PROVE  \E x \in CopyMsg :
               /\ x.kind = k /\ Items(x) = (IF k = "data" THEN n ELSE 0)
               /\ copyChan'[r] = Append(copyChan[r], x)
               /\ \A q \in Request \ {r} : copyChan'[q] = copyChan[q]
               /\ Len(copyChan'[r]) <= ChanCap
               /\ copyChan'[r][Len(copyChan[r]) + 1] = x
               /\ \A i \in 1 .. Len(copyChan'[r]) :
                    copyChan'[r][i].kind = "done" => i = Len(copyChan'[r]) /\ k = "done"
               /\ ChanItems(copyChan'[r]) = ChanItems(copyChan[r]) + Items(x)
               /\ ChanItems(copyChan[r]) \in Nat
  <2>1. PICK x \in CopyMsg : x = [kind |-> k, n |-> n]
    BY DEF CopyMsg
  <2>2. x.kind = k /\ Items(x) = (IF k = "data" THEN n ELSE 0)
    BY <2>1 DEF Items
  <2>3. Len(copyChan[r]) < ChanCap /\ copyChan' = [copyChan EXCEPT ![r] = Append(@, x)]
    BY <1>3, <2>1 DEF CopySend, SinkReady
  <2>4. copyChan'[r] = Append(copyChan[r], x) /\ \A q \in Request \ {r} : copyChan'[q] = copyChan[q]
    BY <1>0, <2>3
  <2>5. /\ ChanItems(copyChan'[r]) = ChanItems(copyChan[r]) + Items(x)
        /\ ChanItems(copyChan[r]) \in Nat /\ Len(copyChan'[r]) <= ChanCap
    BY <1>0, <2>3, <2>4, ChanItemsAppend
  <2>6. /\ Len(copyChan'[r]) = Len(copyChan[r]) + 1 /\ copyChan'[r][Len(copyChan[r]) + 1] = x
        /\ \A i \in 1 .. Len(copyChan'[r]) :
             i = Len(copyChan'[r]) \/ (i \in 1 .. Len(copyChan[r])
                                         /\ copyChan'[r][i] = copyChan[r][i])
    BY <1>0, <2>4
  <2>7. \A i \in 1 .. Len(copyChan[r]) : copyChan[r][i].kind # "done"
    BY <1>2, <1>3
  <2> QED BY <2>2, <2>4, <2>5, <2>6, <2>7
<1>4. CASE CopyStart(r)
  <2>1. /\ sink[r] = "created" /\ CopySend(r, "start", 0) /\ sink' = [sink EXCEPT ![r] = "starting"]
        /\ UNCHANGED <<sinkBuf, put>>
    BY <1>4 DEF CopyStart
  <2>2. PICK x \in CopyMsg :
               /\ x.kind = "start" /\ Items(x) = 0
               /\ copyChan'[r] = Append(copyChan[r], x)
               /\ \A q \in Request \ {r} : copyChan'[q] = copyChan[q]
               /\ Len(copyChan'[r]) <= ChanCap
               /\ copyChan'[r][Len(copyChan[r]) + 1] = x
               /\ \A i \in 1 .. Len(copyChan'[r]) : copyChan'[r][i].kind # "done"
               /\ ChanItems(copyChan'[r]) = ChanItems(copyChan[r]) + Items(x)
               /\ ChanItems(copyChan[r]) \in Nat
    BY <1>3, <2>1
  <2>3. copyChan[r] = <<>>
    BY <2>1 DEF IInv, CopyInv
  <2>4. copyChan'[r] # <<>> /\ copyChan'[r][1].kind = "start"
    BY <2>2, <2>3
  <2>5. Unstarted(r)'
    BY <2>4 DEF Unstarted
  <2>6. sink'[r] = "starting" /\ \A q \in Request \ {r} : sink'[q] = sink[q]
    BY <1>0, <2>1
  <2>7. ChanItems(copyChan'[r]) = ChanItems(copyChan[r])
    BY <2>2
  <2> QED BY <1>1, <1>2, <2>1, <2>2, <2>5, <2>6, <2>7, OneSink
<1>5. CASE BeginFinish(r)
  <2>1. /\ sink[r] = "active" /\ sink' = [sink EXCEPT ![r] = "finishing"]
        /\ UNCHANGED <<sinkBuf, put, copyChan>>
    BY <1>5 DEF BeginFinish
  <2>2. sink'[r] = "finishing" /\ \A q \in Request \ {r} : sink'[q] = sink[q]
    BY <1>0, <2>1
  <2>3. Unstarted(r)' \/ ~Unstarted(r)
    BY <2>1 DEF Unstarted
  <2> QED BY <1>1, <1>2, <2>1, <2>2, <2>3, OneSink
<1>6. ASSUME sink[r] \in {"active", "finishing"} PROVE Unstarted(r)' \/ ~Unstarted(r) \/
             copyChan'[r] # copyChan[r]
  BY <1>6 DEF Unstarted
<1>7. ASSUME NEW x \in CopyMsg, copyChan'[r] = Append(copyChan[r], x),
             sink[r] \in {"active", "finishing"}
      PROVE  Unstarted(r)' \/ ~Unstarted(r)
  <2>1. copyChan[r] # <<>> => copyChan'[r] # <<>> /\ copyChan'[r][1] = copyChan[r][1]
    BY <1>0, <1>7
  <2> QED BY <1>7, <2>1 DEF Unstarted
<1>8. CASE SinkPut(r)
  <2>1. sink[r] = "active" /\ sink' = sink /\ put' = [put EXCEPT ![r] = @ + 1]
    BY <1>8 DEF SinkPut
  <2>2. put'[r] = put[r] + 1 /\ \A q \in Request \ {r} : put'[q] = put[q]
    BY <1>0, <2>1
  <2>3. CASE UNCHANGED copyChan /\ sinkBuf' = [sinkBuf EXCEPT ![r] = @ + 1]
    <3>1. sinkBuf'[r] = sinkBuf[r] + 1 /\ \A q \in Request \ {r} : sinkBuf'[q] = sinkBuf[q]
      BY <1>0, <2>3
    <3>2. (put[r] + 1) - (sinkBuf[r] + 1) = put[r] - sinkBuf[r]
      BY <1>0
    <3>3. Unstarted(r)' \/ ~Unstarted(r)
      BY <1>6, <2>1, <2>3
    <3> QED BY <1>1, <1>2, <2>1, <2>2, <2>3, <3>1, <3>2, <3>3, OneSink
  <2>4. CASE CopySend(r, "data", sinkBuf[r] + 1) /\ sinkBuf' = [sinkBuf EXCEPT ![r] = 0]
    <3>1. sinkBuf'[r] = 0 /\ \A q \in Request \ {r} : sinkBuf'[q] = sinkBuf[q]
      BY <1>0, <2>4
    <3>2. PICK n \in Nat : n = sinkBuf[r] + 1
      BY <1>0
    <3>3. PICK x \in CopyMsg :
               /\ x.kind = "data" /\ Items(x) = n
               /\ copyChan'[r] = Append(copyChan[r], x)
               /\ \A q \in Request \ {r} : copyChan'[q] = copyChan[q]
               /\ Len(copyChan'[r]) <= ChanCap
               /\ \A i \in 1 .. Len(copyChan'[r]) : copyChan'[r][i].kind # "done"
               /\ ChanItems(copyChan'[r]) = ChanItems(copyChan[r]) + Items(x)
               /\ ChanItems(copyChan[r]) \in Nat
      BY <1>3, <2>1, <2>4, <3>2
    <3>4. put'[r] - sinkBuf'[r] - ChanItems(copyChan'[r])
            = put[r] - sinkBuf[r] - ChanItems(copyChan[r])
      BY <1>0, <2>2, <3>1, <3>2, <3>3
    <3>5. Unstarted(r)' \/ ~Unstarted(r)
      BY <1>7, <2>1, <3>3
    <3> QED BY <1>1, <1>2, <2>1, <2>2, <3>1, <3>3, <3>4, <3>5, OneSink
  <2> QED BY <1>8, <2>3, <2>4 DEF SinkPut
<1>9. CASE SinkFlush(r)
  <2>1. /\ sink[r] \in {"active", "finishing"} /\ sink' = sink /\ put' = put
        /\ CopySend(r, "data", sinkBuf[r]) /\ sinkBuf' = [sinkBuf EXCEPT ![r] = 0]
    BY <1>9 DEF SinkFlush
  <2>2. sinkBuf'[r] = 0 /\ \A q \in Request \ {r} : sinkBuf'[q] = sinkBuf[q]
    BY <1>0, <2>1
  <2>3. PICK x \in CopyMsg :
             /\ x.kind = "data" /\ Items(x) = sinkBuf[r]
             /\ copyChan'[r] = Append(copyChan[r], x)
             /\ \A q \in Request \ {r} : copyChan'[q] = copyChan[q]
             /\ Len(copyChan'[r]) <= ChanCap
             /\ \A i \in 1 .. Len(copyChan'[r]) : copyChan'[r][i].kind # "done"
             /\ ChanItems(copyChan'[r]) = ChanItems(copyChan[r]) + Items(x)
             /\ ChanItems(copyChan[r]) \in Nat
    <3>1. sinkBuf[r] \in Nat
      BY <1>0
    <3>2. CopySend(r, "data", sinkBuf[r]) /\ sink[r] \in {"created", "active", "finishing"}
      BY <2>1
    <3> QED BY <1>3, <3>1, <3>2
  <2>4. put'[r] - sinkBuf'[r] - ChanItems(copyChan'[r])
          = put[r] - sinkBuf[r] - ChanItems(copyChan[r])
    BY <1>0, <2>1, <2>2, <2>3
  <2>5. Unstarted(r)' \/ ~Unstarted(r)
    BY <1>7, <2>1, <2>3
  <2> QED BY <1>1, <1>2, <2>1, <2>2, <2>3, <2>4, <2>5, OneSink
<1>10. CASE FinishDone(r)
  <2>1. /\ sink[r] = "finishing" /\ sinkBuf[r] = 0 /\ UNCHANGED <<sinkBuf, put>>
        /\ CopySend(r, "done", 0) /\ sink' = [sink EXCEPT ![r] = "reading"]
    BY <1>10 DEF FinishDone
  <2>2. sink'[r] = "reading" /\ \A q \in Request \ {r} : sink'[q] = sink[q]
    BY <1>0, <2>1
  <2>3. PICK x \in CopyMsg :
             /\ x.kind = "done" /\ Items(x) = 0
             /\ copyChan'[r] = Append(copyChan[r], x)
             /\ \A q \in Request \ {r} : copyChan'[q] = copyChan[q]
             /\ Len(copyChan'[r]) <= ChanCap
             /\ \A i \in 1 .. Len(copyChan'[r]) :
                  copyChan'[r][i].kind = "done" => i = Len(copyChan'[r])
             /\ ChanItems(copyChan'[r]) = ChanItems(copyChan[r]) + Items(x)
             /\ ChanItems(copyChan[r]) \in Nat
    BY <1>3, <2>1
  <2>4. ChanItems(copyChan'[r]) = ChanItems(copyChan[r])
    BY <2>3
  <2>5. Unstarted(r)' \/ ~Unstarted(r)
    BY <1>7, <2>1, <2>3
  <2> QED BY <1>1, <1>2, <2>1, <2>2, <2>3, <2>4, <2>5, OneSink
<1> QED BY <1>4, <1>5, <1>8, <1>9, <1>10

\* A Responses that is dropped takes the sink along.
LEMMA DropItems ==
  ASSUME IInv, ItemsInv, NEW r \in Request, DropReceiver(r),
         UNCHANGED <<copyChan, put, outbound, srv, served, committed, copied, pc>>,
         sink[r] # "created" \/ pc = "dropped"
  PROVE  ItemsInv'
<1>0. /\ sink \in [Request -> SinkState] /\ sinkBuf \in [Request -> Nat]
  BY DEF IInv, TypeOK, SinkTypeOK
<1>1. /\ \A q \in Request \ {r} : sink'[q] = sink[q] /\ sinkBuf'[q] = sinkBuf[q]
      /\ sinkBuf'[r] = 0
      /\ sink[r] = "none" => sink'[r] = "none"
      /\ sink[r] \in {"reading", "closed"} => sink'[r] = "closed"
      /\ sink[r] \notin {"none", "reading", "closed"} => sink'[r] = "gone"
  BY <1>0 DEF DropReceiver
<1>2. /\ Len(copyChan[r]) <= ChanCap
      /\ \A i \in 1 .. Len(copyChan[r]) : copyChan[r][i].kind = "done" =>
           i = Len(copyChan[r]) /\ sink[r] \in {"reading", "closed"}
      /\ sink[r] \notin {"active", "finishing"} => sinkBuf[r] = 0
  BY DEF ItemsInv, DoneInv
<1>3. sink'[r] # "gone" => sinkBuf[r] = 0 /\ sink[r] # "gone"
  BY <1>1, <1>2
<1>4. sink'[r] = "none" \/ sink[r] # "none"
  BY <1>1
<1>5. sink[r] # "created" => (Unstarted(r)' \/ ~Unstarted(r))
  BY DEF Unstarted
<1>6. sink'[r] # "gone" => put'[r] - sinkBuf'[r] - ChanItems(copyChan'[r])
                             = put[r] - sinkBuf[r] - ChanItems(copyChan[r])
  BY <1>1, <1>3
<1> QED BY <1>1, <1>2, <1>3, <1>4, <1>5, <1>6, OneSink

\* The tasks' steps.
LEMMA TaskItems ==
  ASSUME IInv, ItemsInv, NEW r \in Request, NextMessage(r) \/ SeeClosed(r) \/ DropResponses(r)
  PROVE  ItemsInv'
<1>1. UNCHANGED <<copyChan, put, outbound, srv, served, committed, copied, pc>>
  BY DEF NextMessage, SeeClosed, DropResponses, wireVars, serverVars
<1>2. CASE SeeClosed(r)
  <2>1. DropReceiver(r) /\ (sink[r] # "created" \/ pc = "dropped")
    BY <1>2 DEF SeeClosed, PollsResponses
  <2> QED BY <1>1, <2>1, DropItems
<1>3. CASE DropResponses(r)
  <2>1. DropReceiver(r) /\ sink[r] # "created"
    BY <1>3 DEF DropResponses
  <2> QED BY <1>1, <2>1, DropItems
<1>4. CASE NextMessage(r)
  <2>0. sink \in [Request -> SinkState] /\ sink[r] \in {"none", "starting", "reading"}
    BY <1>4 DEF IInv, TypeOK, SinkTypeOK, NextMessage, PollsResponses
  <2>1. \/ DropReceiver(r)
        \/ /\ sinkBuf' = sinkBuf
           /\ sink' = IF sink[r] = "starting" THEN [sink EXCEPT ![r] = "active"] ELSE sink
    BY <1>4 DEF NextMessage
  <2>2. CASE DropReceiver(r)
    BY <1>1, <2>0, <2>2, DropItems
  <2>3. CASE sinkBuf' = sinkBuf /\ sink' = IF sink[r] = "starting" THEN [sink EXCEPT ![r] = "active"] ELSE sink
    <3>1. /\ \A q \in Request \ {r} : sink'[q] = sink[q]
          /\ sink[r] = "starting" => sink'[r] = "active"
          /\ sink[r] # "starting" => sink'[r] = sink[r]
      BY <2>0, <2>3
    <3>2. /\ Len(copyChan[r]) <= ChanCap
          /\ \A i \in 1 .. Len(copyChan[r]) : copyChan[r][i].kind = "done" =>
               i = Len(copyChan[r]) /\ sink[r] \in {"reading", "closed"}
          /\ sink[r] \notin {"active", "finishing"} => sinkBuf[r] = 0
      BY DEF ItemsInv, DoneInv
    <3>3. sink'[r] = "none" \/ (sink[r] # "none" /\ (Unstarted(r)' \/ ~Unstarted(r)))
      BY <1>1, <2>0, <3>1 DEF Unstarted
    <3> QED BY <1>1, <2>0, <2>3, <3>1, <3>2, <3>3, OneSink
  <2> QED BY <2>1, <2>2, <2>3
<1> QED BY <1>2, <1>3, <1>4

\* A new request's sink has nothing to send yet.
LEMMA SendItems ==
  ASSUME IInv, ItemsInv, NEW k \in Kind, Send(k)
  PROVE  ItemsInv'
<1>0. /\ sink \in [Request -> SinkState] /\ Len(requests) \in Nat /\ MaxRequests \in Nat
  BY ConnectionAssumption DEF IInv, TypeOK, SinkTypeOK, ClientTypeOK
<1>1. UNCHANGED <<copyChan, sinkBuf, put, outbound, srv, served, committed, copied, pc>>
  BY DEF Send, wireVars, serverVars
<1>2. PICK r \in Request : /\ r = Len(requests) + 1
                           /\ sink' = [sink EXCEPT ![r] = IF k = "copy" THEN "created" ELSE "none"]
  <2>1. Len(requests) < MaxRequests
    BY DEF Send
  <2>2. Len(requests) + 1 \in Request
    BY <1>0, <2>1 DEF Request
  <2> QED BY <2>2 DEF Send
<1>3. /\ \A q \in Request \ {r} : sink'[q] = sink[q]
      /\ sink'[r] \in {"created", "none"} /\ sink[r] = "none" /\ copyChan[r] = <<>>
  BY <1>0, <1>2 DEF IInv, CopyInv, Request
<1>4. sinkBuf[r] = 0 /\ Len(copyChan[r]) = 0 /\ Len(copyChan[r]) <= ChanCap
  BY <1>3 DEF ItemsInv, DoneInv, ChanCap
<1>5. sink'[r] = "none" \/ Unstarted(r)'
  BY <1>3 DEF Unstarted
<1> QED BY <1>1, <1>3, <1>4, <1>5, OneSink

\* The items in a COPY channel are a number.
LEMMA ChanItemsType ==
  ASSUME NEW ch \in Seq(CopyMsg), Len(ch) <= ChanCap PROVE ChanItems(ch) \in Nat
<1>1. CASE ch = <<>>
  BY <1>1, ChanItemsEmpty
<1>2. CASE ch # <<>>
  BY <1>2, ChanItemsTail
<1> QED BY <1>1, <1>2

\* The future's steps that write nothing, and the server's that read nothing.
LEMMA QuietItems ==
  ASSUME IInv, ItemsInv,
         \/ DropClient \/ PollStart \/ PollRead \/ PollFlush \/ PollEnd \/ IoError
         \/ DropConnection \/ (\E k \in AsyncKind : ServerAsync(k)) \/ ServerClose
         \/ UNCHANGED vars
         \/ /\ pc # "dropped"
            /\ \/ WriteClosing \/ WriteBackpressure \/ WriteIdle
               \/ (\E r \in Request : WriteCopyPending(r)) \/ WriteCopyEnd
  PROVE  ItemsInv'
<1>1. UNCHANGED <<outbound, srv, served, committed, copied>>
  BY DEF DropClient, PollStart, PollFlush, PollEnd, IoError, DropConnection, WriteClosing,
     WriteBackpressure, WriteIdle, WriteCopyPending, WriteCopyEnd, ServerAsync, ServerClose,
     PollRead, ReadSkip, ReadPending, ReadEof, ReadMessage, ReadAsync, ReadUnexpected,
     ReadPage, ReadBlocked, readFrame, FlushSocket, writeFrame, serverFrame, vars, wireVars, serverVars
<1>2. UNCHANGED sinkVars
  BY DEF DropClient, PollStart, PollFlush, PollEnd, IoError, DropConnection, WriteClosing,
     WriteBackpressure, WriteIdle, WriteCopyPending, WriteCopyEnd, ServerAsync, ServerClose,
     PollRead, ReadSkip, ReadPending, ReadEof, ReadMessage, ReadAsync, ReadUnexpected,
     ReadPage, ReadBlocked, readFrame, FlushSocket, writeFrame, serverFrame, vars, sinkVars
<1>3. pc = "dropped" => pc' = "dropped"
  BY DEF DropClient, PollStart, PollFlush, PollEnd, IoError, DropConnection, ServerAsync,
     ServerClose, PollRead, serverFrame, vars
<1> QED BY <1>1, <1>2, <1>3, KeptItems

\* A message m is written behind all others.
LEMMA AppendItems ==
  ASSUME IInv, ItemsInv, NEW m \in OutMsg, outbound' = Append(outbound, m), TypeOK',
         UNCHANGED <<sink, sinkBuf, put, srv, served, committed, copied, pc>>,
         \A q \in Request : /\ q # m.req => copyChan'[q] = copyChan[q]
                            /\ copyChan[q] = <<>> => copyChan'[q] = <<>>,
         m.kind \in {"data", "done", "fail"} =>
           \/ srv.req = m.req /\ srv.mode \in CopyModes
           \/ \E j \in 1 .. Len(outbound) : outbound[j].kind = "start" /\ outbound[j].req = m.req,
         m.req \in Request =>
           /\ Len(copyChan'[m.req]) <= ChanCap
           /\ \A i \in 1 .. Len(copyChan'[m.req]) : copyChan'[m.req][i].kind = "done" =>
                i = Len(copyChan'[m.req]) /\ sink[m.req] \in {"reading", "closed"}
           /\ m.kind = "done" => copyChan'[m.req] = <<>> /\ sink[m.req] \in {"reading", "closed"}
           /\ m.kind = "start" \/ Unstarted(m.req)' \/ ~Unstarted(m.req)
           /\ ChanItems(copyChan[m.req]) = Items(m) + ChanItems(copyChan'[m.req])
  PROVE  ItemsInv'
<1>0. /\ outbound \in Seq(OutMsg) /\ Len(outbound) \in Nat
      /\ copyChan' \in [Request -> Seq(CopyMsg)] /\ sinkBuf \in [Request -> Nat] /\ put \in [Request -> Nat]
  BY DEF IInv, TypeOK, WireTypeOK, SinkTypeOK
<1>1. /\ Len(outbound') = Len(outbound) + 1 /\ outbound'[Len(outbound) + 1] = m
      /\ \A i \in 1 .. Len(outbound) : outbound'[i] = outbound[i] /\ i \in 1 .. Len(outbound')
      /\ \A i \in 1 .. Len(outbound') : i \in 1 .. Len(outbound) \/ i = Len(outbound) + 1
      /\ Len(outbound) + 1 \in 1 .. Len(outbound')
  BY <1>0
<1>2. /\ Taken' = Taken
      /\ \A q \in Request : Live(q)' <=> Live(q)
      /\ \A q \in Request \ {m.req} : Unstarted(q)' <=> Unstarted(q)
  BY DEF Taken, Live, Unstarted
<1>3. StartInv'
  <2>1. ASSUME NEW i \in 1 .. Len(outbound'), outbound'[i].kind \in {"data", "done", "fail"}
        PROVE  \/ srv.req = outbound'[i].req /\ srv.mode \in CopyModes
               \/ \E j \in 1 .. i - 1 : outbound'[j].kind = "start" /\ outbound'[j].req = outbound'[i].req
    <3>1. CASE i \in 1 .. Len(outbound)
      <4>1. \A j \in 1 .. i - 1 : j \in 1 .. Len(outbound)
        BY <1>0, <3>1
      <4>2. outbound'[i] = outbound[i]
        BY <1>1, <3>1
      <4> QED BY <1>1, <2>1, <3>1, <4>1, <4>2 DEF ItemsInv, StartInv
    <3>2. CASE i = Len(outbound) + 1
      <4>1. \A j \in 1 .. Len(outbound) : j \in 1 .. i - 1
        BY <1>0, <3>2
      <4> QED BY <1>1, <2>1, <3>2, <4>1
    <3> QED BY <1>1, <3>1, <3>2
  <2>2. ASSUME pc # "dropped", NEW q \in Request, sink[q] # "none", ~Unstarted(q)', q > Taken
        PROVE  \/ srv.req = q /\ srv.mode \in CopyModes
               \/ \E j \in 1 .. Len(outbound') : outbound'[j].kind = "start" /\ outbound'[j].req = q
    <3>1. CASE q = m.req /\ m.kind = "start"
      BY <1>1, <3>1
    <3>2. CASE ~Unstarted(q)
      <4>1. \/ srv.req = q /\ srv.mode \in CopyModes
            \/ \E j \in 1 .. Len(outbound) : outbound[j].kind = "start" /\ outbound[j].req = q
        BY <2>2, <3>2 DEF ItemsInv, StartInv
      <4> QED BY <1>1, <4>1
    <3> QED BY <1>2, <2>2, <3>1, <3>2
  <2> QED BY <1>2, <2>1, <2>2 DEF StartInv
<1>4. DoneInv'
  <2>1. ASSUME NEW q \in Request
        PROVE  /\ Len(copyChan'[q]) <= ChanCap
               /\ \A i \in 1 .. Len(copyChan'[q]) : copyChan'[q][i].kind = "done" =>
                    i = Len(copyChan'[q]) /\ sink[q] \in {"reading", "closed"}
    <3>1. CASE q = m.req
      BY <3>1
    <3>2. CASE q # m.req
      BY <3>2 DEF ItemsInv, DoneInv
    <3> QED BY <3>1, <3>2
  <2>2. ASSUME NEW q \in Request,
               q \in committed \/ (\E i \in 1 .. Len(outbound') :
                                     outbound'[i].kind = "done" /\ outbound'[i].req = q)
        PROVE  copyChan'[q] = <<>> /\ sink[q] \in {"reading", "closed"}
    <3>1. CASE q = m.req /\ m.kind = "done"
      BY <3>1
    <3>2. CASE ~(q = m.req /\ m.kind = "done")
      <4>1. q \in committed \/ (\E i \in 1 .. Len(outbound) :
                                  outbound[i].kind = "done" /\ outbound[i].req = q)
        BY <1>1, <2>2, <3>2
      <4> QED BY <4>1 DEF ItemsInv, DoneInv
    <3> QED BY <3>1, <3>2
  <2> QED BY <1>2, <2>1, <2>2 DEF ItemsInv, DoneInv
<1>5. AmountInv'
  <2>1. ASSUME NEW q \in Request, sink[q] # "gone", Live(q)
        PROVE  Sums(outbound', q, copied[q], put[q] - sinkBuf[q] - ChanItems(copyChan'[q]))
    <3>1. Len(copyChan'[q]) <= ChanCap
      BY <1>4 DEF DoneInv
    <3>2. /\ ChanItems(copyChan'[q]) \in Nat /\ put[q] \in Nat /\ sinkBuf[q] \in Nat
          /\ ItemsOf(m, q) \in Nat
      BY <1>0, <3>1, ChanItemsType, ItemsType
    <3>3. ChanItems(copyChan[q]) = ItemsOf(m, q) + ChanItems(copyChan'[q])
      BY <3>2 DEF ItemsOf
    <3>4. PICK z \in Int : z = put[q] - sinkBuf[q] - ChanItems(copyChan[q])
      BY <3>2, <3>3
    <3>5. Sums(outbound, q, copied[q], z)
      BY <2>1, <3>4 DEF ItemsInv, AmountInv
    <3>6. Sums(outbound', q, copied[q], z + ItemsOf(m, q))
      BY <1>0, <3>5, SumsAppend
    <3>7. z + ItemsOf(m, q) = put[q] - sinkBuf[q] - ChanItems(copyChan'[q])
      BY <3>2, <3>3, <3>4
    <3> QED BY <3>6, <3>7
  <2> QED BY <1>2, <2>1 DEF AmountInv
<1> QED BY <1>3, <1>4, <1>5 DEF ItemsInv

\* What poll_write writes.
LEMMA WriteItems == ASSUME IInv, ItemsInv, PollWrite PROVE ItemsInv'
<1>0. TypeOK /\ TypeOK' /\ pc = "write"
  BY PollWriteType DEF PollWrite, IInv
<1>1. CASE \/ WriteClosing \/ WriteBackpressure \/ WriteIdle
           \/ (\E r \in Request : WriteCopyPending(r)) \/ WriteCopyEnd
  BY <1>0, <1>1, QuietItems
<1>2. ASSUME NEW q \in Request
      PROVE  /\ Len(copyChan[q]) <= ChanCap /\ copyChan[q] \in Seq(CopyMsg)
             /\ \A i \in 1 .. Len(copyChan[q]) : copyChan[q][i].kind = "done" =>
                  i = Len(copyChan[q]) /\ sink[q] \in {"reading", "closed"}
             /\ ChanItems(copyChan[q]) \in Nat
  <2>1. Len(copyChan[q]) <= ChanCap /\ copyChan[q] \in Seq(CopyMsg)
    BY <1>0 DEF ItemsInv, DoneInv, TypeOK, SinkTypeOK
  <2> QED BY <2>1, ChanItemsType DEF ItemsInv, DoneInv
<1>3. CASE WriteTerminate
  <2>1. PICK m \in OutMsg : m = Out("terminate", 0, 0) /\ m.kind = "terminate" /\ m.req = 0
    <3>1. Out("terminate", 0, 0) \in OutMsg
      BY DEF Out, OutMsg
    <3> QED BY <3>1 DEF Out
  <2>2. /\ outbound' = Append(outbound, m)
        /\ UNCHANGED <<sink, sinkBuf, put, srv, served, committed, copied, pc, copyChan>>
    BY <1>3, <2>1 DEF WriteTerminate, writeFrame, serverVars
  <2>3. m.req \notin Request
    BY <2>1 DEF Request
  <2> QED BY <1>0, <2>1, <2>2, <2>3, AppendItems
<1>4. CASE WriteSingle
  <2>0. receiver[1] \in Request
    BY <1>0, <1>4 DEF WriteSingle, TypeOK, ConnTypeOK
  <2>1. PICK m \in OutMsg : m = Out("query", receiver[1], 0) /\ m.kind = "query" /\ m.req = receiver[1]
    <3>1. Out("query", receiver[1], 0) \in OutMsg
      BY <2>0, OutType DEF OutKind
    <3> QED BY <3>1 DEF Out
  <2>2. /\ outbound' = Append(outbound, m)
        /\ UNCHANGED <<sink, sinkBuf, put, srv, served, committed, copied, pc, copyChan>>
    BY <1>4, <2>1 DEF WriteSingle, writeFrame, serverVars
  <2>3. m.req \in Request /\ Items(m) = 0
    BY <2>0, <2>1 DEF Items
  <2>4. Unstarted(m.req)' \/ ~Unstarted(m.req)
    BY <2>2 DEF Unstarted
  <2>5. ChanItems(copyChan[m.req]) = Items(m) + ChanItems(copyChan'[m.req])
    BY <1>2, <2>2, <2>3
  <2> QED BY <1>0, <1>2, <2>1, <2>2, <2>3, <2>4, <2>5, AppendItems
<1>5. ASSUME NEW r \in Request, WriteCopy(r) PROVE ItemsInv'
  <2>1. /\ TakeCopy(r) /\ ~copyDone /\ pendingRequest' = r /\ copyDone' \in BOOLEAN
        /\ UNCHANGED <<clientOpen, requests, state>>
        /\ UNCHANGED <<sink, sinkBuf, put, srv, served, committed, copied, pc>>
    BY <1>0, <1>5 DEF WriteCopy, writeFrame, clientVars, serverVars, TypeOK, ConnTypeOK
  <2>2. r = Popped' /\ Written = Popped' - 1
    BY <1>0, <2>1, TakeCopyNext DEF IInv
  <2>3. r > Taken
    <3>1. Taken <= Written /\ Taken \in Int /\ Written \in Int /\ r \in Int
      BY <1>0, Counts DEF IInv, ServerInv, Request
    <3>2. Written = r - 1
      BY <2>2
    <3> QED BY <3>1, <3>2
  <2>4. ASSUME sink[r] # "none", ~Unstarted(r)
        PROVE  \/ srv.req = r /\ srv.mode \in CopyModes
               \/ \E j \in 1 .. Len(outbound) : outbound[j].kind = "start" /\ outbound[j].req = r
    BY <1>0, <2>3, <2>4 DEF ItemsInv, StartInv
  <2>5. CASE copyChan[r] # <<>>
    <3>1. PICK h \in CopyMsg : h = copyChan[r][1] /\ h.kind \in {"start", "data", "done"}
      <4>1. copyChan[r][1] \in CopyMsg
        BY <1>2, <2>5
      <4> QED BY <4>1 DEF CopyMsg
    <3>2. PICK m \in OutMsg : m = Out(h.kind, r, h.n) /\ m.kind = h.kind /\ m.req = r /\ m.n = h.n
      <4>1. Out(h.kind, r, h.n) \in OutMsg
        BY <3>1, OutType DEF CopyMsg, OutKind
      <4> QED BY <4>1 DEF Out
    <3>3. /\ copyChan' = [copyChan EXCEPT ![r] = Tail(@)] /\ outbound' = Append(outbound, m)
      BY <1>5, <2>5, <3>1, <3>2 DEF WriteCopy
    <3>4. /\ copyChan'[r] = Tail(copyChan[r])
          /\ \A q \in Request \ {r} : copyChan'[q] = copyChan[q]
      BY <1>0, <3>3 DEF TypeOK, SinkTypeOK
    <3>5. Len(copyChan[r]) >= 1 /\ Len(copyChan[r]) \in Nat /\ 1 \in 1 .. Len(copyChan[r])
      BY <1>2, <2>5
    <3>6. /\ Len(copyChan'[r]) = Len(copyChan[r]) - 1
          /\ \A i \in 1 .. Len(copyChan'[r]) :
               i + 1 \in 1 .. Len(copyChan[r]) /\ copyChan'[r][i] = copyChan[r][i + 1]
      BY <1>2, <2>5, <3>4
    <3>7. Len(copyChan'[r]) <= ChanCap
      BY <1>2, <3>5, <3>6 DEF ChanCap
    <3>8. \A i \in 1 .. Len(copyChan'[r]) : copyChan'[r][i].kind = "done" =>
            i = Len(copyChan'[r]) /\ sink[r] \in {"reading", "closed"}
      BY <1>2, <3>5, <3>6
    <3>9. m.kind = "done" => copyChan'[r] = <<>> /\ sink[r] \in {"reading", "closed"}
      <4>1. m.kind = "done" => Len(copyChan[r]) = 1 /\ sink[r] \in {"reading", "closed"}
        BY <1>2, <3>1, <3>2, <3>5
      <4>2. ASSUME Len(copyChan[r]) = 1 PROVE copyChan'[r] = <<>>
        <5>1. PICK c : copyChan[r] = <<c>>
          BY <1>2, <4>2
        <5>2. Tail(<<c>>) = <<>>
          OBVIOUS
        <5> QED BY <3>4, <5>1, <5>2
      <4> QED BY <4>1, <4>2
    <3>10. Items(m) = Items(h)
      BY <3>2 DEF Items
    <3>11. ChanItems(copyChan[r]) = Items(m) + ChanItems(copyChan'[r])
      BY <1>2, <2>5, <3>1, <3>4, <3>10, ChanItemsTail
    <3>12. sink[r] \notin {"none", "created"}
      BY <2>5 DEF IInv, CopyInv
    <3>13. m.kind = "start" \/ ~Unstarted(r)
      BY <3>1, <3>2, <3>12 DEF Unstarted
    <3>14. m.kind \in {"data", "done", "fail"} =>
             \/ srv.req = m.req /\ srv.mode \in CopyModes
             \/ \E j \in 1 .. Len(outbound) : outbound[j].kind = "start" /\ outbound[j].req = m.req
      BY <2>4, <3>2, <3>12, <3>13
    <3>15. \A q \in Request : /\ q # m.req => copyChan'[q] = copyChan[q]
                              /\ copyChan[q] = <<>> => copyChan'[q] = <<>>
      BY <2>5, <3>2, <3>4
    <3>16. /\ Len(copyChan'[m.req]) <= ChanCap
           /\ \A i \in 1 .. Len(copyChan'[m.req]) : copyChan'[m.req][i].kind = "done" =>
                i = Len(copyChan'[m.req]) /\ sink[m.req] \in {"reading", "closed"}
           /\ m.kind = "done" => copyChan'[m.req] = <<>> /\ sink[m.req] \in {"reading", "closed"}
           /\ m.kind = "start" \/ Unstarted(m.req)' \/ ~Unstarted(m.req)
           /\ ChanItems(copyChan[m.req]) = Items(m) + ChanItems(copyChan'[m.req])
      <4>1. m.req = r
        BY <3>2
      <4> QED BY <3>7, <3>8, <3>9, <3>11, <3>13, <4>1
    <3>17. IInv /\ ItemsInv /\ TypeOK'
      BY <1>0
    <3> QED BY <2>1, <3>3, <3>14, <3>15, <3>16, <3>17, AppendItems
  <2>6. CASE copyChan[r] = <<>>
    <3>1. PICK m \in OutMsg : m = Out("fail", r, 0) /\ m.kind = "fail" /\ m.req = r
      <4>1. Out("fail", r, 0) \in OutMsg
        BY OutType DEF OutKind
      <4> QED BY <4>1 DEF Out
    <3>2. SenderGone(r) /\ outbound' = Append(outbound, m) /\ copyChan' = copyChan
      BY <1>5, <2>6, <3>1 DEF WriteCopy, AbandonedCopy
    <3>3. sink[r] # "none" /\ ~Unstarted(r) /\ Items(m) = 0
      BY <2>6, <3>1, <3>2 DEF SenderGone, Unstarted, Items
    <3>4. ChanItems(copyChan[r]) = Items(m) + ChanItems(copyChan'[r])
      BY <1>2, <3>2, <3>3
    <3> QED BY <1>0, <1>2, <2>1, <2>4, <3>1, <3>2, <3>3, <3>4, AppendItems
  <2> QED BY <2>5, <2>6
<1> QED BY <1>1, <1>3, <1>4, <1>5 DEF PollWrite

\* What the server makes of the next message: the steps it may take, given
\* that copy messages come only behind their start.
LEMMA ServerReadCases ==
  ASSUME IInv, StartInv, ServerRead, NEW h, h = outbound[1], h.kind # "terminate"
  PROVE  /\ h \in OutMsg /\ h.req \in Request /\ h.req = served + 1 /\ Taken = served
         /\ \/ /\ srv.mode = "idle" /\ srv.req = 0 /\ h.kind = "query"
               /\ srv'.mode = "busy" /\ srv'.req = h.req /\ UNCHANGED <<copied, committed>>
            \/ /\ srv.mode = "idle" /\ srv.req = 0 /\ h.kind = "start"
               /\ srv'.mode = "copystart" /\ srv'.req = h.req /\ UNCHANGED <<copied, committed>>
            \/ /\ srv.mode = "copy" /\ srv.req = h.req /\ h.kind = "data"
               /\ srv'.mode \in {"copy", "copyerror"} /\ srv'.req = h.req
               /\ copied' = [copied EXCEPT ![h.req] = @ + h.n] /\ UNCHANGED committed
            \/ /\ srv.mode = "copy" /\ srv.req = h.req /\ h.kind = "done"
               /\ srv'.mode = "complete" /\ srv'.req = h.req
               /\ committed' = committed \cup {h.req} /\ UNCHANGED copied
            \/ /\ srv.mode = "copy" /\ srv.req = h.req /\ h.kind = "fail"
               /\ srv'.mode = "failing" /\ srv'.req = h.req /\ UNCHANGED <<copied, committed>>
            \/ /\ srv.mode = "skip" /\ srv.req = h.req /\ h.kind = "data"
               /\ srv'.mode = "skip" /\ srv'.req = h.req /\ UNCHANGED <<copied, committed>>
            \/ /\ srv.mode = "skip" /\ srv.req = h.req /\ h.kind \in {"done", "fail"}
               /\ srv'.mode = "ending" /\ srv'.req = h.req /\ UNCHANGED <<copied, committed>>
<1>0. /\ TypeOK /\ outbound \in Seq(OutMsg) /\ outbound # <<>> /\ 1 \in 1 .. Len(outbound)
      /\ srv \in ServerState
  BY DEF IInv, TypeOK, WireTypeOK, ServerTypeOK, ServerRead
<1>1. /\ h \in OutMsg /\ h.req \in Request /\ h.req = Taken + 1
  <2>1. h \in OutMsg
    BY <1>0
  <2> QED BY <1>0, <2>1, HeadReq DEF IInv
<1>2. h.kind \in {"query", "start", "data", "done", "fail"} /\ h.n \in Nat
  BY <1>1 DEF OutMsg, OutKind
<1>3. srv.mode \in {"idle", "copy", "skip"}
  BY DEF ServerRead
<1>4. Taken = served
  BY <1>3 DEF Taken, AnswerModes
<1>5. ASSUME srv.mode \in {"copy", "skip"}
      PROVE  srv.req = h.req /\ h.kind \in {"data", "done", "fail"}
  <2>1. srv.req = h.req
    BY <1>1, <1>4, <1>5 DEF IInv, ServerInv
  <2>2. h.kind \in First => h.req > srv.req
    BY <1>0, <1>5 DEF IInv, OutboundInv, CopyModes
  <2>3. h.req \in Int
    BY <1>1 DEF Request
  <2> QED BY <1>2, <2>1, <2>2, <2>3 DEF First
<1>6. ASSUME srv.mode = "idle" PROVE h.kind \in {"query", "start"} /\ srv.req = 0
  <2>1. 1 .. 1 - 1 = {}
    OBVIOUS
  <2>2. srv.mode \notin CopyModes
    BY <1>6 DEF CopyModes
  <2>3. h.kind \notin {"data", "done", "fail"}
    BY <1>0, <2>1, <2>2 DEF StartInv
  <2> QED BY <1>0, <1>2, <1>6, <2>3 DEF ServerState
<1>7. ASSUME NEW mode, Serve(mode) PROVE srv'.mode = mode /\ srv'.req = srv.req
  BY <1>0, <1>7 DEF Serve, ServerState
<1>8. CASE srv.mode = "idle"
  BY <1>1, <1>4, <1>6, <1>8 DEF ServerRead
<1>9. CASE srv.mode = "copy"
  BY <1>1, <1>4, <1>5, <1>7, <1>9 DEF ServerRead
<1>10. CASE srv.mode = "skip"
  BY <1>1, <1>4, <1>5, <1>7, <1>10 DEF ServerRead
<1> QED BY <1>3, <1>8, <1>9, <1>10

\* The server has nothing to do when it reads Terminate.
LEMMA ReadsTerminate ==
  ASSUME IInv, ServerRead, outbound[1].kind = "terminate"
  PROVE  /\ Len(outbound) = 1 /\ Len(outbound') = 0 /\ UNCHANGED <<srv, copied, committed>>
         /\ outbound[1].req = 0
<1>0. /\ TypeOK /\ outbound \in Seq(OutMsg) /\ outbound # <<>> /\ 1 \in 1 .. Len(outbound)
      /\ outbound' = Tail(outbound)
  BY DEF IInv, TypeOK, WireTypeOK, ServerRead
<1>1. state = "Closing" /\ Len(outbound) = 1
  BY <1>0 DEF IInv, OutboundInv
<1>2. Completed = Popped
  <2>1. responses = <<>>
    BY <1>1 DEF IInv, QueueInv
  <2> QED BY <1>0, <2>1, Counts DEF Completed
<1>3. srv.mode = "idle"
  <2>1. srv.mode # "idle" => srv.req \in Int
    BY <1>0 DEF TypeOK, ServerTypeOK, ServerState, Request
  <2> QED BY <1>0, <1>2, <2>1, Counts DEF IInv, ServerInv
<1>4. UNCHANGED <<srv, copied, committed>>
  BY <1>3 DEF ServerRead
<1>5. outbound[1].req = 0
  BY <1>0 DEF OutMsg, OutKind
<1> QED BY <1>0, <1>1, <1>4, <1>5

\* The server reads a message.
LEMMA ServerReadItems == ASSUME IInv, ItemsInv, ServerRead PROVE ItemsInv'
<1>0. /\ outbound \in Seq(OutMsg) /\ outbound # <<>> /\ Len(outbound) \in Nat /\ 1 \in 1 .. Len(outbound)
      /\ outbound' = Tail(outbound) /\ UNCHANGED <<sink, copyChan, sinkBuf, put, pc, served>>
      /\ copied \in [Request -> Nat] /\ srv \in ServerState /\ srv.req \in Int /\ served \in Nat
      /\ copyChan \in [Request -> Seq(CopyMsg)] /\ sinkBuf \in [Request -> Nat] /\ put \in [Request -> Nat]
  <2>1. outbound' = Tail(outbound) /\ UNCHANGED <<sink, copyChan, sinkBuf, put, pc, served>>
        /\ flushed > 0
    BY DEF ServerRead, serverFrame, sinkVars
  <2>2. /\ outbound \in Seq(OutMsg) /\ flushed \in 0 .. Len(outbound)
        /\ copied \in [Request -> Nat] /\ srv \in ServerState /\ served \in Nat
        /\ copyChan \in [Request -> Seq(CopyMsg)] /\ sinkBuf \in [Request -> Nat] /\ put \in [Request -> Nat]
    BY DEF IInv, TypeOK, WireTypeOK, ServerTypeOK, SinkTypeOK
  <2>3. outbound # <<>> /\ Len(outbound) \in Nat /\ 1 \in 1 .. Len(outbound)
    BY <2>1, <2>2
  <2>4. srv.req \in Int
    BY <2>2 DEF ServerState, Request
  <2> QED BY <2>1, <2>2, <2>3, <2>4
<1>1. /\ Len(outbound') = Len(outbound) - 1
      /\ \A i \in 1 .. Len(outbound') : i + 1 \in 1 .. Len(outbound) /\ outbound'[i] = outbound[i + 1]
      /\ \A i \in 1 .. Len(outbound) : i = 1 \/ (i - 1 \in 1 .. Len(outbound') /\ outbound'[i - 1] = outbound[i])
  BY <1>0
<1>2. PICK h : h = outbound[1]
  OBVIOUS
<1>3. ASSUME NEW q \in Request, sink[q] # "gone", Live(q),
             copied'[q] = copied[q] + ItemsOf(h, q)
      PROVE  Sums(outbound', q, copied'[q], put[q] - sinkBuf[q] - ChanItems(copyChan[q]))
  <2>1. Len(copyChan[q]) <= ChanCap /\ copyChan[q] \in Seq(CopyMsg)
    BY <1>0 DEF ItemsInv, DoneInv
  <2>2. ChanItems(copyChan[q]) \in Nat /\ put[q] \in Nat /\ sinkBuf[q] \in Nat
    BY <1>0, <2>1, ChanItemsType
  <2>3. PICK z \in Int : z = put[q] - sinkBuf[q] - ChanItems(copyChan[q])
    BY <2>2
  <2>4. Sums(outbound, q, copied[q], z)
    BY <1>3, <2>3 DEF ItemsInv, AmountInv
  <2>5. Sums(Tail(outbound), q, copied[q] + ItemsOf(outbound[1], q), z)
    BY <1>0, <2>4, SumsTail
  <2> QED BY <1>0, <1>2, <1>3, <2>3, <2>5
<1>4. \A q \in Request : Unstarted(q)' <=> Unstarted(q)
  BY <1>0 DEF Unstarted
<1>5. CASE h.kind = "terminate"
  <2>1. /\ Len(outbound) = 1 /\ Len(outbound') = 0 /\ UNCHANGED <<srv, copied, committed>> /\ h.req = 0
    BY <1>2, <1>5, ReadsTerminate
  <2>2. Taken' = Taken /\ \A q \in Request : Live(q)' <=> Live(q)
    BY <1>0, <2>1 DEF Taken, Live
  <2>3. \A q \in Request : ItemsOf(h, q) = 0
    BY <2>1 DEF ItemsOf, Request
  <2>4. AmountInv'
    <3>1. ASSUME NEW q \in Request PROVE copied'[q] = copied[q] + ItemsOf(h, q)
      <4>1. copied'[q] = copied[q] /\ copied[q] \in Nat /\ ItemsOf(h, q) = 0
        BY <1>0, <2>1, <2>3
      <4> QED BY <4>1
    <3> QED BY <1>0, <1>3, <2>2, <3>1 DEF AmountInv
  <2>5. \A j \in 1 .. Len(outbound) : outbound[j].kind = "terminate"
    BY <1>2, <1>5, <2>1
  <2>6. 1 .. Len(outbound') = {}
    BY <2>1
  <2>7. StartInv'
    <3>1. ASSUME pc # "dropped", NEW q \in Request, sink[q] # "none", ~Unstarted(q), q > Taken
          PROVE  srv.req = q /\ srv.mode \in CopyModes
      BY <2>5, <3>1 DEF ItemsInv, StartInv
    <3> QED BY <1>0, <1>4, <2>1, <2>2, <2>6, <3>1 DEF StartInv
  <2>8. DoneInv'
    BY <1>0, <2>1, <2>2, <2>6 DEF ItemsInv, DoneInv
  <2> QED BY <2>4, <2>7, <2>8 DEF ItemsInv
<1>6. CASE h.kind # "terminate"
  <2>1. /\ h \in OutMsg /\ h.req \in Request /\ h.req = served + 1 /\ Taken = served
        /\ \/ /\ srv.mode = "idle" /\ srv.req = 0 /\ h.kind = "query"
              /\ srv'.mode = "busy" /\ srv'.req = h.req /\ UNCHANGED <<copied, committed>>
           \/ /\ srv.mode = "idle" /\ srv.req = 0 /\ h.kind = "start"
              /\ srv'.mode = "copystart" /\ srv'.req = h.req /\ UNCHANGED <<copied, committed>>
           \/ /\ srv.mode = "copy" /\ srv.req = h.req /\ h.kind = "data"
              /\ srv'.mode \in {"copy", "copyerror"} /\ srv'.req = h.req
              /\ copied' = [copied EXCEPT ![h.req] = @ + h.n] /\ UNCHANGED committed
           \/ /\ srv.mode = "copy" /\ srv.req = h.req /\ h.kind = "done"
              /\ srv'.mode = "complete" /\ srv'.req = h.req
              /\ committed' = committed \cup {h.req} /\ UNCHANGED copied
           \/ /\ srv.mode = "copy" /\ srv.req = h.req /\ h.kind = "fail"
              /\ srv'.mode = "failing" /\ srv'.req = h.req /\ UNCHANGED <<copied, committed>>
           \/ /\ srv.mode = "skip" /\ srv.req = h.req /\ h.kind = "data"
              /\ srv'.mode = "skip" /\ srv'.req = h.req /\ UNCHANGED <<copied, committed>>
           \/ /\ srv.mode = "skip" /\ srv.req = h.req /\ h.kind \in {"done", "fail"}
              /\ srv'.mode = "ending" /\ srv'.req = h.req /\ UNCHANGED <<copied, committed>>
    BY <1>2, <1>6, ServerReadCases DEF ItemsInv
  <2>2. h.req \in Int /\ h.n \in Nat
    BY <2>1 DEF Request, OutMsg
  <2>3. Taken' = IF h.kind \in Final THEN served + 1 ELSE served
    BY <1>0, <2>1 DEF Taken, AnswerModes, Final
  <2>4. ASSUME srv.mode \in CopyModes, h.kind \notin Final
        PROVE  srv'.mode \in CopyModes /\ srv'.req = srv.req
    BY <2>1, <2>4 DEF CopyModes, Final
  <2>5. ASSUME srv.mode \in CopyModes PROVE srv.req = h.req
    BY <2>1, <2>5 DEF CopyModes
  <2>6. h.kind = "start" => srv'.mode \in CopyModes /\ srv'.req = h.req
    BY <2>1 DEF CopyModes
  <2>7. StartInv'
    <3>1. ASSUME NEW i \in 1 .. Len(outbound'), outbound'[i].kind \in {"data", "done", "fail"}
          PROVE  \/ srv'.req = outbound'[i].req /\ srv'.mode \in CopyModes
                 \/ \E j \in 1 .. i - 1 :
                      outbound'[j].kind = "start" /\ outbound'[j].req = outbound'[i].req
      <4>1. PICK q : q = outbound'[i].req
        OBVIOUS
      <4>2. i + 1 \in 1 .. Len(outbound) /\ outbound'[i] = outbound[i + 1] /\ 1 < i + 1
        BY <1>1
      <4>3. \/ srv.req = q /\ srv.mode \in CopyModes
            \/ \E j \in 1 .. (i + 1) - 1 : outbound[j].kind = "start" /\ outbound[j].req = q
        BY <3>1, <4>1, <4>2 DEF ItemsInv, StartInv
      <4>4. CASE srv.req = q /\ srv.mode \in CopyModes
        <5>1. h.req = q /\ q \in Int
          BY <2>2, <2>5, <4>4
        <5>2. h.kind \in Final => h.req < q
          BY <1>0, <1>2, <3>1, <4>1, <4>2 DEF IInv, OutboundInv
        <5> QED BY <2>4, <4>1, <4>4, <5>1, <5>2
      <4>5. CASE \E j \in 1 .. (i + 1) - 1 : outbound[j].kind = "start" /\ outbound[j].req = q
        <5>1. PICK j \in 1 .. i : outbound[j].kind = "start" /\ outbound[j].req = q
          BY <4>5
        <5>2. CASE j = 1
          BY <1>2, <2>6, <4>1, <5>1, <5>2
        <5>3. CASE j # 1
          <6>1. j - 1 \in 1 .. i - 1 /\ j \in 1 .. Len(outbound)
            BY <1>0, <4>2, <5>3
          <6>2. outbound'[j - 1] = outbound[j]
            BY <1>1, <5>3, <6>1
          <6> QED BY <4>1, <5>1, <6>1, <6>2
        <5> QED BY <5>2, <5>3
      <4> QED BY <4>3, <4>4, <4>5
    <3>2. ASSUME pc # "dropped", NEW q \in Request, sink[q] # "none", ~Unstarted(q), q > Taken'
          PROVE  \/ srv'.req = q /\ srv'.mode \in CopyModes
                 \/ \E j \in 1 .. Len(outbound') : outbound'[j].kind = "start" /\ outbound'[j].req = q
      <4>0. q \in Int /\ q > Taken /\ (h.kind \in Final => q # h.req)
        BY <1>0, <2>1, <2>3, <3>2 DEF Request
      <4>1. \/ srv.req = q /\ srv.mode \in CopyModes
            \/ \E j \in 1 .. Len(outbound) : outbound[j].kind = "start" /\ outbound[j].req = q
        BY <3>2, <4>0 DEF ItemsInv, StartInv
      <4>2. CASE srv.req = q /\ srv.mode \in CopyModes
        BY <2>4, <2>5, <4>0, <4>2
      <4>3. ASSUME NEW j \in 1 .. Len(outbound), outbound[j].kind = "start", outbound[j].req = q
            PROVE  \/ srv'.req = q /\ srv'.mode \in CopyModes
                   \/ \E l \in 1 .. Len(outbound') : outbound'[l].kind = "start" /\ outbound'[l].req = q
        <5>1. CASE j = 1
          BY <1>2, <2>6, <4>3, <5>1
        <5>2. CASE j # 1
          BY <1>1, <4>3, <5>2
        <5> QED BY <5>1, <5>2
      <4> QED BY <4>1, <4>2, <4>3
    <3> QED BY <1>0, <1>4, <3>1, <3>2 DEF StartInv
  <2>8. DoneInv'
    <3>1. ASSUME NEW q \in Request,
                 q \in committed' \/ (\E i \in 1 .. Len(outbound') :
                                        outbound'[i].kind = "done" /\ outbound'[i].req = q)
          PROVE  copyChan[q] = <<>> /\ sink[q] \in {"reading", "closed"}
      <4>1. q \in committed \/ (\E i \in 1 .. Len(outbound) :
                                  outbound[i].kind = "done" /\ outbound[i].req = q)
        BY <1>0, <1>1, <1>2, <2>1, <3>1
      <4> QED BY <4>1 DEF ItemsInv, DoneInv
    <3>2. ASSUME NEW q \in committed' PROVE q <= Taken'
      <4>1. CASE q \in committed
        <5>1. q \in Request
          BY <4>1 DEF IInv, TypeOK, ServerTypeOK
        <5>2. q <= Taken /\ q \in Int
          BY <4>1, <5>1 DEF ItemsInv, DoneInv, Request
        <5> QED BY <1>0, <2>1, <2>3, <5>2
      <4>2. CASE q \notin committed
        <5>1. q = h.req /\ h.kind = "done"
          BY <2>1, <3>2, <4>2
        <5> QED BY <1>0, <2>1, <2>3, <5>1 DEF Final
      <4> QED BY <4>1, <4>2
    <3> QED BY <1>0, <3>1, <3>2 DEF ItemsInv, DoneInv
  <2>9. AmountInv'
    <3>1. ASSUME NEW q \in Request, Live(q)'
          PROVE  Live(q) /\ copied'[q] = copied[q] + ItemsOf(h, q)
      <4>0. q \in Int /\ copied[q] \in Nat /\ served' = served /\ q # 0
        BY <1>0 DEF Request
      <4>1. Live(q)
        BY <1>0, <2>1, <3>1, <4>0 DEF Live
      <4>2. CASE h.kind # "data" \/ q # h.req
        <5>1. ItemsOf(h, q) = 0
          BY <4>2 DEF ItemsOf, Items
        <5>2. copied'[q] = copied[q]
          BY <1>0, <2>1, <4>2
        <5> QED BY <4>0, <4>1, <5>1, <5>2
      <4>3. CASE h.kind = "data" /\ q = h.req
        <5>1. q \notin committed
          <6>1. q \in committed => q <= Taken
            BY DEF ItemsInv, DoneInv
          <6> QED BY <1>0, <2>1, <4>0, <4>3, <6>1
        <5>2. srv.mode = "copy"
          BY <2>1, <4>1, <4>3, <5>1 DEF Live
        <5>3. copied'[q] = copied[q] + h.n
          BY <1>0, <2>1, <4>3, <5>2
        <5>4. ItemsOf(h, q) = h.n
          BY <4>3 DEF ItemsOf, Items
        <5> QED BY <4>1, <5>3, <5>4
      <4> QED BY <4>2, <4>3
    <3> QED BY <1>0, <1>3, <3>1 DEF AmountInv
  <2> QED BY <2>7, <2>8, <2>9 DEF ItemsInv
<1> QED BY <1>5, <1>6

\* The server answers.
LEMMA AnswerItems == ASSUME IInv, ItemsInv, ServerAnswer PROVE ItemsInv'
<1>0. srv \in ServerState /\ served \in Nat /\ srv.req \in Int
  BY DEF IInv, TypeOK, ServerTypeOK, ServerState, Request
<1>1. UNCHANGED <<sink, copyChan, sinkBuf, put, pc, outbound, committed, copied>>
  BY DEF ServerAnswer, Emit, serverFrame, sinkVars
<1>2. /\ srv.mode # "idle"
      /\ \/ srv.mode = "copystart" /\ srv'.mode = "copy" /\ srv'.req = srv.req /\ served' = served
         \/ srv.mode = "copyerror" /\ srv'.mode = "skip" /\ srv'.req = srv.req /\ served' = served
         \/ /\ srv.mode \in AnswerModes /\ srv'.mode \in AnswerModes \ {"idle"}
            /\ srv'.req = srv.req /\ served' = served
         \/ /\ srv.mode \in AnswerModes /\ srv'.mode = "idle" /\ srv'.req = 0
            /\ served' = served + 1
  BY DEF ServerAnswer, Emit, AnswerModes
<1>3. srv.req = served + 1
  BY <1>2 DEF IInv, ServerInv
<1>4. Taken' = Taken
  BY <1>0, <1>2 DEF Taken, AnswerModes
<1>5. srv.mode \in CopyModes => srv'.mode \in CopyModes /\ srv'.req = srv.req
  BY <1>2 DEF CopyModes, AnswerModes
<1>6. \A q \in Request : Unstarted(q)' <=> Unstarted(q)
  BY <1>1 DEF Unstarted
<1>7. ASSUME NEW q \in Request, Live(q)' PROVE Live(q)
  <2>1. q \in Int
    BY DEF Request
  <2> QED BY <1>0, <1>1, <1>2, <1>3, <1>7, <2>1 DEF Live, AnswerModes
<1>8. StartInv'
  BY <1>1, <1>4, <1>5, <1>6 DEF ItemsInv, StartInv
<1>9. DoneInv'
  BY <1>1, <1>4 DEF ItemsInv, DoneInv
<1>10. AmountInv'
  BY <1>1, <1>7 DEF ItemsInv, AmountInv
<1> QED BY <1>8, <1>9, <1>10 DEF ItemsInv

\* No item is on its way before the first request.
LEMMA InitItems == Init => ItemsInv
<1> SUFFICES ASSUME Init PROVE ItemsInv
  OBVIOUS
<1>1. /\ Len(outbound) = 0 /\ committed = {}
      /\ \A r \in Request : /\ sink[r] = "none" /\ copyChan[r] = <<>> /\ sinkBuf[r] = 0
                            /\ put[r] = 0 /\ copied[r] = 0
  BY DEF Init
<1>2. StartInv /\ DoneInv
  BY <1>1 DEF StartInv, DoneInv, ChanCap
<1>3. ASSUME NEW r \in Request
      PROVE  Sums(outbound, r, copied[r], put[r] - sinkBuf[r] - ChanItems(copyChan[r]))
  <2>1. put[r] - sinkBuf[r] - ChanItems(copyChan[r]) = 0 /\ copied[r] = 0
    BY <1>1, ChanItemsEmpty
  <2>2. PICK f : f = [i \in 0 .. 0 |-> 0]
    OBVIOUS
  <2>3. /\ f \in [0 .. 0 -> 0 .. 0] /\ f[0] = 0
        /\ \A i \in 0 .. 0 : f[i] = 0
    BY <2>2
  <2>4. Sums(outbound, r, 0, 0)
    BY <1>1, <2>3 DEF Sums
  <2> QED BY <2>1, <2>4
<1> QED BY <1>2, <1>3 DEF ItemsInv, AmountInv

\* Every step keeps the count of the items of a COPY that are on their way.
LEMMA NextItems ==
  ASSUME ~EarlyCopyError PROVE IInv /\ ItemsInv /\ [Next]_vars => ItemsInv'
<1> SUFFICES ASSUME IInv, ItemsInv, [Next]_vars PROVE ItemsInv'
  OBVIOUS
<1>1. CASE Application
  BY <1>1, SendItems, QuietItems, TaskItems, SinkItems DEF Application
<1>2. CASE Poll
  BY <1>2, QuietItems, WriteItems DEF Poll
<1>3. CASE Server
  BY <1>3, ServerReadItems, AnswerItems DEF Server, ServerRefusesCopy
<1>4. CASE (\E k \in AsyncKind : ServerAsync(k)) \/ ServerClose \/ UNCHANGED vars
  BY <1>4, QuietItems
<1> QED BY <1>1, <1>2, <1>3, <1>4 DEF Next, Terminated

\* What was carried out is what was put into the sink.
LEMMA ItemsSuffice == IInv /\ ItemsInv => CopyOnlyIfFinished
<1> SUFFICES ASSUME IInv, ItemsInv, NEW r \in committed
             PROVE  sink[r] \in {"reading", "closed"} /\ copied[r] = put[r]
  BY DEF CopyOnlyIfFinished
<1>1. /\ r \in Request /\ r \in Int /\ put[r] \in Nat /\ outbound \in Seq(OutMsg)
  <2>1. r \in Request
    BY DEF IInv, TypeOK, ServerTypeOK
  <2>2. r \in Int
    BY <2>1 DEF Request
  <2>3. put \in [Request -> Nat]
    BY DEF IInv, TypeOK, SinkTypeOK
  <2>4. outbound \in Seq(OutMsg)
    BY DEF IInv, TypeOK, WireTypeOK
  <2> QED BY <2>1, <2>2, <2>3, <2>4
<1>2. sink[r] \in {"reading", "closed"} /\ copyChan[r] = <<>> /\ sinkBuf[r] = 0 /\ r <= Taken
  BY <1>1 DEF ItemsInv, DoneInv
<1>3. ChanItems(copyChan[r]) = 0
  BY <1>2, ChanItemsEmpty
<1>4. ASSUME NEW k \in 1 .. Len(outbound) PROVE ItemsOf(outbound[k], r) = 0
  <2>1. CASE outbound[k].kind = "terminate"
    BY <2>1 DEF ItemsOf, Items
  <2>2. CASE outbound[k].kind # "terminate"
    <3>1. Taken < outbound[k].req /\ Taken \in Int /\ outbound[k].req \in Int
      <4>1. Taken < outbound[k].req
        BY <2>2 DEF IInv, OutboundInv
      <4>2. outbound[k] \in OutMsg
        BY <1>1
      <4>3. outbound[k].req \in Int
        BY <2>2, <4>2 DEF OutMsg, Request
      <4> QED BY <4>1, <4>3, Counts DEF IInv
    <3> QED BY <1>1, <1>2, <3>1 DEF ItemsOf
  <2> QED BY <2>1, <2>2
<1>5. Sums(outbound, r, copied[r], put[r] - sinkBuf[r] - ChanItems(copyChan[r]))
  BY <1>1, <1>2 DEF ItemsInv, AmountInv, Live
<1>6. put[r] - sinkBuf[r] - ChanItems(copyChan[r]) = put[r]
  BY <1>1, <1>2, <1>3
<1>7. copied[r] = put[r]
  BY <1>1, <1>4, <1>5, <1>6, SumsNone
<1> QED BY <1>2, <1>7

\* "The copy must be explicitly completed via the Sink::close or finish
\* methods": whatever the application does to its sinks and their futures, and
\* however the socket and the server delay them, the server carries out a copy
\* only if its sink was finished, and then with every item put into it, none
\* lost in the BytesMut, the channel or the write buffer and none sent twice.
THEOREM CopyNeedsFinish == ASSUME ~EarlyCopyError PROVE Spec => []CopyOnlyIfFinished
<1>1. Init => ItemsInv
  BY InitItems
<1>2. IInv /\ ItemsInv /\ [Next]_vars => ItemsInv'
  BY NextItems
<1>3. IInv /\ ItemsInv => CopyOnlyIfFinished
  BY ItemsSuffice
<1> QED BY <1>1, <1>2, <1>3, Routing, PTL DEF Spec
=============================================================================
