------------------------- MODULE CredentialsProofs --------------------------
(***************************************************************************)
(* Proofs about Credentials, for any number of connections, processes and  *)
(* starts.                                                                 *)
(***************************************************************************)
EXTENDS Credentials, TLAPS

-----------------------------------------------------------------------------
(***************************************************************************)
(* Type correctness.                                                       *)
(***************************************************************************)

\* Every connection has an entry of the keychain.
LEMMA UserType == \A c \in Conns : KeyringUsername(c) \in Users
  BY DEF Users

\* Looking a connection up yields what a keychain can hold.
LEMMA LookupType ==
  ASSUME NEW k \in [Services -> [Users -> Stored]], NEW c \in Conns
  PROVE  Lookup(k, c) \in Stored
  BY UserType DEF Lookup, Services

\* A process that does not run is well typed.
LEMMA IdleType == Idle \in Process /\ Idle.pc = "idle" /\ Idle.text = <<>>
  <1>1. (CHOOSE c \in Conns : TRUE) \in Conns
    BY CredentialsAssumption
  <1> QED BY <1>1 DEF Idle, Process, Kind, Phase, Field, InHand, Text

\* The conjuncts of TypeOK about one process.
ProcOK(k) ==
  /\ k \in Process
  /\ k.pc \in {"store", "verify", "rewrite", "truncate", "write"} => k.known[k.conn] = k.conn
  /\ k.pc \notin {"truncate", "write"} => k.text = <<>>

\* A step that changes one process.
LEMMA ProcType ==
  ASSUME TypeOK, NEW p \in Procs, NEW k, ProcOK(k), proc' = [proc EXCEPT ![p] = k],
         file' \in Text, keyring' \in [Services -> [Users -> Stored]],
         starts' \in 0 .. MaxStarts, intended' \in [Conns -> Field],
         harm' \in SUBSET {"overlap", "check", "crash"}
  PROVE  TypeOK'
<1>1. proc' \in [Procs -> Process] /\ \A q \in Procs : ProcOK(proc'[q])
  BY DEF TypeOK, ProcOK
<1> QED BY <1>1 DEF TypeOK, ProcOK

\* Type correctness of the initial states.
LEMMA InitType == Init => TypeOK
<1> SUFFICES ASSUME Init PROVE TypeOK
  OBVIOUS
<1>1. intended \in [Conns -> Field] /\ file \in Text
  BY DEF Init, Text
<1>2. keyring \in [Services -> [Users -> Stored]]
  BY DEF Init, Stored
<1>3. proc \in [Procs -> Process]
  BY IdleType DEF Init
<1>4. \A p \in Procs : proc[p].pc = "idle" /\ proc[p].text = <<>>
  BY IdleType DEF Init
<1> QED BY <1>1, <1>2, <1>3, <1>4, CredentialsAssumption DEF Init, TypeOK

\* The password a process comes to use is one it can have in hand.
LEMMA ResolvedType ==
  ASSUME TypeOK, NEW p \in Procs, NEW c \in Conns
  PROVE  Resolved(proc[p], c) \in InHand
<1>1. proc[p] \in Process /\ keyring \in [Services -> [Users -> Stored]]
  BY DEF TypeOK
<1>2. proc[p].known[c] \in InHand /\ proc[p].conf[c] \in Field
  BY <1>1 DEF Process
<1>3. Lookup(keyring, c) \in Stored
  BY <1>1, LookupType
<1> QED BY <1>2, <1>3 DEF Resolved, IsPlaintext, InHand, Field, Stored

\* A whole text is rewritten to a whole text.
LEMMA RewrittenType ==
  ASSUME NEW k \in Process
  PROVE  Rewritten(k) \in Text
  BY DEF Rewritten, Process, Text, Field

\* The steps of a process keep TypeOK.
LEMMA StepType ==
  ASSUME TypeOK, NEW p \in Procs,
         \/ \E k \in Kind : Start(p, k)
         \/ \E c \in Conns : Connect(p, c) \/ StorePassword(p, c) \/ CheckConnection(p, c)
         \/ SetPassword(p) \/ Verify(p) \/ ReadFile(p) \/ Truncate(p) \/ Write(p)
         \/ Exit(p)
  PROVE  TypeOK'
<1> DEFINE k == proc[p]
<1>0. /\ ProcOK(k) /\ file \in Text /\ keyring \in [Services -> [Users -> Stored]]
      /\ starts \in 0 .. MaxStarts /\ harm \in SUBSET {"overlap", "check", "crash"}
      /\ proc \in [Procs -> Process]
  BY DEF TypeOK, ProcOK
<1>1. k \in Process /\ k.conn \in Conns /\ k.known \in [Conns -> InHand]
        /\ k.conf \in [Conns -> Field] /\ k.migrated \in SUBSET Conns
  BY <1>0 DEF ProcOK, Process
<1>2. \A h \in {"overlap", "check", "crash"} : \A x : Noted(h, x) => harm' \in SUBSET {"overlap", "check", "crash"}
  BY <1>0 DEF Noted
<1>3. \A c \in Conns, v \in Stored :
        SetEntry(KeyringUsername(c), v) => keyring' \in [Services -> [Users -> Stored]]
  BY <1>0, UserType DEF SetEntry, Services
<1>field. intended' \in [Conns -> Field]
  <2>1. intended \in [Conns -> Field]
    BY DEF TypeOK
  <2>2. CASE Write(p)
    BY <1>1, <2>1, <2>2 DEF Write, Field
  <2>3. CASE intended' = intended
    BY <2>1, <2>3
  <2> QED BY <2>2, <2>3 DEF Start, Connect, StorePassword, CheckConnection, SetPassword, Verify,
                            ReadFile, Truncate, Exit
<1>4. ASSUME NEW j \in Kind, Start(p, j) PROVE TypeOK'
  <2> DEFINE n == [Idle EXCEPT !.kind = j, !.pc = "ready", !.conf = file]
  <2>1. file \in [Conns -> Field]
    BY <1>0, <1>4 DEF Start, Readable, Text
  <2>2. n \in Process /\ n.pc = "ready" /\ n.text = <<>>
    BY <2>1, IdleType DEF Process, Phase
  <2>3. starts' \in 0 .. MaxStarts
    <3>1. starts < MaxStarts /\ starts' = starts + 1
      BY <1>4 DEF Start
    <3> QED BY <1>0, <3>1, CredentialsAssumption
  <2> QED BY <1>0, <1>field, <1>4, <2>2, <2>3, ProcType DEF Start, ProcOK, Becomes
<1>5. ASSUME NEW c \in Conns, Connect(p, c) PROVE TypeOK'
  <2> DEFINE v == Resolved(k, c)
             u == [k EXCEPT !.known[c] = v]
             w == [u EXCEPT !.pc = "store", !.conn = c,
                            !.migrated = IF k.kind = "server" THEN @ \cup {c} ELSE @]
  <2>1. k.pc = "ready" /\ v \in InHand
    BY <1>5, ResolvedType DEF Connect
  <2>2. ProcOK(u)
    <3>1. u \in Process
      BY <1>1, <2>1 DEF Process
    <3> QED BY <1>0, <1>1, <2>1, <3>1 DEF ProcOK, Process
  <2>3. v = c => ProcOK(w)
    <3>1. w \in Process
      BY <1>1, <2>1 DEF Process, Phase
    <3>2. w.conn = c /\ w.known[c] = v /\ w.text = k.text /\ w.pc = "store"
      BY <1>1 DEF Process
    <3> QED BY <1>0, <2>1, <3>1, <3>2 DEF ProcOK
  <2>4. proc' = [proc EXCEPT ![p] = u] \/ (v = c /\ proc' = [proc EXCEPT ![p] = w])
    BY <1>5 DEF Connect, Becomes
  <2> QED BY <1>0, <1>field, <1>5, <2>2, <2>3, <2>4, ProcType DEF Connect
<1>6. ASSUME NEW c \in Conns, StorePassword(p, c) PROVE TypeOK'
  <2> DEFINE n == [k EXCEPT !.pc = "store", !.conn = c, !.known[c] = c]
  <2>1. n \in Process
    BY <1>1 DEF Process, Phase, InHand
  <2>2. n.conn = c /\ n.known[c] = c /\ n.text = k.text /\ n.pc = "store"
    BY <1>1 DEF Process
  <2>3. k.text = <<>>
    BY <1>0, <1>6 DEF StorePassword, ProcOK
  <2>4. proc' = [proc EXCEPT ![p] = n]
    BY <1>0, <1>6 DEF StorePassword, StoreTarget, Becomes
  <2>5. ProcOK(n)
    BY <2>1, <2>2, <2>3 DEF ProcOK
  <2> QED BY <1>0, <1>field, <1>6, <2>4, <2>5, ProcType DEF StorePassword
<1>7. ASSUME NEW c \in Conns, CheckConnection(p, c) PROVE TypeOK'
  <2>1. keyring' \in [Services -> [Users -> Stored]]
    BY <1>0, <1>3, <1>7 DEF CheckConnection, Stored
  <2>2. harm' \in SUBSET {"overlap", "check", "crash"}
    BY <1>0, <1>2, <1>7 DEF CheckConnection
  <2> QED BY <1>0, <1>field, <1>7, <2>1, <2>2, IdleType, ProcType DEF CheckConnection, ProcOK, Becomes
\* A process that goes on to a later step, and one that is done.
<1>8. ASSUME NEW x \in {"verify", "rewrite", "write"},
             IF x = "write" THEN k.pc = "truncate" ELSE k.pc \in {"store", "verify"}
      PROVE  ProcOK(At(k, x))
  <2> DEFINE n == At(k, x)
  <2>1. n \in Process /\ n.known = k.known /\ n.conn = k.conn /\ n.text = k.text /\ n.pc = x
    BY <1>1 DEF At, Process, Phase
  <2> QED BY <1>0, <1>8, <2>1 DEF ProcOK
<1>9. ProcOK(Done(k))
  <2> DEFINE n == [k EXCEPT !.pc = "ready", !.text = <<>>]
  <2>1. n \in Process /\ n.pc = "ready" /\ n.text = <<>>
    BY <1>1 DEF Process, Phase, Text
  <2>2. ProcOK(n) /\ ProcOK(Idle)
    BY <2>1, IdleType DEF ProcOK
  <2> QED BY <2>2 DEF Done
<1>10. CASE SetPassword(p)
  <2>1. k.pc = "store" /\ k.known[k.conn] = k.conn
    BY <1>0, <1>10 DEF SetPassword, ProcOK
  <2>2. keyring' \in [Services -> [Users -> Stored]]
    BY <1>0, <1>1, <1>3, <1>10, <2>1 DEF SetPassword, Stored
  <2>3. Becomes(p, At(k, "verify")) \/ Becomes(p, Done(k))
    BY <1>10 DEF SetPassword, AfterStoreError
  <2> QED BY <1>0, <1>field, <1>8, <1>9, <1>10, <2>1, <2>2, <2>3, ProcType DEF SetPassword, Becomes
<1>11. CASE Verify(p)
  <2>1. Becomes(p, At(k, "rewrite")) \/ Becomes(p, Done(k))
    BY <1>11 DEF Verify, AfterStoreError
  <2>2. k.pc = "verify"
    BY <1>11 DEF Verify
  <2> QED BY <1>0, <1>field, <1>8, <1>9, <1>11, <2>1, <2>2, ProcType DEF Verify, Becomes
<1>12. CASE ReadFile(p)
  <2> DEFINE n == [k EXCEPT !.pc = "truncate", !.text = file]
  <2>1. n \in Process /\ n.known = k.known /\ n.conn = k.conn /\ n.pc = "truncate"
    BY <1>0, <1>1 DEF Process, Phase
  <2>2. ProcOK(n)
    BY <1>0, <1>12, <2>1 DEF ReadFile, ProcOK
  <2>3. /\ proc' = [proc EXCEPT ![p] = n] \/ proc' = [proc EXCEPT ![p] = Done(k)]
        /\ harm' \in SUBSET {"overlap", "check", "crash"}
    BY <1>0, <1>2, <1>12 DEF ReadFile, Becomes
  <2> QED BY <1>0, <1>field, <1>9, <1>12, <2>2, <2>3, ProcType DEF ReadFile
<1>13. CASE Truncate(p)
  <2>1. \/ proc' = [proc EXCEPT ![p] = At(k, "write")] /\ file' = <<>>
        \/ proc' = [proc EXCEPT ![p] = Done(k)] /\ file' = file
    BY <1>13 DEF Truncate, Becomes
  <2>2. ProcOK(At(k, "write"))
    BY <1>8, <1>13 DEF Truncate
  <2> QED BY <1>0, <1>field, <1>9, <1>13, <2>1, <2>2, ProcType DEF Truncate, Text
<1>14. CASE Write(p)
  <2>1. file' \in Text
    BY <1>1, <1>14, RewrittenType DEF Write, Text
  <2> QED BY <1>0, <1>field, <1>9, <1>14, <2>1, ProcType DEF Write, Becomes
<1>15. CASE Exit(p)
  BY <1>0, <1>field, <1>2, <1>15, IdleType, ProcType DEF Exit, ProcOK, Becomes
<1> QED BY <1>4, <1>5, <1>6, <1>7, <1>10, <1>11, <1>12, <1>13, <1>14, <1>15

\* Type correctness of every behaviour.
THEOREM CredentialsTypeCorrect == Spec => []TypeOK
<1>1. TypeOK /\ [Next]_vars => TypeOK'
  <2> SUFFICES ASSUME TypeOK, [Next]_vars PROVE TypeOK'
    OBVIOUS
  <2>1. CASE UNCHANGED vars
    BY <2>1 DEF vars, TypeOK
  <2>2. CASE Next
    BY <2>2, StepType DEF Next
  <2> QED BY <2>1, <2>2
<1> QED BY InitType, <1>1, PTL DEF Spec

-----------------------------------------------------------------------------
(***************************************************************************)
(* What the sentinel means, if no two connections share a keychain user.   *)
(***************************************************************************)

\* keyring_username tells the connections apart.
DistinctUsers ==
  \A c, d \in Conns : KeyringUsername(c) = KeyringUsername(d) => c = d

\* With keychain K, a text t of the file g of the user has lost nothing.
Honest(g, K, t) ==
  \A c \in Conns :
    /\ t[c] \in {c, "keyring", "none"}
    /\ t[c] = "none" <=> g[c] = "none"
    /\ t[c] = "keyring" => Lookup(K, c) = c

\* The entries of a connection hold its password, or the value check-connection
\* has left, which only a connection with a password can have.
GoodEntries(g, K) ==
  \A c \in Conns :
    /\ K["gaussdb"][KeyringUsername(c)] \in {c, "none", "test"}
    /\ K["gaussdb-mcp"][KeyringUsername(c)] \in {c, "none"}
    /\ g[c] = "none" => K["gaussdb"][KeyringUsername(c)] # "test"

\* A process that may rewrite the file has stored the password, and what it
\* has read and has in hand is right.
GoodProc(g, K, k) ==
  /\ k.text # <<>> => Honest(g, K, k.text)
  /\ k.pc \in {"rewrite", "truncate", "write"} => K["gaussdb"][KeyringUsername(k.conn)] = k.conn
  /\ k.pc # "idle" => Honest(g, K, k.conf)
  /\ \A c \in Conns : k.known[c] \in {c, "none", "unresolved"}

Good ==
  /\ GoodEntries(intended, keyring)
  /\ file # <<>> => Honest(intended, keyring, file)
  /\ \A q \in Procs : GoodProc(intended, keyring, proc[q])

\* The inductive invariant.
CredInv == TypeOK /\ ("check" \notin harm => Good)

\* A password in the keychain of this version is what is looked up.
LEMMA LookupMain ==
  ASSUME NEW K, NEW c \in Conns, K["gaussdb"][KeyringUsername(c)] = c
  PROVE  Lookup(K, c) = c
  BY CredentialsAssumption DEF Lookup

\* The keychain K with another entry for connection d.
WithEntry(K, d, v) == [K EXCEPT !["gaussdb"][KeyringUsername(d)] = v]

\* Setting the entry of one connection leaves the lookups of the others alone.
LEMMA LookupOther ==
  ASSUME DistinctUsers, NEW K \in [Services -> [Users -> Stored]], NEW d \in Conns, NEW v
  PROVE  /\ WithEntry(K, d, v)["gaussdb"][KeyringUsername(d)] = v
         /\ \A c \in Conns : WithEntry(K, d, v)["gaussdb-mcp"][KeyringUsername(c)]
                               = K["gaussdb-mcp"][KeyringUsername(c)]
         /\ \A c \in Conns \ {d} :
              /\ WithEntry(K, d, v)["gaussdb"][KeyringUsername(c)] = K["gaussdb"][KeyringUsername(c)]
              /\ Lookup(WithEntry(K, d, v), c) = Lookup(K, c)
<1> DEFINE L == WithEntry(K, d, v)
<1>1. KeyringUsername(d) \in Users
  BY UserType
<1>2. L["gaussdb"] = [K["gaussdb"] EXCEPT ![KeyringUsername(d)] = v] /\ L["gaussdb-mcp"] = K["gaussdb-mcp"]
  BY DEF Services, WithEntry
<1>3. K["gaussdb"] \in [Users -> Stored]
  BY DEF Services
<1> HIDE DEF L
<1>4. L["gaussdb"][KeyringUsername(d)] = v
  BY <1>1, <1>2, <1>3
<1>5. \A c \in Conns \ {d} : L["gaussdb"][KeyringUsername(c)] = K["gaussdb"][KeyringUsername(c)]
  <2> TAKE c \in Conns \ {d}
  <2>1. KeyringUsername(c) # KeyringUsername(d) /\ KeyringUsername(c) \in Users
    BY UserType DEF DistinctUsers
  <2> QED BY <1>2, <1>3, <2>1
<1>6. \A c \in Conns \ {d} : Lookup(L, c) = Lookup(K, c)
  BY <1>2, <1>5 DEF Lookup
<1> QED BY <1>2, <1>4, <1>5, <1>6 DEF L

\* Storing a connection's own password, or any value where the text does not
\* rely on the entry, keeps a text honest.
LEMMA HonestKept ==
  ASSUME DistinctUsers, NEW K \in [Services -> [Users -> Stored]], NEW d \in Conns, NEW v,
         NEW g, NEW t, Honest(g, K, t), v = d \/ t[d] # "keyring"
  PROVE  Honest(g, WithEntry(K, d, v), t)
<1>1. \A c \in Conns \ {d} : Lookup(WithEntry(K, d, v), c) = Lookup(K, c)
  BY LookupOther
<1>2. v = d => Lookup(WithEntry(K, d, v), d) = d
  BY LookupOther, LookupMain
<1> QED BY <1>1, <1>2 DEF Honest

\* A step of one process.
LEMMA GoodStep ==
  ASSUME Good, NEW p \in Procs, NEW k, proc \in [Procs -> Process],
         proc' = [proc EXCEPT ![p] = k],
         \A c \in Conns : intended'[c] = "none" <=> intended[c] = "none",
         GoodEntries(intended, keyring'), file' # <<>> => Honest(intended, keyring', file'),
         \A q \in Procs \ {p} : GoodProc(intended, keyring', proc[q]),
         GoodProc(intended, keyring', k)
  PROVE  Good'
<1>1. \A q \in Procs : GoodProc(intended, keyring', proc'[q])
  OBVIOUS
<1>2. \A t : Honest(intended, keyring', t) => Honest(intended', keyring', t)
  BY DEF Honest
<1>3. \A q \in Procs : GoodProc(intended', keyring', proc'[q])
  BY <1>1, <1>2 DEF GoodProc
<1>4. GoodEntries(intended', keyring')
  BY DEF GoodEntries
<1> QED BY <1>2, <1>3, <1>4 DEF Good

\* The processes that run keep a password of their own.
LEMMA ResolvedGood ==
  ASSUME TypeOK, Good, NEW p \in Procs, NEW c \in Conns, proc[p].pc = "ready"
  PROVE  Resolved(proc[p], c) \in {c, "none", "unresolved"}
<1>1. /\ proc[p].conf[c] \in {c, "keyring", "none"}
      /\ proc[p].conf[c] = "none" <=> intended[c] = "none"
      /\ proc[p].conf[c] = "keyring" => Lookup(keyring, c) = c
      /\ proc[p].known[c] \in {c, "none", "unresolved"}
  BY DEF Good, GoodProc, Honest
<1>2. intended[c] = "none" => Lookup(keyring, c) \in {c, "none"}
  BY DEF Good, GoodEntries, Lookup
<1> QED BY <1>1, <1>2 DEF Resolved, IsPlaintext

\* A migration writes an honest text.
LEMMA RewrittenGood ==
  ASSUME NEW k \in Process, NEW g, NEW K, GoodProc(g, K, k), k.pc = "write", Rewritten(k) # <<>>
  PROVE  Honest(g, K, Rewritten(k))
<1>1. k.text # <<>> /\ k.text \in [Conns -> Field] /\ k.conn \in Conns
  BY DEF Rewritten, Process, Text
<1>2. Honest(g, K, k.text) /\ Lookup(K, k.conn) = k.conn
  BY <1>1, LookupMain DEF GoodProc
<1>3. CASE k.text[k.conn] = "none"
  BY <1>1, <1>2, <1>3 DEF Rewritten
<1>4. CASE k.text[k.conn] # "none"
  <2>1. Rewritten(k) = [k.text EXCEPT ![k.conn] = "keyring"]
    BY <1>1, <1>4 DEF Rewritten
  <2> QED BY <1>1, <1>2, <1>4, <2>1 DEF Honest
<1> QED BY <1>3, <1>4

\* A process that does not run is good.
LEMMA IdleGood == \A g, K : GoodProc(g, K, Idle)
  BY IdleType DEF GoodProc, Idle

\* The steps of a process keep Good, but for a check-connection under an entry
\* in use.
LEMMA StepGood ==
  ASSUME DistinctUsers, TypeOK, Good, NEW p \in Procs, "check" \notin harm',
         \/ \E k \in Kind : Start(p, k)
         \/ \E c \in Conns : Connect(p, c) \/ StorePassword(p, c) \/ CheckConnection(p, c)
         \/ SetPassword(p) \/ Verify(p) \/ ReadFile(p) \/ Truncate(p) \/ Write(p)
         \/ Exit(p)
  PROVE  Good'
<1> DEFINE k == proc[p]
<1>0. /\ proc \in [Procs -> Process] /\ k \in Process
      /\ file \in Text /\ keyring \in [Services -> [Users -> Stored]]
  BY DEF TypeOK
<1>1. /\ GoodEntries(intended, keyring) /\ (file # <<>> => Honest(intended, keyring, file))
      /\ \A q \in Procs : GoodProc(intended, keyring, proc[q])
  BY DEF Good
<1>2. k.conn \in Conns /\ k.known \in [Conns -> InHand] /\ k.conf \in [Conns -> Field]
  BY <1>0 DEF Process
<1>3. GoodProc(intended, keyring, k)
  BY <1>1
\* A password does not appear where there was none.
<1>none. \A c \in Conns : intended'[c] = "none" <=> intended[c] = "none"
  <2>1. intended \in [Conns -> Field]
    BY DEF TypeOK
  <2>2. CASE Write(p)
    BY <1>2, <2>1, <2>2 DEF Write, IsPlaintext
  <2>3. CASE intended' = intended
    BY <2>3
  <2> QED BY <2>2, <2>3 DEF Start, Connect, StorePassword, CheckConnection, SetPassword, Verify,
                            ReadFile, Truncate, Exit
\* Steps that leave the keychain alone.
<1>4. ASSUME NEW n, Becomes(p, n), GoodProc(intended, keyring, n), keyring' = keyring,
             file' # <<>> => Honest(intended, keyring, file')
      PROVE  Good'
  BY <1>0, <1>1, <1>4, <1>none, GoodStep DEF Becomes
<1>5. GoodProc(intended, keyring, Done(k)) \/ k.pc = "idle"
  <2> DEFINE n == [k EXCEPT !.pc = "ready", !.text = <<>>]
  <2>1. n.pc = "ready" /\ n.text = <<>> /\ n.conf = k.conf /\ n.known = k.known
    BY <1>0 DEF Process
  <2>2. k.pc # "idle" => GoodProc(intended, keyring, n)
    BY <1>3, <2>1 DEF GoodProc
  <2> QED BY <2>2, IdleGood DEF Done
<1>6. ASSUME NEW j \in Kind, Start(p, j) PROVE Good'
  <2> DEFINE n == [Idle EXCEPT !.kind = j, !.pc = "ready", !.conf = file]
  <2>1. n.pc = "ready" /\ n.text = <<>> /\ n.conf = file /\ n.known = Idle.known
    BY DEF Idle
  <2>2. Honest(intended, keyring, file)
    BY <1>1, <1>6 DEF Start, Readable
  <2>3. GoodProc(intended, keyring, n)
    BY <2>1, <2>2, IdleGood DEF GoodProc
  <2> QED BY <1>1, <1>4, <1>6, <2>3 DEF Start
<1>7. ASSUME NEW c \in Conns, Connect(p, c) PROVE Good'
  <2> DEFINE v == Resolved(k, c)
             u == [k EXCEPT !.known[c] = v]
             w == [u EXCEPT !.pc = "store", !.conn = c,
                            !.migrated = IF k.kind = "server" THEN @ \cup {c} ELSE @]
  <2>1. k.pc = "ready" /\ v \in {c, "none", "unresolved"}
    BY <1>7, ResolvedGood DEF Connect
  <2>2. u.known = [k.known EXCEPT ![c] = v] /\ u.conf = k.conf /\ u.text = k.text /\ u.pc = k.pc
    BY <1>0 DEF Process
  <2>3. w.known = u.known /\ w.conf = k.conf /\ w.text = k.text /\ w.pc = "store"
    BY <1>0 DEF Process
  <2>4. GoodProc(intended, keyring, u) /\ GoodProc(intended, keyring, w)
    <3> HIDE DEF u, v, w
    <3> QED BY <1>2, <1>3, <2>1, <2>2, <2>3 DEF GoodProc
  <2>5. Becomes(p, u) \/ Becomes(p, w)
    BY <1>7 DEF Connect
  <2> HIDE DEF u, w
  <2> QED BY <1>1, <1>4, <1>7, <2>4, <2>5 DEF Connect
<1>8. ASSUME NEW c \in Conns, StorePassword(p, c) PROVE Good'
  <2> DEFINE n == [k EXCEPT !.pc = "store", !.conn = c, !.known[c] = c]
  <2>1. n.known = [k.known EXCEPT ![c] = c] /\ n.conf = k.conf /\ n.text = k.text /\ n.pc = "store"
    BY <1>0 DEF Process
  <2>2. Becomes(p, n) /\ k.pc = "ready"
    BY <1>8 DEF StorePassword, StoreTarget
  <2> HIDE DEF n
  <2>3. GoodProc(intended, keyring, n)
    BY <1>2, <1>3, <2>1, <2>2 DEF GoodProc
  <2> QED BY <1>1, <1>4, <1>8, <2>2, <2>3 DEF StorePassword
<1>9. ASSUME NEW c \in Conns, CheckConnection(p, c) PROVE Good'
  <2>1. Becomes(p, Idle) /\ intended' = intended /\ file' = file /\ k.pc = "ready"
    BY <1>9 DEF CheckConnection
  <2>2. CASE keyring' = keyring
    BY <1>1, <1>4, <2>1, <2>2, IdleGood
  <2>3. CASE /\ IsPlaintext(k.conf[c]) /\ ~InUse(KeyringUsername(c))
             /\ keyring' = WithEntry(keyring, c, "test")
    <3>1. file # <<>> => file[c] # "keyring"
      BY <2>3 DEF InUse, Readable
    <3>2. \A q \in Procs : /\ proc[q].pc \in {"rewrite", "truncate", "write"} => proc[q].conn # c
                           /\ proc[q].text # <<>> => proc[q].text[c] # "keyring"
                           /\ proc[q].pc # "idle" => proc[q].conf[c] # "keyring"
      BY <2>3 DEF InUse, IsPlaintext
    <3>3. file # <<>> => Honest(intended, keyring', file)
      BY <1>0, <1>1, <2>3, <3>1, HonestKept
    <3>4. ASSUME NEW q \in Procs PROVE GoodProc(intended, keyring', proc[q])
      <4>1. GoodProc(intended, keyring, proc[q]) /\ proc[q].conn \in Conns
        BY <1>0, <1>1 DEF Process
      <4>2. proc[q].text # <<>> => Honest(intended, keyring', proc[q].text)
        BY <1>0, <2>3, <3>2, <4>1, HonestKept DEF GoodProc
      <4>3. proc[q].pc # "idle" => Honest(intended, keyring', proc[q].conf)
        BY <1>0, <2>3, <3>2, <4>1, HonestKept DEF GoodProc
      <4>4. proc[q].pc \in {"rewrite", "truncate", "write"}
              => keyring'["gaussdb"][KeyringUsername(proc[q].conn)] = proc[q].conn
        BY <1>0, <2>3, <3>2, <4>1, LookupOther DEF GoodProc
      <4> QED BY <4>1, <4>2, <4>3, <4>4 DEF GoodProc
    <3>5. GoodEntries(intended, keyring')
      <4>1. intended[c] # "none"
        BY <1>3, <2>1, <2>3 DEF GoodProc, Honest, IsPlaintext
      <4> QED BY <1>0, <1>1, <2>3, <4>1, LookupOther DEF GoodEntries
    <3> QED BY <1>0, <1>none, <2>1, <3>3, <3>4, <3>5, GoodStep, IdleGood DEF Becomes
  <2>4. \/ UNCHANGED keyring
        \/ /\ IsPlaintext(k.conf[c]) /\ keyring' = WithEntry(keyring, c, "test")
           /\ harm' = IF InUse(KeyringUsername(c)) THEN harm \cup {"check"} ELSE harm
    BY <1>9 DEF CheckConnection, SetEntry, Noted, WithEntry
  <2> QED BY <2>2, <2>3, <2>4
<1>10. CASE SetPassword(p)
  <2>1. k.pc = "store" /\ k.known[k.conn] = k.conn /\ intended' = intended /\ file' = file
    BY <1>10 DEF SetPassword, TypeOK
  <2>2. CASE Becomes(p, Done(k)) /\ keyring' = keyring
    BY <1>1, <1>4, <1>5, <2>1, <2>2
  <2>3. CASE Becomes(p, At(k, "verify")) /\ keyring' = WithEntry(keyring, k.conn, k.conn)
    <3>1. file # <<>> => Honest(intended, keyring', file)
      BY <1>0, <1>1, <1>2, <2>3, HonestKept
    <3>2. ASSUME NEW q \in Procs PROVE GoodProc(intended, keyring', proc[q])
      <4>1. GoodProc(intended, keyring, proc[q]) /\ proc[q].conn \in Conns
        BY <1>0, <1>1 DEF Process
      <4>2. proc[q].text # <<>> => Honest(intended, keyring', proc[q].text)
        BY <1>0, <1>2, <2>3, <4>1, HonestKept DEF GoodProc
      <4>3. proc[q].pc # "idle" => Honest(intended, keyring', proc[q].conf)
        BY <1>0, <1>2, <2>3, <4>1, HonestKept DEF GoodProc
      <4>4. proc[q].pc \in {"rewrite", "truncate", "write"}
              => keyring'["gaussdb"][KeyringUsername(proc[q].conn)] = proc[q].conn
        BY <1>0, <1>2, <2>3, <4>1, LookupOther DEF GoodProc
      <4> QED BY <4>1, <4>2, <4>3, <4>4 DEF GoodProc
    <3>3. GoodProc(intended, keyring', At(k, "verify"))
      <4> DEFINE n == At(k, "verify")
      <4>1. n.known = k.known /\ n.conf = k.conf /\ n.text = k.text /\ n.pc = "verify"
        BY <1>0 DEF At, Process
      <4>2. GoodProc(intended, keyring', k)
        BY <3>2
      <4> HIDE DEF n
      <4>3. GoodProc(intended, keyring', n)
        BY <2>1, <4>1, <4>2 DEF GoodProc
      <4> QED BY <4>3 DEF n
    <3>4. GoodEntries(intended, keyring')
      BY <1>0, <1>1, <1>2, <2>3, LookupOther, CredentialsAssumption DEF GoodEntries
    <3> QED BY <1>0, <1>none, <2>1, <2>3, <3>1, <3>2, <3>3, <3>4, GoodStep DEF Becomes
  <2> QED BY <1>10, <2>1, <2>2, <2>3 DEF SetPassword, SetEntry, AfterStoreError, WithEntry
<1>11. CASE Verify(p)
  <2> DEFINE n == At(k, "rewrite")
  <2>1. k.pc = "verify" /\ k.known[k.conn] = k.conn
    BY <1>11 DEF Verify, TypeOK
  <2>2. n.known = k.known /\ n.conf = k.conf /\ n.text = k.text /\ n.pc = "rewrite" /\ n.conn = k.conn
    BY <1>0 DEF At, Process
  <2>3. \/ Becomes(p, Done(k))
        \/ Becomes(p, n) /\ keyring["gaussdb"][KeyringUsername(k.conn)] = k.conn
    BY <1>11, <2>1 DEF Verify, AfterStoreError
  <2> HIDE DEF n
  <2>4. keyring["gaussdb"][KeyringUsername(k.conn)] = k.conn => GoodProc(intended, keyring, n)
    BY <1>3, <2>1, <2>2 DEF GoodProc
  <2> QED BY <1>1, <1>4, <1>5, <1>11, <2>1, <2>3, <2>4 DEF Verify
<1>12. CASE ReadFile(p)
  <2> DEFINE n == [k EXCEPT !.pc = "truncate", !.text = file]
  <2>1. n.known = k.known /\ n.conf = k.conf /\ n.text = file /\ n.pc = "truncate" /\ n.conn = k.conn
    BY <1>0 DEF Process
  <2>2. k.pc = "rewrite" /\ (Becomes(p, n) \/ Becomes(p, Done(k)))
    BY <1>12 DEF ReadFile
  <2> HIDE DEF n
  <2>3. GoodProc(intended, keyring, n)
    BY <1>1, <1>3, <2>1, <2>2 DEF GoodProc
  <2> QED BY <1>1, <1>4, <1>5, <1>12, <2>2, <2>3 DEF ReadFile
<1>13. CASE Truncate(p)
  <2> DEFINE n == At(k, "write")
  <2>1. n.known = k.known /\ n.conf = k.conf /\ n.text = k.text /\ n.pc = "write" /\ n.conn = k.conn
    BY <1>0 DEF At, Process
  <2>2. k.pc = "truncate" /\ ((Becomes(p, n) /\ file' = <<>>) \/ (Becomes(p, Done(k)) /\ file' = file))
    BY <1>13 DEF Truncate
  <2> HIDE DEF n
  <2>3. GoodProc(intended, keyring, n)
    BY <1>3, <2>1, <2>2 DEF GoodProc
  <2> QED BY <1>1, <1>4, <1>5, <1>13, <2>2, <2>3 DEF Truncate
<1>14. CASE Write(p)
  <2>1. k.pc = "write" /\ file' \in {Rewritten(k), <<>>} /\ Becomes(p, Done(k))
    BY <1>14 DEF Write
  <2>2. file' # <<>> => Honest(intended, keyring, file')
    BY <1>0, <1>3, <2>1, RewrittenGood
  <2> QED BY <1>4, <1>5, <1>14, <2>1, <2>2 DEF Write
<1>15. CASE Exit(p)
  BY <1>1, <1>4, <1>15, IdleGood DEF Exit
<1> QED BY <1>6, <1>7, <1>8, <1>9, <1>10, <1>11, <1>12, <1>13, <1>14, <1>15

\* The initial states satisfy the invariant: the keychain holds what the user
\* stored for the connections that say so.
LEMMA InitGood == ASSUME DistinctUsers, Init PROVE Good
<1>0. intended \in [Conns -> Field] /\ file = intended
  BY DEF Init
<1>1. \A s \in Services, c \in Conns : keyring[s][KeyringUsername(c)] \in {c, "none"}
  BY UserType DEF Init, DistinctUsers
<1>2. GoodEntries(intended, keyring)
  BY <1>1, CredentialsAssumption DEF GoodEntries, Services
<1>3. Honest(intended, keyring, intended)
  BY <1>0 DEF Init, Honest
<1>4. \A q \in Procs : GoodProc(intended, keyring, proc[q])
  BY IdleGood DEF Init
<1> QED BY <1>0, <1>2, <1>3, <1>4 DEF Good

\* The invariant is inductive.
LEMMA CredInvInductive == ASSUME DistinctUsers PROVE CredInv /\ [Next]_vars => CredInv'
<1> SUFFICES ASSUME CredInv, [Next]_vars PROVE CredInv'
  OBVIOUS
<1>1. CASE UNCHANGED vars
  BY <1>1 DEF vars, CredInv, TypeOK, Good, GoodEntries, GoodProc, Honest, Lookup
<1>2. CASE Next
  <2>1. PICK p \in Procs :
          \/ \E k \in Kind : Start(p, k)
          \/ \E c \in Conns : Connect(p, c) \/ StorePassword(p, c) \/ CheckConnection(p, c)
          \/ SetPassword(p) \/ Verify(p) \/ ReadFile(p) \/ Truncate(p) \/ Write(p)
          \/ Exit(p)
    BY <1>2 DEF Next
  <2>2. TypeOK'
    BY <2>1, StepType DEF CredInv
  <2>3. harm \subseteq harm'
    BY <2>1 DEF Start, Connect, StorePassword, CheckConnection, SetPassword, Verify, ReadFile,
                Truncate, Write, Exit, Noted
  <2>4. "check" \notin harm' => Good'
    BY <2>1, <2>3, StepGood DEF CredInv
  <2> QED BY <2>2, <2>4 DEF CredInv
<1> QED BY <1>1, <1>2

\* Whatever processes fail, stop or overlap, a file that says "keyring" of a
\* connection names a password that the keychain holds: the migration stores and
\* reads back before it rewrites (main.rs 1047-1052), for any number of
\* connections with keychain users of their own, processes and starts.
THEOREM SentinelIsStored ==
  ASSUME DistinctUsers PROVE Spec => []SentinelMeansStored
<1>1. Init => CredInv
  BY InitType, InitGood DEF CredInv
<1>2. CredInv => SentinelMeansStored
  BY DEF CredInv, Good, Honest, SentinelMeansStored
<1> QED BY <1>1, <1>2, CredInvInductive, PTL DEF Spec

\* Under the same assumption no process ever uses, for one connection, the
\* password of another or the test value of check-connection.
THEOREM PasswordsNotMixed ==
  ASSUME DistinctUsers PROVE Spec => []OwnPassword
<1>1. Init => CredInv
  BY InitType, InitGood DEF CredInv
<1>2. CredInv => OwnPassword
  BY DEF CredInv, Good, GoodProc, OwnPassword
<1> QED BY <1>1, <1>2, CredInvInductive, PTL DEF Spec

-----------------------------------------------------------------------------
(***************************************************************************)
(* What a migration does to the file.                                      *)
(***************************************************************************)

Rewriting(k) == k.pc \in {"truncate", "write"}

\* One process at a time rewrites the file, from the text it is meant to have;
\* between truncation and write the file is empty.
OneWriter ==
  /\ \A p, q \in Procs : Rewriting(proc[p]) /\ Rewriting(proc[q]) => p = q
  /\ \A p \in Procs : Rewriting(proc[p]) => proc[p].text = intended
  /\ \A p \in Procs : proc[p].pc = "write" => file = <<>>
  /\ (\A p \in Procs : proc[p].pc # "write") => file = intended

\* The inductive invariant.
KeptInv == TypeOK /\ (harm \cap {"overlap", "crash"} = {} => OneWriter)

\* A file of the user is not the empty one.
LEMMA IntendedNotEmpty == TypeOK => intended # <<>>
<1> SUFFICES ASSUME TypeOK, intended = <<>> PROVE FALSE
  OBVIOUS
<1>1. DOMAIN intended = Conns
  BY DEF TypeOK
<1>2. DOMAIN <<>> = {}
  OBVIOUS
<1> QED BY <1>1, <1>2, CredentialsAssumption

\* A step of a process that neither begins nor ends a rewrite.
LEMMA KeptElsewhere ==
  ASSUME OneWriter, NEW p \in Procs, NEW k, proc \in [Procs -> Process], Becomes(p, k),
         ~Rewriting(proc[p]), ~Rewriting(k), UNCHANGED <<file, intended>>
  PROVE  OneWriter'
<1>1. \A q \in Procs : q = p \/ proc'[q] = proc[q]
  BY DEF Becomes
<1>2. proc'[p] = k
  BY DEF Becomes
<1>3. \A q \in Procs : Rewriting(proc'[q]) => proc'[q] = proc[q]
  BY <1>1, <1>2
<1>4. \A q \in Procs : proc'[q].pc = "write" <=> proc[q].pc = "write"
  BY <1>1, <1>2 DEF Rewriting
<1>5. \A q \in Procs : Rewriting(proc'[q]) <=> Rewriting(proc[q])
  BY <1>1, <1>2
<1> QED BY <1>3, <1>4, <1>5 DEF OneWriter, Rewriting

\* A process that is done, or idle, rewrites nothing.
LEMMA DoneRests ==
  ASSUME NEW k \in Process
  PROVE  ~Rewriting(Done(k)) /\ ~Rewriting(Idle)
<1>1. [k EXCEPT !.pc = "ready", !.text = <<>>].pc = "ready"
  BY DEF Process
<1> QED BY <1>1, IdleType DEF Done, Rewriting

\* The steps of a process keep OneWriter, but for a rewrite that overlaps
\* another and an exit in the middle of a write.
LEMMA StepKept ==
  ASSUME TypeOK, OneWriter, NEW p \in Procs, harm' \cap {"overlap", "crash"} = {},
         \/ \E k \in Kind : Start(p, k)
         \/ \E c \in Conns : Connect(p, c) \/ StorePassword(p, c) \/ CheckConnection(p, c)
         \/ SetPassword(p) \/ Verify(p) \/ ReadFile(p) \/ Truncate(p) \/ Write(p)
         \/ Exit(p)
  PROVE  OneWriter'
<1> DEFINE k == proc[p]
<1>0. proc \in [Procs -> Process] /\ k \in Process /\ intended \in [Conns -> Field] /\ k.conn \in Conns
  BY DEF TypeOK, Process
<1>1. ASSUME NEW n, Becomes(p, n), ~Rewriting(k), ~Rewriting(n), UNCHANGED <<file, intended>>
      PROVE  OneWriter'
  BY <1>0, <1>1, KeptElsewhere
<1>2. ~Rewriting(Done(k)) /\ ~Rewriting(Idle)
  BY <1>0, DoneRests
<1>3. ASSUME NEW x \in {"verify", "rewrite"} PROVE ~Rewriting(At(k, x))
  BY <1>0 DEF At, Rewriting, Process
<1>4. ASSUME NEW j \in Kind, Start(p, j) PROVE OneWriter'
  <2> DEFINE n == [Idle EXCEPT !.kind = j, !.pc = "ready", !.conf = file]
  <2>1. ~Rewriting(n)
    BY DEF Idle, Rewriting
  <2> QED BY <1>1, <1>4, <2>1 DEF Start, Rewriting
<1>5. ASSUME NEW c \in Conns, Connect(p, c) PROVE OneWriter'
  <2> DEFINE v == Resolved(k, c)
             u == [k EXCEPT !.known[c] = v]
             w == [u EXCEPT !.pc = "store", !.conn = c,
                            !.migrated = IF k.kind = "server" THEN @ \cup {c} ELSE @]
  <2>1. k.pc = "ready" /\ u.pc = k.pc /\ w.pc = "store"
    BY <1>0, <1>5 DEF Connect, Process
  <2>2. Becomes(p, u) \/ Becomes(p, w)
    BY <1>5 DEF Connect
  <2> HIDE DEF u, w
  <2> QED BY <1>1, <1>5, <2>1, <2>2 DEF Connect, Rewriting
<1>6. ASSUME NEW c \in Conns, StorePassword(p, c) PROVE OneWriter'
  <2> DEFINE n == [k EXCEPT !.pc = "store", !.conn = c, !.known[c] = c]
  <2>1. k.pc = "ready" /\ n.pc = "store" /\ Becomes(p, n)
    BY <1>0, <1>6 DEF StorePassword, StoreTarget, Process
  <2> HIDE DEF n
  <2> QED BY <1>1, <1>6, <2>1 DEF StorePassword, Rewriting
<1>7. ASSUME NEW c \in Conns, CheckConnection(p, c) PROVE OneWriter'
  BY <1>1, <1>2, <1>7 DEF CheckConnection, Rewriting
<1>8. CASE SetPassword(p)
  BY <1>1, <1>2, <1>3, <1>8 DEF SetPassword, AfterStoreError, Rewriting
<1>9. CASE Verify(p)
  BY <1>1, <1>2, <1>3, <1>9 DEF Verify, AfterStoreError, Rewriting
<1>10. CASE ReadFile(p)
  <2> DEFINE n == [k EXCEPT !.pc = "truncate", !.text = file]
  <2>1. k.pc = "rewrite" /\ n.pc = "truncate" /\ n.text = file
    BY <1>0, <1>10 DEF ReadFile, Process
  <2> HIDE DEF n
  <2>2. CASE Becomes(p, Done(k))
    BY <1>1, <1>2, <1>10, <2>1, <2>2 DEF ReadFile, Rewriting
  <2>3. CASE Becomes(p, n) /\ ~OtherRewrites(p)
    <3>1. \A q \in Procs \ {p} : ~Rewriting(proc[q]) /\ proc'[q] = proc[q]
      BY <1>0, <2>3 DEF OtherRewrites, Rewriting, Becomes
    <3>2. file = intended
      BY <2>1, <3>1 DEF OneWriter, Rewriting
    <3>3. proc'[p] = n /\ UNCHANGED <<file, intended>>
      BY <1>0, <1>10, <2>3 DEF Becomes, ReadFile
    <3> QED BY <2>1, <3>1, <3>2, <3>3 DEF OneWriter, Rewriting
  <2>4. Becomes(p, Done(k)) \/ (Becomes(p, n) /\ ~OtherRewrites(p))
    BY <1>10 DEF ReadFile, Noted, n
  <2> QED BY <2>2, <2>3, <2>4
\* A rewrite that goes on or ends is the only one.
<1>11. ASSUME Rewriting(k), NEW n, Becomes(p, n)
       PROVE  proc'[p] = n /\ \A q \in Procs \ {p} : ~Rewriting(proc[q]) /\ proc'[q] = proc[q]
  BY <1>0, <1>11 DEF OneWriter, Becomes
<1>12. CASE Truncate(p)
  <2> DEFINE n == At(k, "write")
  <2>1. n.pc = "write" /\ n.text = k.text /\ k.pc = "truncate" /\ k.text = intended /\ intended' = intended
    BY <1>0, <1>12 DEF At, Process, Truncate, OneWriter, Rewriting
  <2> HIDE DEF n
  <2>2. CASE Becomes(p, n) /\ file' = <<>>
    <3>1. proc'[p] = n /\ \A q \in Procs \ {p} : ~Rewriting(proc'[q])
      BY <1>11, <2>1, <2>2 DEF Rewriting
    <3> QED BY <2>1, <2>2, <3>1 DEF OneWriter, Rewriting
  <2>3. CASE Becomes(p, Done(k)) /\ file' = file
    <3>1. \A q \in Procs : ~Rewriting(proc'[q])
      BY <1>2, <1>11, <2>1, <2>3 DEF Rewriting
    <3>2. file = intended
      BY <1>11, <2>1, <2>3 DEF OneWriter, Rewriting
    <3> QED BY <2>1, <2>3, <3>1, <3>2 DEF OneWriter, Rewriting
  <2> QED BY <1>12, <2>2, <2>3 DEF Truncate, n
<1>13. CASE Write(p)
  <2>1. k.pc = "write" /\ k.text = intended /\ file = <<>> /\ Becomes(p, Done(k))
    BY <1>13 DEF Write, OneWriter, Rewriting
  <2>2. \A q \in Procs : ~Rewriting(proc'[q])
    BY <1>2, <1>11, <2>1 DEF Rewriting
  <2>3. file' = Rewritten(k)
    BY <1>13, <2>1 DEF Write
  <2>4. intended' = [intended EXCEPT ![k.conn] = IF IsPlaintext(@) THEN "keyring" ELSE @]
    BY <1>13 DEF Write
  <2>5. Rewritten(k) = intended'
    <3>1. k.text # <<>>
      BY <2>1, IntendedNotEmpty
    <3> QED BY <1>0, <2>1, <2>4, <3>1 DEF Rewritten, IsPlaintext
  <2> QED BY <2>2, <2>3, <2>5 DEF OneWriter, Rewriting
<1>14. CASE Exit(p)
  <2>1. k.pc # "write" /\ Becomes(p, Idle) /\ UNCHANGED <<file, intended>>
    BY <1>14 DEF Exit, Noted
  <2>2. CASE k.pc = "truncate"
    <3>1. \A q \in Procs : ~Rewriting(proc'[q])
      BY <1>2, <1>11, <2>1, <2>2 DEF Rewriting
    <3>2. file = intended
      BY <1>11, <2>1, <2>2 DEF OneWriter, Rewriting
    <3> QED BY <2>1, <3>1, <3>2 DEF OneWriter, Rewriting
  <2>3. CASE k.pc # "truncate"
    BY <1>1, <1>2, <2>1, <2>3 DEF Rewriting
  <2> QED BY <2>2, <2>3
<1> QED BY <1>4, <1>5, <1>6, <1>7, <1>8, <1>9, <1>10, <1>12, <1>13, <1>14

\* Without overlapping rewrites and without an exit in the middle of a write, the
\* file is what the user wrote with the passwords migrated since replaced, for
\* any number of connections, processes and starts.
THEOREM FileKept == Spec => []ConfigKept
<1>1. Init => KeptInv
  <2> SUFFICES ASSUME Init PROVE OneWriter
    BY InitType DEF KeptInv
  <2>1. \A p \in Procs : proc[p].pc = "idle"
    BY IdleType DEF Init
  <2> QED BY <2>1 DEF Init, OneWriter, Rewriting
<1>2. KeptInv /\ [Next]_vars => KeptInv'
  <2> SUFFICES ASSUME KeptInv, [Next]_vars PROVE KeptInv'
    OBVIOUS
  <2>1. CASE UNCHANGED vars
    BY <2>1 DEF vars, KeptInv, TypeOK, OneWriter, Rewriting
  <2>2. CASE Next
    <3>1. PICK p \in Procs :
            \/ \E k \in Kind : Start(p, k)
            \/ \E c \in Conns : Connect(p, c) \/ StorePassword(p, c) \/ CheckConnection(p, c)
            \/ SetPassword(p) \/ Verify(p) \/ ReadFile(p) \/ Truncate(p) \/ Write(p)
            \/ Exit(p)
      BY <2>2 DEF Next
    <3>2. TypeOK'
      BY <3>1, StepType DEF KeptInv
    <3>3. harm \subseteq harm'
      BY <3>1 DEF Start, Connect, StorePassword, CheckConnection, SetPassword, Verify, ReadFile,
                  Truncate, Write, Exit, Noted
    <3>4. harm' \cap {"overlap", "crash"} = {} => OneWriter'
      BY <3>1, <3>3, StepKept DEF KeptInv
    <3> QED BY <3>2, <3>4 DEF KeptInv
  <2> QED BY <2>1, <2>2
<1>3. KeptInv => ConfigKept
  BY IntendedNotEmpty DEF KeptInv, OneWriter, ConfigKept
<1> QED BY <1>1, <1>2, <1>3, PTL DEF Spec
=============================================================================
