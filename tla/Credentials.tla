---------------------------- MODULE Credentials -----------------------------
(***************************************************************************)
(* Passwords of the configured connections: the configuration file, the    *)
(* OS keychain and the processes of the gaussdb tool that share them.      *)
(*                                                                         *)
(* A password in the file is migrated on the first successful connection:  *)
(* stored in the keychain and read back, and the file is then read,        *)
(* rewritten in memory and written as a whole.  Nothing locks the file or  *)
(* the keychain, a process may be ended at any step (process::exit from    *)
(* the signal and parent-death tasks), and every step may fail.            *)
(*                                                                         *)
(* The password the database of connection c accepts is c itself.  In the  *)
(* file, <<>> stands for a text that no connection can be read from: the   *)
(* truncated file, or one that two writers have garbled.                   *)
(***************************************************************************)
EXTENDS Integers, FiniteSets

CONSTANTS
  Conns,       \* the configured connections
  UserOf,      \* [Conns -> ...]: their fields user, host and dbname, "none"
  HostOf,      \*   if not set
  DbnameOf,
  Procs,       \* processes that can run at the same time
  MaxStarts    \* bound on the processes ever started

ASSUME CredentialsAssumption ==
  /\ UserOf = [c \in Conns |-> UserOf[c]]
  /\ HostOf = [c \in Conns |-> HostOf[c]]
  /\ DbnameOf = [c \in Conns |-> DbnameOf[c]]
  /\ MaxStarts \in Nat
  /\ Conns # {}
  /\ Conns \cap {"none", "keyring", "test", "unresolved"} = {}

VARIABLES
  file,      \* the password field of each connection in the configuration file
  keyring,   \* the keychain: the password of each service and user
  proc,      \* each process
  starts,    \* processes started so far
  intended,  \* history: the file as the user wrote it, with the rewrites made since
  harm       \* history: what has happened that the code does not guard against

vars == <<file, keyring, proc, starts, intended, harm>>

-----------------------------------------------------------------------------
\* Mutant: the database is left out.
KeyringUsername_NoDb(c) ==
  IF UserOf[c] = "none" THEN <<"default">>
  ELSE IF HostOf[c] = "none" THEN <<UserOf[c]>>
  ELSE <<UserOf[c], HostOf[c]>>

\* The keychain user a connection's password is kept under.
KeyringUsername(c) ==
  IF UserOf[c] = "none" THEN <<"default">>
  ELSE IF HostOf[c] = "none" THEN <<UserOf[c]>>
  ELSE IF DbnameOf[c] = "none" THEN <<UserOf[c], HostOf[c]>>
  ELSE <<UserOf[c], HostOf[c], DbnameOf[c]>>

Users    == {KeyringUsername(c) : c \in Conns}
Services == {"gaussdb", "gaussdb-mcp"}

\* A password as the file, the keychain and a process may have it.
Field    == Conns \cup {"keyring", "none"}
Stored   == Conns \cup {"test", "none"}
InHand   == Conns \cup {"test", "none", "unresolved"}
Text     == [Conns -> Field] \cup {<<>>}

\* "server" is run_mcp_server, "session" one call of cli or one interactive
\* session, "check" check-connection, "store" store-password.
Kind  == {"server", "session", "check", "store"}
Phase == {"idle", "ready", "store", "verify", "rewrite", "truncate", "write"}

Process == [kind     : Kind,
            pc       : Phase,
            conn     : Conns,               \* the connection being stored or migrated
            conf     : [Conns -> Field],    \* the configuration as read at the start
            known    : [Conns -> InHand],   \* the password last used for each connection
            migrated : SUBSET Conns,        \* the server's callbacks that have run
            text     : Text]                \* the file as read for the rewrite

Idle == [kind     |-> "store",
         pc       |-> "idle",
         conn     |-> CHOOSE c \in Conns : TRUE,
         conf     |-> [c \in Conns |-> "none"],
         known    |-> [c \in Conns |-> "unresolved"],
         migrated |-> {},
         text     |-> <<>>]

\* The keychain entry of connection c in keychain k, the service of the old
\* binary second.
Lookup(k, c) ==
  LET u == KeyringUsername(c) IN
  IF k["gaussdb"][u] # "none" THEN k["gaussdb"][u] ELSE k["gaussdb-mcp"][u]

\* The user's file may be in any stage; where it says "keyring", the password
\* has been stored, by this version or by the old one.
Init ==
  /\ intended \in {f \in [Conns -> Field] : \A c \in Conns : f[c] \in {c, "keyring", "none"}}
  /\ file = intended
  /\ keyring \in [Services -> [Users -> Conns \cup {"none"}]]
  /\ \A c \in Conns : intended[c] = "keyring" => Lookup(keyring, c) = c
  /\ \A s \in Services, u \in Users : keyring[s][u] # "none" =>
       /\ KeyringUsername(keyring[s][u]) = u
       /\ intended[keyring[s][u]] = "keyring"
  /\ proc = [p \in Procs |-> Idle]
  /\ starts = 0
  /\ harm = {}

-----------------------------------------------------------------------------
(***************************************************************************)
(* Reading the configuration and connecting.                               *)
(***************************************************************************)

Becomes(p, k) == proc' = [proc EXCEPT ![p] = k]

At(k, pc) == [k EXCEPT !.pc = pc]

Readable == file # <<>>

\* A process starts and reads the configuration; it ends at once if no
\* connection can be read from the file.
Start(p, k) ==
  /\ proc[p].pc = "idle" /\ starts < MaxStarts
  /\ Readable
  /\ Becomes(p, [Idle EXCEPT !.kind = k, !.pc = "ready", !.conf = file])
  /\ starts' = starts + 1
  /\ UNCHANGED <<file, keyring, intended, harm>>

IsPlaintext(v) == v \notin {"keyring", "none"}

\* The password for connection c: the server keeps the URL it has resolved
\* once and does without a password where the file has none, the other
\* commands resolve at each connect and then need a keychain entry.
Resolved(k, c) ==
  IF k.kind = "server" /\ k.known[c] # "unresolved" THEN k.known[c]
  ELSE IF IsPlaintext(k.conf[c]) THEN k.conf[c]
  ELSE IF k.kind = "server" /\ k.conf[c] = "none" THEN "none"
  ELSE Lookup(keyring, c)

\* read_keyring_password has found no entry, which ends the attempt.
Unresolvable(k, c) == Resolved(k, c) = "none" /\ ~(k.kind = "server" /\ k.conf[c] = "none")

\* The connect is followed by a migration: a plaintext password, and in the
\* server a callback that has not run yet.
Migrates(k, c) == IsPlaintext(k.conf[c]) /\ c \notin k.migrated

\* A connect of a server, a cli call or an interactive session.
Connect(p, c) ==
  LET k == proc[p]
      v == Resolved(k, c)
      u == [k EXCEPT !.known[c] = v]
  IN
  /\ k.pc = "ready" /\ k.kind \in {"server", "session"}
  /\ ~Unresolvable(k, c)
  /\ \/ Becomes(p, u)                     \* it fails, or there is nothing to migrate
     \/ /\ v = c /\ Migrates(k, c)
        /\ Becomes(p, [u EXCEPT !.pc = "store", !.conn = c,
                       !.migrated = IF k.kind = "server" THEN @ \cup {c} ELSE @])
  /\ UNCHANGED <<file, keyring, starts, intended, harm>>

\* The connection a password is stored for.
StoreTarget(c) == c

\* store-password: the user gives the password of connection c.
StorePassword(p, c) ==
  /\ proc[p].pc = "ready" /\ proc[p].kind = "store"
  /\ Becomes(p, [proc[p] EXCEPT !.pc = "store", !.conn = StoreTarget(c), !.known[c] = c])
  /\ UNCHANGED <<file, keyring, starts, intended, harm>>

-----------------------------------------------------------------------------
(***************************************************************************)
(* store_keyring_password and rewrite_password_to_sentinel.                *)
(***************************************************************************)

\* The process after a store or a migration, done or given up: store-password
\* ends.
Done(k) == IF k.kind = "store" THEN Idle ELSE [k EXCEPT !.pc = "ready", !.text = <<>>]

SetEntry(u, v) == keyring' = [keyring EXCEPT !["gaussdb"][u] = v]

\* Mutant: the file is updated even if the password could not be stored.
AfterStoreError_Rewrite(k) == At(k, "rewrite")

\* The error is logged or printed, and the file is not touched.
AfterStoreError(k) == Done(k)

\* set_password.
SetPassword(p) ==
  LET k == proc[p] IN
  /\ k.pc = "store"
  /\ \/ SetEntry(KeyringUsername(k.conn), k.known[k.conn]) /\ Becomes(p, At(k, "verify"))
     \/ Becomes(p, AfterStoreError(k)) /\ UNCHANGED keyring
  /\ UNCHANGED <<file, starts, intended, harm>>

\* The password is read back; it may not be readable, or be another by now.
Verify(p) ==
  LET k == proc[p] IN
  /\ k.pc = "verify"
  /\ \/ /\ keyring["gaussdb"][KeyringUsername(k.conn)] = k.known[k.conn]
        /\ Becomes(p, IF k.kind = "store" THEN Done(k) ELSE At(k, "rewrite"))
     \/ Becomes(p, AfterStoreError(k))
  /\ UNCHANGED <<file, keyring, starts, intended, harm>>

\* Another process is between its read of the file and its write.
OtherRewrites(p) == \E q \in Procs \ {p} : proc[q].pc \in {"truncate", "write"}

Noted(h, happened) == harm' = IF happened THEN harm \cup {h} ELSE harm

\* read_to_string, which may fail.
ReadFile(p) ==
  LET k == proc[p] IN
  /\ k.pc = "rewrite"
  /\ \/ /\ Becomes(p, [k EXCEPT !.pc = "truncate", !.text = file])
        /\ Noted("overlap", OtherRewrites(p))
     \/ Becomes(p, Done(k)) /\ UNCHANGED harm
  /\ UNCHANGED <<file, keyring, starts, intended>>

\* Mutant: the password lines of all sections are replaced.
Rewritten_AnySection(k) ==
  IF k.text = <<>> THEN <<>> ELSE [c \in Conns |-> IF k.text[c] = "none" THEN "none" ELSE "keyring"]

\* rewrite_password_to_sentinel_content: the password line of the section, if
\* there is one.
Rewritten(k) ==
  IF k.text = <<>> THEN <<>>
  ELSE IF k.text[k.conn] = "none" THEN k.text
  ELSE [k.text EXCEPT ![k.conn] = "keyring"]

\* fs::write opens the file, which truncates it; it may not be writable.
Truncate(p) ==
  /\ proc[p].pc = "truncate"
  /\ \/ file' = <<>> /\ Becomes(p, At(proc[p], "write"))
     \/ Becomes(p, Done(proc[p])) /\ UNCHANGED file
  /\ UNCHANGED <<keyring, starts, intended, harm>>

\* ... and writes.  A file that another process has written since the
\* truncation is overwritten from its beginning, and may be garbled.
Write(p) ==
  LET new == Rewritten(proc[p]) IN
  /\ proc[p].pc = "write"
  /\ file' \in (IF file \in {<<>>, new} THEN {new} ELSE {new, <<>>})
  /\ Becomes(p, Done(proc[p]))
  /\ intended' = [intended EXCEPT ![proc[p].conn] = IF IsPlaintext(@) THEN "keyring" ELSE @]
  /\ UNCHANGED <<keyring, starts, harm>>

-----------------------------------------------------------------------------
\* Somebody relies on the entry of user u: the file, a text to be written, a
\* process that has stored the password and will say so in the file, or one
\* that has read a configuration without the password.
InUse(u) ==
  \E c \in Conns :
    /\ KeyringUsername(c) = u
    /\ \/ Readable /\ file[c] = "keyring"
       \/ \E q \in Procs :
            \/ proc[q].pc \in {"rewrite", "truncate", "write"} /\ proc[q].conn = c
            \/ proc[q].text # <<>> /\ proc[q].text[c] = "keyring"
            \/ proc[q].pc # "idle" /\ ~IsPlaintext(proc[q].conf[c])

\* check-connection: a connection that resolves is diagnosed; with a plaintext
\* password check_keyring_available tries the keychain with a test value, and
\* leaves it there.
CheckConnection(p, c) ==
  LET k == proc[p] IN
  /\ k.pc = "ready" /\ k.kind = "check"
  /\ ~Unresolvable(k, c)
  /\ Becomes(p, Idle)
  /\ \/ /\ IsPlaintext(k.conf[c])
        /\ SetEntry(KeyringUsername(c), "test")
        /\ Noted("check", InUse(KeyringUsername(c)))
     \/ UNCHANGED <<keyring, harm>>
  /\ UNCHANGED <<file, starts, intended>>

\* The process ends: by itself, or by process::exit in the middle of anything.
Exit(p) ==
  /\ proc[p].pc # "idle"
  /\ Becomes(p, Idle)
  /\ Noted("crash", proc[p].pc = "write")
  /\ UNCHANGED <<file, keyring, starts, intended>>

Next ==
  \E p \in Procs :
    \/ \E k \in Kind : Start(p, k)
    \/ \E c \in Conns : Connect(p, c) \/ StorePassword(p, c) \/ CheckConnection(p, c)
    \/ SetPassword(p) \/ Verify(p) \/ ReadFile(p) \/ Truncate(p) \/ Write(p)
    \/ Exit(p)

Spec == Init /\ [][Next]_vars

-----------------------------------------------------------------------------
(***************************************************************************)
(* Properties.                                                             *)
(***************************************************************************)

\* Every variable has its type: a password on its way to the keychain is the
\* connection's own, and only a rewrite holds a text.
TypeOK ==
  /\ file \in Text
  /\ keyring \in [Services -> [Users -> Stored]]
  /\ proc \in [Procs -> Process]
  /\ \A p \in Procs : proc[p].pc \in {"store", "verify", "rewrite", "truncate", "write"}
                         => proc[p].known[proc[p].conn] = proc[p].conn
  /\ \A p \in Procs : proc[p].pc \notin {"truncate", "write"} => proc[p].text = <<>>
  /\ starts \in 0 .. MaxStarts
  /\ intended \in [Conns -> Field]
  /\ harm \in SUBSET {"overlap", "check", "crash"}

\* A file never says "keyring" of a password that is not in the keychain:
\* wherever migrations of several processes fail, stop or overlap, the password
\* is stored before the file gives it up.  Only a check-connection that tries
\* the keychain under an entry in use undoes this.
SentinelMeansStored ==
  "check" \notin harm /\ file # <<>> =>
    \A c \in Conns : file[c] = "keyring" => Lookup(keyring, c) = c

\* No database is sent a password that is not the connection's own.
OwnPassword ==
  "check" \notin harm =>
    \A p \in Procs, c \in Conns : proc[p].known[c] \in {c, "none", "unresolved"}

\* A migration changes nothing but its own password: unless two rewrites
\* overlap or a process ends in the middle of its write, the file is, whenever
\* nobody is writing it, what the user wrote with the passwords migrated since
\* replaced, and no others; what one migration has done no other undoes.
ConfigKept ==
  harm \cap {"overlap", "crash"} = {} =>
    IF file = <<>> THEN \E p \in Procs : proc[p].pc = "write" ELSE file = intended
=============================================================================
