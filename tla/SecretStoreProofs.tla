--------------------------- MODULE SecretStoreProofs ---------------------------
(***************************************************************************)
(* Theorems about SecretStore, for any number of commands, names, keys and *)
(* passwords and any length of a behaviour.  The inductive invariant says  *)
(* what a command inside _persist owns of the temporary file, how the map  *)
(* it holds relates to the store, and what the server may count on.        *)
(***************************************************************************)
EXTENDS SecretStore, TLAPS

\* Undisturbed, the temporary file belongs to the one command in _persist.
TmpInv ==
    ~raced =>
      /\ file \in Blob \cup {Missing}
      /\ \A p, q \in Commands : Persisting(p) /\ Persisting(q) => p = q
      /\ \A p \in Commands :
           /\ cmd[p].pc = "write" => cmd[p].fd = "tmp" /\ tmp = Empty
           /\ cmd[p].pc = "replace" => tmp = [pw |-> cmd[p].pw, keys |-> cmd[p].keys]

\* A command that runs was given a password; so was one that ended a change.
PasswordInv == \A p \in Commands : cmd[p].pc # "idle" => cmd[p].pw \in Passwords

\* While nothing was overwritten, a fresh map is the store's, but for the
\* change under way.
MeantInv ==
    ~raced /\ ~stale =>
      /\ file = meant
      /\ \A p \in Commands : cmd[p].fresh =>
           /\ cmd[p].pc = "open" => cmd[p].keys = Decrypted /\ Opens(cmd[p].pw)
           /\ Persisting(p) =>
                IF cmd[p].kind = "rotate" THEN cmd[p].keys = Decrypted
                ELSE /\ cmd[p].keys = With(Decrypted, cmd[p].name, cmd[p].key)
                     /\ Opens(cmd[p].pw)

\* What a migration has not stored yet, it still has to import.
MigrationInv ==
    \A p \in Commands :
      /\ \A n \in Names : cmd[p].lines[n] \in {NoKey, Legacy[n]}
      /\ cmd[p].pc # "idle" /\ cmd[p].kind = "migrate" =>
           \A n \in Held(dotenv) : cmd[p].keys[n] = dotenv[n] \/ cmd[p].lines[n] = dotenv[n]

\* The server's store, once kept, has every name that was there all along.
ServerInv ==
    ~raced =>
      /\ server.cached => standing \subseteq server.names
      /\ standing \subseteq Stored

Inv == TypeOK /\ TmpInv /\ PasswordInv /\ MeantInv /\ MigrationInv /\ ServerInv

-----------------------------------------------------------------------------
\* A command changes its map and opens the temporary file.
Changes(p) ==
    \/ \E n \in Names : \/ Delete(p, n) \/ ImportLine(p, n)
                       \/ \E k \in Keys : Set(p, n, k)
    \/ \E pw \in Passwords : WithPassword(p, pw)

\* What every such change has in common: at most one name of the map, or the
\* password, becomes another, and only an imported line is no longer due.
Changed(p, u) ==
    /\ OpenTmp(p, u)
    /\ u.kind = cmd[p].kind /\ u.fresh = cmd[p].fresh
    /\ u.kind = "rotate" => u.keys = cmd[p].keys
    /\ u.kind # "rotate" => u.pw = cmd[p].pw /\ u.keys = With(cmd[p].keys, u.name, u.key)
    /\ cmd[p].pw \in Passwords => u.pw \in Passwords
    /\ \A n \in Names : u.lines[n] \in {NoKey, cmd[p].lines[n]}
    /\ u.kind = "migrate" =>
         \A n \in Names :
           \/ u.keys[n] = cmd[p].keys[n] /\ u.lines[n] = cmd[p].lines[n]
           \/ u.keys[n] = cmd[p].lines[n] /\ cmd[p].lines[n] # NoKey

LEMMA UpdatedType ==
  ASSUME NEW r \in CommandState, NEW n \in Names, NEW k \in Keys \cup {NoKey},
         NEW keys \in KeyMap, NEW lines \in KeyMap
  PROVE  /\ [r EXCEPT !.keys = keys, !.name = n, !.key = k] \in CommandState
         /\ [[r EXCEPT !.keys = keys, !.name = n, !.key = k]
               EXCEPT !.lines = lines] \in CommandState
  BY DEF CommandState

LEMMA WithType ==
  ASSUME NEW m \in KeyMap, NEW n \in Names, NEW k \in Keys \cup {NoKey}
  PROVE  With(m, n, k) \in KeyMap
  BY DEF With, KeyMap

LEMMA ChangeShape ==
  ASSUME TypeOK, NEW p \in Commands, Changes(p)
  PROVE  \E u \in CommandState : Changed(p, u)
<1>r. /\ cmd[p] \in CommandState /\ NoKeys \in KeyMap
      /\ cmd[p].keys \in KeyMap /\ cmd[p].lines \in KeyMap
  BY DEF TypeOK, CommandState, NoKeys, KeyMap
<1>1. ASSUME NEW n \in Names, NEW k \in Keys \cup {NoKey},
             (Delete(p, n) /\ k = NoKey) \/ Set(p, n, k)
      PROVE  \E u \in CommandState : Changed(p, u)
  <2> DEFINE u == Updated(p, n, k)
  <2>1. With(cmd[p].keys, n, k) \in KeyMap
    BY <1>r, WithType
  <2>2. u \in CommandState
    BY <1>r, <2>1, UpdatedType DEF Updated
  <2>3. /\ u.kind = cmd[p].kind /\ u.fresh = cmd[p].fresh /\ u.pw = cmd[p].pw
        /\ u.lines = cmd[p].lines /\ u.name = n /\ u.key = k
        /\ u.keys = With(cmd[p].keys, n, k)
    BY <1>r DEF Updated, CommandState
  <2>4. OpenTmp(p, u) /\ cmd[p].kind \in {"rm", "set"}
    BY <1>1 DEF Delete, Set
  <2>5. Changed(p, u)
    BY <2>3, <2>4 DEF Changed
  <2>6. QED
    BY <2>2, <2>5
<1>2. ASSUME NEW pw \in Passwords, WithPassword(p, pw)
      PROVE  \E u \in CommandState : Changed(p, u)
  <2> DEFINE u == [cmd[p] EXCEPT !.pw = pw]
  <2>1. u \in CommandState
    BY <1>r DEF CommandState
  <2>2. /\ u.kind = cmd[p].kind /\ u.fresh = cmd[p].fresh /\ u.pw = pw
        /\ u.lines = cmd[p].lines /\ u.keys = cmd[p].keys
    BY <1>r DEF CommandState
  <2>3. Changed(p, u)
    BY <1>2, <2>2 DEF Changed, WithPassword
  <2>4. QED
    BY <2>1, <2>3
<1>3. ASSUME NEW n \in Names, ImportLine(p, n) PROVE \E u \in CommandState : Changed(p, u)
  <2> DEFINE k == cmd[p].lines[n]
             u == [Updated(p, n, k) EXCEPT !.lines = With(@, n, NoKey)]
  <2>1. /\ k \in Keys \cup {NoKey}
        /\ With(cmd[p].keys, n, k) \in KeyMap /\ With(cmd[p].lines, n, NoKey) \in KeyMap
    <3>1. k \in Keys \cup {NoKey}
      BY <1>r DEF KeyMap
    <3>2. QED
      BY <1>r, <3>1, WithType
  <2>2. /\ u.kind = cmd[p].kind /\ u.fresh = cmd[p].fresh /\ u.pw = cmd[p].pw
        /\ u.lines = With(cmd[p].lines, n, NoKey) /\ u.name = n /\ u.key = k
        /\ u.keys = With(cmd[p].keys, n, k)
    BY <1>r DEF Updated, CommandState
  <2>3. u = [[cmd[p] EXCEPT !.keys = With(cmd[p].keys, n, k), !.name = n, !.key = k]
              EXCEPT !.lines = With(cmd[p].lines, n, NoKey)]
    BY <1>r DEF Updated, CommandState
  <2>4. [[cmd[p] EXCEPT !.keys = With(cmd[p].keys, n, k), !.name = n, !.key = k]
          EXCEPT !.lines = With(cmd[p].lines, n, NoKey)] \in CommandState
    BY <1>r, <2>1, UpdatedType
  <2>5. OpenTmp(p, u) /\ cmd[p].kind = "migrate" /\ k # NoKey
    BY <1>3 DEF ImportLine, Held
  <2>6. \A m \in Names :
          /\ u.lines[m] = IF m = n THEN NoKey ELSE cmd[p].lines[m]
          /\ u.keys[m] = IF m = n THEN k ELSE cmd[p].keys[m]
    BY <1>r, <2>2 DEF With, KeyMap
  <2>7. Changed(p, u)
    BY <2>2, <2>5, <2>6 DEF Changed
  <2>8. QED
    BY <2>3, <2>4, <2>7
<1>4. ASSUME NEW n \in Names, Delete(p, n) PROVE \E u \in CommandState : Changed(p, u)
  BY <1>1, <1>4
<1>5. ASSUME NEW n \in Names, NEW k \in Keys, Set(p, n, k)
      PROVE  \E u \in CommandState : Changed(p, u)
  BY <1>1, <1>5
<1>6. QED
  BY <1>2, <1>3, <1>4, <1>5 DEF Changes

LEMMA IdleType == Idle \in CommandState
  BY DEF Idle, CommandState, NoKeys, KeyMap, Kinds

\* A command that has replaced the store ends, or goes on with the same map.
LEMMA ReplacedShape ==
  ASSUME TypeOK, NEW p \in Commands, cmd[p].pc = "replace"
  PROVE  \/ Replaced(p) = Idle
         \/ /\ Replaced(p) \in CommandState
            /\ Replaced(p).pc = "open" /\ Replaced(p).kind = cmd[p].kind
            /\ Replaced(p).pw = cmd[p].pw /\ Replaced(p).keys = cmd[p].keys
            /\ Replaced(p).lines = cmd[p].lines
<1>1. cmd[p] \in CommandState
  BY DEF TypeOK
<1>2. CASE cmd[p].kind \in {"set", "migrate"}
  <2>1. Replaced(p) \in CommandState
    BY <1>1, <1>2 DEF Replaced, CommandState
  <2>2. /\ Replaced(p).pc = "open" /\ Replaced(p).kind = cmd[p].kind
        /\ Replaced(p).pw = cmd[p].pw /\ Replaced(p).keys = cmd[p].keys
        /\ Replaced(p).lines = cmd[p].lines
    BY <1>1, <1>2 DEF Replaced, CommandState
  <2>3. QED
    BY <2>1, <2>2
<1>3. CASE cmd[p].kind \notin {"set", "migrate"}
  BY <1>3 DEF Replaced
<1>4. QED
  BY <1>2, <1>3

\* What opening the temporary file does to the commands.
LEMMA OpenedShape ==
  ASSUME TypeOK, NEW p \in Commands, NEW u \in CommandState, OpenTmp(p, u)
  PROVE  /\ cmd'[p] \in CommandState
         /\ cmd'[p].pc = "write" /\ cmd'[p].fd = "tmp" /\ cmd'[p].kind = u.kind
         /\ cmd'[p].pw = u.pw /\ cmd'[p].keys = u.keys /\ cmd'[p].lines = u.lines
         /\ cmd'[p].name = u.name /\ cmd'[p].key = u.key /\ cmd'[p].fresh = u.fresh
         /\ \A q \in Commands \ {p} : cmd'[q] = cmd[q]
<1>1. cmd'[p] = [u EXCEPT !.pc = "write", !.fd = "tmp"]
  BY DEF OpenTmp, TypeOK
<1>2. \A q \in Commands \ {p} : cmd'[q] = cmd[q]
  BY DEF OpenTmp, TypeOK
<1>3. cmd'[p] \in CommandState
  BY <1>1 DEF CommandState
<1>4. QED
  BY <1>1, <1>2, <1>3 DEF CommandState

\* What a replacement does to the commands it is not about.
LEMMA OthersShape ==
  ASSUME TypeOK, NEW p \in Commands, Replace(p), NEW q \in Commands, q # p
  PROVE  /\ cmd'[q] \in CommandState
         /\ cmd'[q].pc = cmd[q].pc /\ cmd'[q].kind = cmd[q].kind
         /\ cmd'[q].pw = cmd[q].pw /\ cmd'[q].keys = cmd[q].keys
         /\ cmd'[q].lines = cmd[q].lines
         /\ cmd[q].pc # "idle" => ~cmd'[q].fresh
<1>1. cmd[q] \in CommandState
  BY DEF TypeOK
<1>2. cmd'[q] = [cmd[q] EXCEPT !.fd = Follow(@), !.fresh = (cmd[q].pc = "idle")]
  BY DEF Replace
<1>3. Follow(cmd[q].fd) \in {"none", "tmp", "file", "lost"}
  BY <1>1 DEF Follow, CommandState
<1>4. cmd'[q] \in CommandState
  <2>1. (cmd[q].pc = "idle") \in BOOLEAN
    OBVIOUS
  <2>2. QED
    BY <1>1, <1>2, <1>3, <2>1 DEF CommandState
<1>5. QED
  BY <1>1, <1>2, <1>4 DEF CommandState

LEMMA InitInv == Init => Inv
<1> SUFFICES ASSUME Init PROVE Inv
  OBVIOUS
<1> USE SecretStoreAssumption DEF Init, Idle, Launched
<1>1. Idle \in CommandState
  BY IdleType
<1>2. TypeOK
  <2>1. server \in [pw: Passwords, cached: BOOLEAN, names: SUBSET Names]
    <3>1. PICK pw \in Passwords : server = [pw |-> pw, cached |-> FALSE, names |-> {}]
      OBVIOUS
    <3>2. QED
      BY <3>1
  <2>2. cmd \in [Commands -> CommandState]
    BY <1>1
  <2>3. standing \subseteq Names /\ started \in 0 .. MaxCommands
    BY DEF Stored, Held
  <2>4. QED
    BY <2>1, <2>2, <2>3 DEF TypeOK, Contents
<1>3. TmpInv /\ PasswordInv /\ MeantInv
  BY DEF TmpInv, PasswordInv, MeantInv, Persisting
<1>4. MigrationInv /\ ServerInv
  BY DEF MigrationInv, ServerInv, NoKeys, KeyMap
<1>5. QED
  BY <1>2, <1>3, <1>4 DEF Inv

LEMMA NextType == TypeOK /\ TmpInv /\ PasswordInv /\ [Next]_vars => TypeOK'
<1> SUFFICES ASSUME TypeOK, TmpInv, PasswordInv, [Next]_vars PROVE TypeOK'
  OBVIOUS
<1> USE SecretStoreAssumption DEF TypeOK, CommandState, Contents
<1>1. ASSUME NEW p \in Commands, NEW kind \in Kinds, NEW pw \in Passwords, Unlock(p, kind, pw) PROVE TypeOK'
  <2>1. Decrypted \in KeyMap /\ NoKeys \in KeyMap /\ dotenv \in KeyMap
    BY <1>1 DEF Unlock, Opens, Decrypted, NoKeys, KeyMap, Blob
  <2>2. cmd'[p] \in CommandState
    BY <1>1, <2>1, IdleType DEF Unlock
  <2>3. cmd' \in [Commands -> CommandState]
    BY <1>1, <2>2 DEF Unlock
  <2>4. started' \in 0 .. MaxCommands
    BY <1>1 DEF Unlock
  <2>5. QED
    BY <1>1, <2>3, <2>4 DEF Unlock
<1>2. ASSUME NEW p \in Commands, Changes(p) PROVE TypeOK'
  <2>1. PICK u \in CommandState : Changed(p, u)
    BY <1>2, ChangeShape
  <2>2. QED
    BY <2>1 DEF Changed, OpenTmp
<1>3. ASSUME NEW p \in Commands, WriteTmp(p) PROVE TypeOK'
  BY <1>3 DEF WriteTmp, Written, Blob, PasswordInv
<1>4. ASSUME NEW p \in Commands, Replace(p) PROVE TypeOK'
  <2>1. cmd' \in [Commands -> CommandState]
    <3>1. cmd[p].pc = "replace" /\ cmd'[p] = Replaced(p)
      BY <1>4 DEF Replace
    <3>2. cmd'[p] \in CommandState
      BY <3>1, IdleType, ReplacedShape
    <3>3. \A q \in Commands \ {p} : cmd'[q] \in CommandState
      BY <1>4, OthersShape
    <3>4. DOMAIN cmd' = Commands /\ cmd' = [q \in Commands |-> cmd'[q]]
      BY <1>4 DEF Replace
    <3>5. QED
      BY <3>2, <3>3, <3>4
  <2>2. meant' \in Blob \cup {Missing}
    <3>1. ~raced => cmd[p].pw \in Passwords /\ cmd[p].keys \in KeyMap
      BY <1>4 DEF Replace, PasswordInv
    <3>2. NoKeys \in KeyMap /\ (meant # Missing => meant.keys \in KeyMap /\ meant.pw \in Passwords)
      BY DEF NoKeys, KeyMap, Blob
    <3>3. \A m \in KeyMap : With(m, cmd[p].name, cmd[p].key) \in KeyMap
      BY DEF With, KeyMap
    <3>4. ~raced => Change(p, meant) \in Blob
      BY <3>1, <3>2, <3>3 DEF Change, Blob
    <3>5. QED
      BY <1>4, <3>4 DEF Replace
  <2>3. standing' \subseteq Names /\ stale' \in BOOLEAN
    BY <1>4 DEF Replace
  <2>4. QED
    BY <1>4, <2>1, <2>2, <2>3 DEF Replace
<1>5. ASSUME NEW p \in Commands, ReplaceFails(p) PROVE TypeOK'
  BY <1>5 DEF ReplaceFails, Idle, NoKeys, KeyMap, Kinds
<1>6. ASSUME NEW p \in Commands, RenameDotenv(p) PROVE TypeOK'
  BY <1>6 DEF RenameDotenv, Idle, NoKeys, KeyMap, Kinds
<1>7. ASSUME NEW p \in Commands, Abandon(p) PROVE TypeOK'
  BY <1>7 DEF Abandon, Idle, NoKeys, KeyMap, Kinds
<1>8. ASSUME NEW pw \in Passwords, Restart(pw) PROVE TypeOK'
  BY <1>8 DEF Restart, Launched, Stored, Held, Blob
<1>9. CASE ResolveSecret
  BY <1>9 DEF ResolveSecret, Stored, Held, Blob
<1>10. CASE UNCHANGED vars
  BY <1>10 DEF vars
<1>11. QED
  BY <1>1, <1>2, <1>3, <1>4, <1>5, <1>6, <1>7, <1>8, <1>9, <1>10 DEF Next, Changes

LEMMA NextPassword == TypeOK /\ PasswordInv /\ [Next]_vars => PasswordInv'
<1> SUFFICES ASSUME TypeOK, PasswordInv, [Next]_vars PROVE PasswordInv'
  OBVIOUS
<1> USE SecretStoreAssumption DEF TypeOK, CommandState, PasswordInv
<1>1. ASSUME NEW p \in Commands, NEW kind \in Kinds, NEW pw \in Passwords, Unlock(p, kind, pw) PROVE PasswordInv'
  BY <1>1 DEF Unlock, Idle
<1>2. ASSUME NEW p \in Commands, Changes(p) PROVE PasswordInv'
  <2>1. PICK u \in CommandState : Changed(p, u)
    BY <1>2, ChangeShape
  <2>2. QED
    BY <2>1 DEF Changed, OpenTmp
<1>3. ASSUME NEW p \in Commands, WriteTmp(p) PROVE PasswordInv'
  BY <1>3 DEF WriteTmp
<1>4. ASSUME NEW p \in Commands, Replace(p) PROVE PasswordInv'
  <2>1. \A q \in Commands \ {p} : cmd'[q].pc = cmd[q].pc /\ cmd'[q].pw = cmd[q].pw
    BY <1>4, OthersShape
  <2>2. cmd'[p] = Replaced(p) /\ cmd[p].pc = "replace"
    BY <1>4 DEF Replace
  <2>3. cmd'[p].pc # "idle" => cmd'[p].pw = cmd[p].pw
    BY <2>2, ReplacedShape DEF Idle
  <2>4. QED
    BY <2>1, <2>2, <2>3
<1>5. ASSUME NEW p \in Commands, ReplaceFails(p) PROVE PasswordInv'
  BY <1>5 DEF ReplaceFails, Idle
<1>6. ASSUME NEW p \in Commands, RenameDotenv(p) PROVE PasswordInv'
  BY <1>6 DEF RenameDotenv, Idle
<1>7. ASSUME NEW p \in Commands, Abandon(p) PROVE PasswordInv'
  BY <1>7 DEF Abandon, Idle
<1>8. ASSUME NEW pw \in Passwords, Restart(pw) PROVE PasswordInv'
  BY <1>8 DEF Restart
<1>9. CASE ResolveSecret
  BY <1>9 DEF ResolveSecret
<1>10. CASE UNCHANGED vars
  BY <1>10 DEF vars
<1>11. QED
  BY <1>1, <1>2, <1>3, <1>4, <1>5, <1>6, <1>7, <1>8, <1>9, <1>10 DEF Next, Changes

LEMMA NextTmp == TypeOK /\ PasswordInv /\ TmpInv /\ [Next]_vars => TmpInv'
<1> SUFFICES ASSUME TypeOK, PasswordInv, TmpInv, [Next]_vars PROVE TmpInv'
  OBVIOUS
<1> USE SecretStoreAssumption DEF TypeOK, CommandState, PasswordInv, TmpInv, Persisting
<1>1. ASSUME NEW p \in Commands, NEW kind \in Kinds, NEW pw \in Passwords, Unlock(p, kind, pw) PROVE TmpInv'
  BY <1>1 DEF Unlock, Idle
<1>2. ASSUME NEW p \in Commands, Changes(p) PROVE TmpInv'
  <2>1. PICK u \in CommandState : Changed(p, u)
    BY <1>2, ChangeShape
  <2>2. OpenTmp(p, u)
    BY <2>1 DEF Changed
  <2> SUFFICES ASSUME ~raced' PROVE TmpInv!2'
    OBVIOUS
  <2>3. ~raced /\ \A q \in Commands \ {p} : cmd[q].pc \notin {"write", "replace"}
    BY <2>2 DEF OpenTmp
  <2>4. /\ cmd'[p].pc = "write" /\ cmd'[p].fd = "tmp"
        /\ \A q \in Commands \ {p} : cmd'[q] = cmd[q]
    BY <2>2, OpenedShape
  <2>5. tmp' = Empty /\ file' = file
    BY <2>2 DEF OpenTmp
  <2>6. QED
    BY <2>3, <2>4, <2>5
<1>3. ASSUME NEW p \in Commands, WriteTmp(p) PROVE TmpInv'
  BY <1>3 DEF WriteTmp, Written, Blob
<1>4. ASSUME NEW p \in Commands, Replace(p) PROVE TmpInv'
  <2>1. /\ cmd[p].pc = "replace" /\ cmd'[p] = Replaced(p)
        /\ file' = tmp /\ tmp' = Missing /\ raced' = raced
        /\ stale' = (stale \/ ~cmd[p].fresh)
    BY <1>4 DEF Replace
  <2>2. \A q \in Commands \ {p} :
          /\ cmd'[q].pc = cmd[q].pc /\ cmd'[q].kind = cmd[q].kind
          /\ cmd'[q].pw = cmd[q].pw /\ cmd'[q].keys = cmd[q].keys
          /\ cmd'[q].lines = cmd[q].lines
          /\ cmd[q].pc # "idle" => ~cmd'[q].fresh
    BY <1>4, OthersShape
  <2>3. cmd'[p].pc \in {"idle", "open"}
    BY <2>1, ReplacedShape DEF Idle
  <2> SUFFICES ASSUME ~raced' PROVE TmpInv!2'
    OBVIOUS
  <2>4. \A q \in Commands \ {p} : cmd[q].pc \notin {"write", "replace"}
    BY <2>1
  <2>5. file' \in Blob
    <3>1. cmd[p].pw \in Passwords /\ cmd[p].keys \in KeyMap
      BY <2>1
    <3>2. QED
      BY <2>1, <3>1 DEF Blob
  <2>6. QED
    BY <2>2, <2>3, <2>4, <2>5
<1>5. ASSUME NEW p \in Commands, ReplaceFails(p) PROVE TmpInv'
  BY <1>5 DEF ReplaceFails, Idle
<1>6. ASSUME NEW p \in Commands, RenameDotenv(p) PROVE TmpInv'
  BY <1>6 DEF RenameDotenv, Idle
<1>7. ASSUME NEW p \in Commands, Abandon(p) PROVE TmpInv'
  BY <1>7 DEF Abandon, Idle
<1>8. ASSUME NEW pw \in Passwords, Restart(pw) PROVE TmpInv'
  BY <1>8 DEF Restart
<1>9. CASE ResolveSecret
  BY <1>9 DEF ResolveSecret
<1>10. CASE UNCHANGED vars
  BY <1>10 DEF vars
<1>11. QED
  BY <1>1, <1>2, <1>3, <1>4, <1>5, <1>6, <1>7, <1>8, <1>9, <1>10 DEF Next, Changes

LEMMA NextMeant == TypeOK /\ PasswordInv /\ TmpInv /\ MeantInv /\ [Next]_vars => MeantInv'
<1> SUFFICES ASSUME TypeOK, PasswordInv, TmpInv, MeantInv, [Next]_vars PROVE MeantInv'
  OBVIOUS
<1> USE SecretStoreAssumption DEF TypeOK, CommandState, MeantInv, Persisting, Opens, Decrypted
<1>1. ASSUME NEW p \in Commands, NEW kind \in Kinds, NEW pw \in Passwords, Unlock(p, kind, pw) PROVE MeantInv'
  BY <1>1 DEF Unlock, Idle
<1>2. ASSUME NEW p \in Commands, Changes(p) PROVE MeantInv'
  <2>1. PICK u \in CommandState : Changed(p, u)
    BY <1>2, ChangeShape
  <2>2. OpenTmp(p, u)
    BY <2>1 DEF Changed
  <2> SUFFICES ASSUME ~raced', ~stale' PROVE MeantInv!2'
    OBVIOUS
  <2>3. ~raced /\ ~stale /\ cmd[p].pc = "open" /\ file' = file /\ meant' = meant
    BY <2>2 DEF OpenTmp
  <2>4. /\ cmd'[p].pc = "write" /\ cmd'[p].kind = u.kind /\ cmd'[p].fresh = u.fresh
        /\ cmd'[p].pw = u.pw /\ cmd'[p].keys = u.keys
        /\ cmd'[p].name = u.name /\ cmd'[p].key = u.key
        /\ \A q \in Commands \ {p} : cmd'[q] = cmd[q]
    BY <2>2, OpenedShape
  <2>5. QED
    BY <2>1, <2>3, <2>4 DEF Changed
<1>3. ASSUME NEW p \in Commands, WriteTmp(p) PROVE MeantInv'
  BY <1>3 DEF WriteTmp, TmpInv
<1>4. ASSUME NEW p \in Commands, Replace(p) PROVE MeantInv'
  <2>1. /\ cmd[p].pc = "replace" /\ cmd'[p] = Replaced(p)
        /\ file' = tmp /\ tmp' = Missing /\ raced' = raced
        /\ stale' = (stale \/ ~cmd[p].fresh)
    BY <1>4 DEF Replace
  <2>2. \A q \in Commands \ {p} :
          /\ cmd'[q].pc = cmd[q].pc /\ cmd'[q].kind = cmd[q].kind
          /\ cmd'[q].pw = cmd[q].pw /\ cmd'[q].keys = cmd[q].keys
          /\ cmd'[q].lines = cmd[q].lines
          /\ cmd[q].pc # "idle" => ~cmd'[q].fresh
    BY <1>4, OthersShape
  <2>3. cmd'[p].pc \in {"idle", "open"}
    BY <2>1, ReplacedShape DEF Idle
  <2> SUFFICES ASSUME ~raced', ~stale' PROVE MeantInv!2'
    OBVIOUS
  <2>4. ~raced /\ ~stale /\ cmd[p].fresh /\ file = meant
    BY <2>1
  <2>5. file' = [pw |-> cmd[p].pw, keys |-> cmd[p].keys] /\ file' \in Blob
    BY <2>1, <2>4 DEF TmpInv, Blob, PasswordInv
  <2>6. meant' = Change(p, meant)
    BY <1>4, <2>4 DEF Replace
  <2>7. Change(p, meant) = [pw |-> cmd[p].pw, keys |-> cmd[p].keys]
    <3>1. file \in Blob \cup {Missing}
      BY <2>4 DEF TmpInv
    <3>2. CASE cmd[p].kind = "rotate"
      BY <2>1, <2>4, <3>1, <3>2 DEF Change
    <3>3. CASE cmd[p].kind # "rotate"
      BY <2>1, <2>4, <3>1, <3>3 DEF Change
    <3>4. QED
      BY <3>2, <3>3
  <2>8. cmd'[p].pc = "open" => cmd'[p].keys = cmd[p].keys /\ cmd'[p].pw = cmd[p].pw
    BY <2>1, ReplacedShape DEF Idle
  <2>9. file' # Missing /\ file'.keys = cmd[p].keys /\ file'.pw = cmd[p].pw
    BY <2>5
  <2>10. \A q \in Commands \ {p} : cmd'[q].pc # "idle" => ~cmd'[q].fresh
    BY <2>2
  <2>11. QED
    BY <2>3, <2>5, <2>6, <2>7, <2>8, <2>9, <2>10
<1>5. ASSUME NEW p \in Commands, ReplaceFails(p) PROVE MeantInv'
  BY <1>5 DEF ReplaceFails, Idle
<1>6. ASSUME NEW p \in Commands, RenameDotenv(p) PROVE MeantInv'
  BY <1>6 DEF RenameDotenv, Idle
<1>7. ASSUME NEW p \in Commands, Abandon(p) PROVE MeantInv'
  BY <1>7 DEF Abandon, Idle
<1>8. ASSUME NEW pw \in Passwords, Restart(pw) PROVE MeantInv'
  BY <1>8 DEF Restart
<1>9. CASE ResolveSecret
  BY <1>9 DEF ResolveSecret
<1>10. CASE UNCHANGED vars
  BY <1>10 DEF vars
<1>11. QED
  BY <1>1, <1>2, <1>3, <1>4, <1>5, <1>6, <1>7, <1>8, <1>9, <1>10 DEF Next, Changes

LEMMA NextMigration == TypeOK /\ MigrationInv /\ [Next]_vars => MigrationInv'
<1> SUFFICES ASSUME TypeOK, MigrationInv, [Next]_vars PROVE MigrationInv'
  OBVIOUS
<1> USE SecretStoreAssumption DEF TypeOK, CommandState, KeyMap, MigrationInv, Held
<1>1. ASSUME NEW p \in Commands, NEW kind \in Kinds, NEW pw \in Passwords, Unlock(p, kind, pw) PROVE MigrationInv'
  BY <1>1 DEF Unlock, Idle, NoKeys
<1>2. ASSUME NEW p \in Commands, Changes(p) PROVE MigrationInv'
  <2>1. PICK u \in CommandState : Changed(p, u)
    BY <1>2, ChangeShape
  <2>2. OpenTmp(p, u)
    BY <2>1 DEF Changed
  <2>3. /\ cmd'[p].kind = u.kind /\ cmd'[p].keys = u.keys /\ cmd'[p].lines = u.lines
        /\ \A q \in Commands \ {p} : cmd'[q] = cmd[q]
    BY <2>2, OpenedShape
  <2>4. dotenv' = dotenv /\ cmd[p].pc = "open" /\ u.kind = cmd[p].kind
    BY <2>1, <2>2 DEF Changed, OpenTmp
  <2>5. \A n \in Names : u.lines[n] \in {NoKey, cmd[p].lines[n]}
    BY <2>1 DEF Changed
  <2>6. u.kind = "migrate" =>
          \A n \in Held(dotenv) : u.keys[n] = dotenv[n] \/ u.lines[n] = dotenv[n]
    <3>1. dotenv = Legacy \/ Held(dotenv) = {}
      BY DEF NoKeys
    <3>2. SUFFICES ASSUME u.kind = "migrate", NEW n \in Held(dotenv), dotenv = Legacy
                   PROVE  u.keys[n] = dotenv[n] \/ u.lines[n] = dotenv[n]
      BY <3>1
    <3>3. \/ u.keys[n] = cmd[p].keys[n] /\ u.lines[n] = cmd[p].lines[n]
          \/ u.keys[n] = cmd[p].lines[n] /\ cmd[p].lines[n] # NoKey
      BY <2>1, <3>2 DEF Changed
    <3>4. QED
      BY <2>4, <3>2, <3>3
  <2> HIDE DEF TypeOK, CommandState, KeyMap
  <2>7. \A n \in Names : u.lines[n] \in {NoKey, Legacy[n]}
    BY <2>5
  <2>8. QED
    BY <2>3, <2>4, <2>6, <2>7
<1>3. ASSUME NEW p \in Commands, WriteTmp(p) PROVE MigrationInv'
  BY <1>3 DEF WriteTmp
<1>4. ASSUME NEW p \in Commands, Replace(p) PROVE MigrationInv'
  <2>1. /\ cmd[p].pc = "replace" /\ cmd'[p] = Replaced(p)
        /\ file' = tmp /\ tmp' = Missing /\ raced' = raced
        /\ stale' = (stale \/ ~cmd[p].fresh)
    BY <1>4 DEF Replace
  <2>2. \A q \in Commands \ {p} :
          /\ cmd'[q].pc = cmd[q].pc /\ cmd'[q].kind = cmd[q].kind
          /\ cmd'[q].pw = cmd[q].pw /\ cmd'[q].keys = cmd[q].keys
          /\ cmd'[q].lines = cmd[q].lines
          /\ cmd[q].pc # "idle" => ~cmd'[q].fresh
    BY <1>4, OthersShape
  <2>3. cmd'[p].pc \in {"idle", "open"}
    BY <2>1, ReplacedShape DEF Idle
  <2>4. cmd'[p] = Idle \/ (/\ cmd'[p].kind = cmd[p].kind /\ cmd'[p].keys = cmd[p].keys
                          /\ cmd'[p].lines = cmd[p].lines)
    BY <2>1, ReplacedShape
  <2>5. dotenv' = dotenv
    BY <1>4 DEF Replace
  <2>6. Idle.pc = "idle" /\ \A n \in Names : Idle.lines[n] = NoKey
    BY DEF Idle, NoKeys
  <2> HIDE DEF TypeOK, CommandState, KeyMap
  <2>7. \A q \in Commands \ {p} :
          /\ \A n \in Names : cmd'[q].lines[n] \in {NoKey, Legacy[n]}
          /\ cmd'[q].pc # "idle" /\ cmd'[q].kind = "migrate" =>
               \A n \in Held(dotenv') :
                 cmd'[q].keys[n] = dotenv'[n] \/ cmd'[q].lines[n] = dotenv'[n]
    BY <2>2, <2>5
  <2>8. QED
    BY <2>1, <2>4, <2>5, <2>6, <2>7
<1>5. ASSUME NEW p \in Commands, ReplaceFails(p) PROVE MigrationInv'
  BY <1>5 DEF ReplaceFails, Idle, NoKeys
<1>6. ASSUME NEW p \in Commands, RenameDotenv(p) PROVE MigrationInv'
  BY <1>6 DEF RenameDotenv, Idle, NoKeys
<1>7. ASSUME NEW p \in Commands, Abandon(p) PROVE MigrationInv'
  BY <1>7 DEF Abandon, Idle, NoKeys
<1>8. ASSUME NEW pw \in Passwords, Restart(pw) PROVE MigrationInv'
  BY <1>8 DEF Restart
<1>9. CASE ResolveSecret
  BY <1>9 DEF ResolveSecret
<1>10. CASE UNCHANGED vars
  BY <1>10 DEF vars
<1>11. QED
  BY <1>1, <1>2, <1>3, <1>4, <1>5, <1>6, <1>7, <1>8, <1>9, <1>10 DEF Next, Changes

LEMMA NextServer == TypeOK /\ TmpInv /\ ServerInv /\ [Next]_vars => ServerInv'
<1> SUFFICES ASSUME TypeOK, TmpInv, ServerInv, [Next]_vars PROVE ServerInv'
  OBVIOUS
<1> USE SecretStoreAssumption DEF TypeOK, ServerInv, Stored, Held
<1>1. ASSUME NEW p \in Commands, NEW kind \in Kinds, NEW pw \in Passwords, Unlock(p, kind, pw) PROVE ServerInv'
  BY <1>1 DEF Unlock
<1>2. ASSUME NEW p \in Commands, Changes(p) PROVE ServerInv'
  <2>1. PICK u \in CommandState : Changed(p, u)
    BY <1>2, ChangeShape
  <2>2. QED
    BY <2>1 DEF Changed, OpenTmp
<1>3. ASSUME NEW p \in Commands, WriteTmp(p) PROVE ServerInv'
  BY <1>3 DEF WriteTmp, TmpInv
<1>4. ASSUME NEW p \in Commands, Replace(p) PROVE ServerInv'
  BY <1>4 DEF Replace
<1>5. ASSUME NEW p \in Commands, ReplaceFails(p) PROVE ServerInv'
  BY <1>5 DEF ReplaceFails
<1>6. ASSUME NEW p \in Commands, RenameDotenv(p) PROVE ServerInv'
  BY <1>6 DEF RenameDotenv
<1>7. ASSUME NEW p \in Commands, Abandon(p) PROVE ServerInv'
  BY <1>7 DEF Abandon
<1>8. ASSUME NEW pw \in Passwords, Restart(pw) PROVE ServerInv'
  BY <1>8 DEF Restart, Launched
<1>9. CASE ResolveSecret
  BY <1>9 DEF ResolveSecret
<1>10. CASE UNCHANGED vars
  BY <1>10 DEF vars
<1>11. QED
  BY <1>1, <1>2, <1>3, <1>4, <1>5, <1>6, <1>7, <1>8, <1>9, <1>10 DEF Next, Changes

LEMMA Invariance == Spec => []Inv
<1>1. Inv /\ [Next]_vars => Inv'
  BY NextType, NextPassword, NextTmp, NextMeant, NextMigration, NextServer DEF Inv
<1>2. QED
  BY InitInv, <1>1, PTL DEF Spec

-----------------------------------------------------------------------------
(***************************************************************************)
(* Every reachable state is well typed.                                    *)
(***************************************************************************)
THEOREM TypeCorrect == Spec => []TypeOK
<1>1. Inv => TypeOK
  BY DEF Inv
<1>2. QED
  BY Invariance, <1>1, PTL

(***************************************************************************)
(* However many commands run and die, secrets.enc is unreadable only after *)
(* two of them were in _persist at once.                                   *)
(***************************************************************************)
THEOREM StoreStaysWhole == Spec => []StoreIsWhole
<1>1. Inv => StoreIsWhole
  BY DEF Inv, TmpInv, StoreIsWhole
<1>2. QED
  BY Invariance, <1>1, PTL

(***************************************************************************)
(* Unless a command wrote back a map another had replaced, the store is    *)
(* what the completed changes make, one after another.                     *)
(***************************************************************************)
THEOREM ChangesSurvive == Spec => []UpdatesSurvive
<1>1. Inv => UpdatesSurvive
  BY DEF Inv, MeantInv, UpdatesSurvive
<1>2. QED
  BY Invariance, <1>1, PTL

(***************************************************************************)
(* A key the store has had since the server started is never replaced by   *)
(* the plaintext variable, nor reported missing (_resolve_secret).         *)
(***************************************************************************)
THEOREM StoredKeysAreUsed == Spec => []StoredKeyIsUsed
<1>1. Inv => StoredKeyIsUsed
  BY SecretStoreAssumption DEF Inv, TypeOK, TmpInv, ServerInv, Stored, StoredKeyIsUsed, Resolved, Lookup
<1>2. QED
  BY Invariance, <1>1, PTL

(***************************************************************************)
(* migrate_legacy_env puts .env away only when the store holds its keys.   *)
(***************************************************************************)
THEOREM PutAwayWhenStored == Spec => PutAwayOnlyWhenStored
<1>1. Inv /\ [Next]_vars => [PutsAwayStored]_vars
  <2> SUFFICES ASSUME Inv, [Next]_vars, dotenv' # dotenv, ~raced, ~stale,
                      \A p \in Commands : cmd[p] # cmd'[p] => cmd[p].fresh,
                      NEW n \in Held(dotenv)
               PROVE  file \in Blob /\ file.keys[n] = dotenv[n]
    BY DEF PutsAwayStored, vars
  <2>1. PICK p \in Commands : RenameDotenv(p)
    BY DEF Next, vars, Unlock, Delete, ImportLine, Set, WithPassword, OpenTmp, WriteTmp,
           Replace, ReplaceFails, Abandon, Restart, ResolveSecret
  <2>2. cmd[p] # cmd'[p] /\ cmd[p].fresh
    BY <2>1 DEF RenameDotenv, Idle, Inv, TypeOK, CommandState
  <2>3. cmd[p].keys[n] = dotenv[n] /\ dotenv[n] # NoKey
    BY <2>1 DEF RenameDotenv, Held, Inv, MigrationInv
  <2>4. cmd[p].keys = Decrypted
    BY <2>1, <2>2 DEF RenameDotenv, Inv, MeantInv
  <2>5. n \in Names /\ file \in Blob \cup {Missing}
    BY DEF Held, Inv, TmpInv
  <2>6. QED
    BY <2>3, <2>4, <2>5 DEF Decrypted, NoKeys
<1>2. QED
  BY Invariance, <1>1, PTL DEF Spec, PutAwayOnlyWhenStored

===============================================================================
