------------------------------ MODULE SecretStore ------------------------------
(***************************************************************************)
(* The encrypted credential store (secretstore.py) under the commands that *)
(* change it (cli/secret.py: set, rm, rotate-password, migrate; and the    *)
(* setup wizard of cli/init.py) and under one long-lived server process    *)
(* that resolves API keys from it (config._resolve_secret).                *)
(*                                                                         *)
(* Nothing locks secrets.enc.  A command reads it once, holds the          *)
(* decrypted map while a person types, and writes the whole map back       *)
(* through one temporary file whose name every command shares.  What two   *)
(* commands can do to each other is therefore part of the model: `raced'   *)
(* records that two of them were inside _persist at once, `stale' that one *)
(* wrote back a map another had replaced in the meantime.                  *)
(*                                                                         *)
(* Encryption is abstract: a blob names the password that opens it.        *)
(***************************************************************************)
EXTENDS Naturals

CONSTANTS
    Commands,      \* processes that may each run one command at a time
    Names,         \* target names, already lower case with dashes
    Keys,          \* API keys
    Passwords,     \* master passwords
    NoKey,         \* no API key under a name
    NoName, NoPassword, \* what a command that runs nothing holds
    Missing,       \* a file that does not exist
    Empty,         \* a file just truncated by open(..., "w")
    Torn,          \* bytes that are no JSON document
    Legacy,        \* what the plaintext .env holds at first
    Exported,      \* names whose ENDPOINT_<NAME>_APIKEY the server was given
    MaxCommands    \* bound: commands run in a behaviour

KeyMap   == [Names -> Keys \cup {NoKey}]
NoKeys   == [n \in Names |-> NoKey]
Blob     == [pw: Passwords, keys: KeyMap]

ASSUME SecretStoreAssumption ==
    /\ Legacy \in KeyMap /\ Exported \subseteq Names
    /\ NoKey \notin Keys
    /\ {Missing, Empty, Torn} \cap Blob = {}
    /\ Missing # Empty /\ Missing # Torn /\ Empty # Torn
    /\ MaxCommands \in Nat

VARIABLES
    file,      \* contents of secrets.enc
    tmp,       \* contents of secrets.enc.tmp
    dotenv,    \* the importable lines of .env; none once it is renamed
    cmd,       \* one record per command process
    server,    \* the server process: its password and its cached store
    started,   \* commands started so far
    raced,     \* history: two commands were between open and replace at once
    stale,     \* history: a map was written over a newer one
    meant,     \* history: the store the completed changes make, one by one;
               \* given up (Missing) at the first raced or stale replacement
    standing   \* history: names in the store ever since the server started

vars == <<file, tmp, dotenv, cmd, server, started,
          raced, stale, meant, standing>>

Contents == Blob \cup {Missing, Empty, Torn}
Held(keys) == {n \in Names : keys[n] # NoKey}

\* The wizard is a `set' that may go on to another target.
Kinds == {"set", "rm", "rotate", "migrate"}

\* `keys' is the map it will write and `name', `key' its latest change to it;
\* `lines' are the .env lines a migration still has to import; `fd' is where
\* the file it opened for writing is found now; `fresh' says whether no other
\* command has replaced secrets.enc since this one last read or replaced it.
Idle == [pc |-> "idle", kind |-> "set", pw |-> NoPassword,
         keys |-> NoKeys, name |-> NoName, key |-> NoKey,
         lines |-> NoKeys, fd |-> "none", fresh |-> TRUE]

\* Of the store the server keeps, only the names are told apart.
Launched(pw) == [pw |-> pw, cached |-> FALSE, names |-> {}]

Persisting(p) == cmd[p].pc \in {"write", "replace"}

(***************************************************************************)
(* SecretStore.unlock: no file is an empty store under any password, an    *)
(* unreadable file and a wrong password are errors.                        *)
(***************************************************************************)
Opens(pw)    == file = Missing \/ (file \in Blob /\ file.pw = pw)
Decrypted    == IF file = Missing THEN NoKeys ELSE file.keys
Locked(pw)   == file \in Blob /\ file.pw # pw
Stored       == IF file \in Blob THEN Held(file.keys) ELSE {}

Init ==
    /\ file \in Blob \cup {Missing} /\ tmp = Missing /\ dotenv = Legacy
    /\ cmd = [p \in Commands |-> Idle]
    /\ server \in {Launched(pw) : pw \in Passwords} /\ started = 0
    /\ raced = FALSE /\ stale = FALSE
    /\ meant = file /\ standing = Stored

(***************************************************************************)
(* A command unlocks the store; rejected passwords end it at once.         *)
(***************************************************************************)
Unlock(p, kind, pw) ==
    /\ cmd[p].pc = "idle" /\ started < MaxCommands
    /\ kind = "migrate" => Held(dotenv) # {}
    /\ Opens(pw)
    /\ cmd' = [cmd EXCEPT ![p] =
                 [Idle EXCEPT !.pc = "open", !.kind = kind, !.pw = pw,
                              !.keys = Decrypted,
                              !.lines = IF kind = "migrate" THEN dotenv ELSE NoKeys]]
    /\ started' = started + 1
    /\ UNCHANGED <<file, tmp, dotenv, server, raced, stale, meant, standing>>

With(keys, n, k) == [keys EXCEPT ![n] = k]

\* Mutant: the store itself is opened for writing.
OpenInPlace(p, updated) ==
    /\ cmd[p].pc = "open"
    /\ file' = Empty
    /\ cmd' = [cmd EXCEPT ![p] = [updated EXCEPT !.pc = "write", !.fd = "file"]]
    /\ raced' = (raced \/ \E q \in Commands \ {p} : Persisting(q))
    /\ UNCHANGED <<tmp, dotenv, server, started, stale, meant, standing>>

(***************************************************************************)
(* _persist begins: the new map is encrypted and secrets.enc.tmp is opened *)
(* for writing, which empties whatever bears that name.                    *)
(***************************************************************************)
OpenTmp(p, updated) ==
    /\ cmd[p].pc = "open"
    /\ tmp' = Empty
    /\ cmd' = [cmd EXCEPT ![p] = [updated EXCEPT !.pc = "write", !.fd = "tmp"]]
    /\ raced' = (raced \/ \E q \in Commands \ {p} : Persisting(q))
    /\ UNCHANGED <<file, dotenv, server, started, stale, meant, standing>>

Updated(p, n, k) ==
    [cmd[p] EXCEPT !.keys = With(@, n, k), !.name = n, !.key = k]

Set(p, n, k) ==
    /\ cmd[p].kind = "set"
    /\ OpenTmp(p, Updated(p, n, k))

Delete(p, n) ==
    /\ cmd[p].kind = "rm" /\ n \in Held(cmd[p].keys)
    /\ OpenTmp(p, Updated(p, n, NoKey))

\* Mutant: an empty new password is accepted.
WithAnyPassword(p, pw) ==
    /\ cmd[p].kind = "rotate"
    /\ OpenTmp(p, [cmd[p] EXCEPT !.pw = NoPassword])

WithPassword(p, pw) ==
    /\ cmd[p].kind = "rotate"
    /\ OpenTmp(p, [cmd[p] EXCEPT !.pw = pw])

ImportLine(p, n) ==
    /\ cmd[p].kind = "migrate" /\ n \in Held(cmd[p].lines)
    /\ OpenTmp(p, [Updated(p, n, cmd[p].lines[n]) EXCEPT !.lines = With(@, n, NoKey)])

(***************************************************************************)
(* write_text writes and closes.  A file another command has already       *)
(* written into is left with either text, or with the tail of the longer   *)
(* one; renamed in the meantime, it is secrets.enc itself.                 *)
(***************************************************************************)
Written(p, old) ==
    LET blob == [pw |-> cmd[p].pw, keys |-> cmd[p].keys]
    IN IF old = Empty THEN {blob} ELSE {blob, Torn}

WriteTmp(p) ==
    /\ cmd[p].pc = "write"
    /\ \/ cmd[p].fd = "tmp"  /\ tmp'  \in Written(p, tmp)  /\ UNCHANGED file
       \/ cmd[p].fd = "file" /\ file' \in Written(p, file) /\ UNCHANGED tmp
       \/ cmd[p].fd = "lost" /\ UNCHANGED <<file, tmp>>
    /\ cmd' = [cmd EXCEPT ![p].pc = "replace", ![p].fd = "none"]
    /\ UNCHANGED <<dotenv, server, started, raced, stale, meant, standing>>

(***************************************************************************)
(* tmp.replace(SECRETS_FILE): the name moves; a descriptor follows its     *)
(* file.  set and rm end here, the wizard and the migration may go on from *)
(* the map they just stored.                                               *)
(***************************************************************************)
Follow(fd) == CASE fd = "tmp" -> "file" [] fd = "file" -> "lost" [] OTHER -> fd

\* Mutant: the next change starts from the map before this one.
ReplacedForgetting(p) ==
    IF cmd[p].kind \in {"set", "migrate"}
    THEN [cmd[p] EXCEPT !.pc = "open", !.fresh = TRUE, !.name = NoName, !.key = NoKey,
                        !.keys = With(@, cmd[p].name, NoKey)]
    ELSE Idle

\* The wizard and the migration go on from the store their change returned.
Replaced(p) ==
    IF cmd[p].kind \in {"set", "migrate"}
    THEN [cmd[p] EXCEPT !.pc = "open", !.fresh = TRUE, !.name = NoName, !.key = NoKey]
    ELSE Idle

\* What one completed change makes of the store it should have found.
Change(p, m) ==
    LET keys == IF m = Missing THEN NoKeys ELSE m.keys
    IN IF cmd[p].kind = "rotate"
       THEN [pw |-> cmd[p].pw, keys |-> keys]
       ELSE [pw   |-> IF m = Missing THEN cmd[p].pw ELSE m.pw,
             keys |-> With(keys, cmd[p].name, cmd[p].key)]

Replace(p) ==
    /\ cmd[p].pc = "replace" /\ tmp # Missing
    /\ file' = tmp /\ tmp' = Missing
    /\ cmd' = [q \in Commands |->
                 IF q = p THEN Replaced(p)
                 ELSE [cmd[q] EXCEPT !.fd = Follow(@), !.fresh = (cmd[q].pc = "idle")]]
    /\ stale' = (stale \/ ~cmd[p].fresh)
    /\ meant' = IF raced \/ stale' THEN Missing ELSE Change(p, meant)
    /\ standing' = standing \cap Stored'
    /\ UNCHANGED <<dotenv, server, started, raced>>

\* The name it would move is gone: another command's replace took it.
ReplaceFails(p) ==
    /\ cmd[p].pc = "replace" /\ tmp = Missing
    /\ cmd' = [cmd EXCEPT ![p] = Idle]
    /\ UNCHANGED <<file, tmp, dotenv, server, started,
                   raced, stale, meant, standing>>

\* Mutant: .env is put away whatever lines are left.
RenameEarly(p) ==
    /\ cmd[p].pc = "open" /\ cmd[p].kind = "migrate"
    /\ dotenv' = NoKeys
    /\ cmd' = [cmd EXCEPT ![p] = Idle]
    /\ UNCHANGED <<file, tmp, server, started, raced, stale, meant, standing>>

\* Every line imported: .env is renamed .env.migrated.  (A second migration
\* finds it gone and fails there.)
RenameDotenv(p) ==
    /\ cmd[p].pc = "open" /\ cmd[p].kind = "migrate" /\ Held(cmd[p].lines) = {}
    /\ dotenv' = NoKeys
    /\ cmd' = [cmd EXCEPT ![p] = Idle]
    /\ UNCHANGED <<file, tmp, server, started, raced, stale, meant, standing>>

(***************************************************************************)
(* A command ends without writing (nothing under that name, passwords that *)
(* do not match, no further target) or its process dies, wherever it is.   *)
(***************************************************************************)
Abandon(p) ==
    /\ cmd[p].pc # "idle"
    /\ cmd' = [cmd EXCEPT ![p] = Idle]
    /\ UNCHANGED <<file, tmp, dotenv, server, started,
                   raced, stale, meant, standing>>

(***************************************************************************)
(* The server: started with a master password in its environment; it       *)
(* unlocks the store at the first lookup and keeps that store (open_store).*)
(***************************************************************************)
Restart(pw) ==
    /\ server' = Launched(pw)
    /\ standing' = Stored
    /\ UNCHANGED <<file, tmp, dotenv, cmd, started, raced, stale, meant>>

\* Mutant: MasterPasswordError, a SecretStoreError too, is swallowed with it.
LookupSwallowing(n) ==
    IF (IF server.cached THEN n \in server.names
        ELSE ~Locked(server.pw) /\ n \in Stored) THEN "store" ELSE "none"

\* get_secret on the kept store, else on the one it unlocks: `locked' is
\* MasterPasswordError, `none' any other SecretStoreError.  That the system
\* does not let the server read the file is no case of the model.
Lookup(n) ==
    IF server.cached THEN (IF n \in server.names THEN "store" ELSE "none")
    ELSE IF Locked(server.pw) THEN "locked"
    ELSE IF n \in Stored THEN "store"
    ELSE "none"

\* _resolve_secret: the store first, then the plaintext variable.
Resolved(n) ==
    LET found == IF file = Missing THEN "none" ELSE Lookup(n)
    IN IF found # "none" THEN found
       ELSE IF n \in Exported THEN "env" ELSE "missing"

\* A lookup that unlocks the store keeps it.
ResolveSecret ==
    /\ ~server.cached /\ file \in Blob /\ file.pw = server.pw
    /\ server' = [server EXCEPT !.cached = TRUE, !.names = Stored]
    /\ UNCHANGED <<file, tmp, dotenv, cmd, started, raced, stale, meant, standing>>

Next ==
    \/ \E p \in Commands :
         \/ \E kind \in Kinds, pw \in Passwords : Unlock(p, kind, pw)
         \/ \E n \in Names : \/ Delete(p, n) \/ ImportLine(p, n)
                             \/ \E k \in Keys : Set(p, n, k)
         \/ \E pw \in Passwords : WithPassword(p, pw)
         \/ WriteTmp(p) \/ Replace(p) \/ ReplaceFails(p)
         \/ RenameDotenv(p) \/ Abandon(p)
    \/ \E pw \in Passwords : Restart(pw)
    \/ ResolveSecret

Spec == Init /\ [][Next]_vars

-------------------------------------------------------------------------------
CommandState ==
    [pc: {"idle", "open", "write", "replace"}, kind: Kinds,
     pw: Passwords \cup {NoPassword}, keys: KeyMap, lines: KeyMap,
     name: Names \cup {NoName}, key: Keys \cup {NoKey},
     fd: {"none", "tmp", "file", "lost"}, fresh: BOOLEAN]

\* Every variable stays within what the code can store in it.
TypeOK ==
    /\ file \in Contents /\ tmp \in Contents /\ dotenv \in {Legacy, NoKeys}
    /\ cmd \in [Commands -> CommandState]
    /\ server \in [pw: Passwords, cached: BOOLEAN, names: SUBSET Names]
    /\ started \in 0 .. MaxCommands
    /\ raced \in BOOLEAN /\ stale \in BOOLEAN
    /\ meant \in Blob \cup {Missing} /\ standing \subseteq Names

(***************************************************************************)
(* Only two commands inside _persist at once can leave secrets.enc         *)
(* unreadable: whatever step a command dies at, the file is the whole old  *)
(* store or the whole new one (_persist writes aside and replaces).        *)
(***************************************************************************)
StoreIsWhole == ~raced => file \in Blob \cup {Missing}

(***************************************************************************)
(* As long as no command wrote back a map that another had replaced, the   *)
(* store holds what the completed commands say, taken one after another:   *)
(* a set, a deletion, a rotation, an imported line or the wizard's second  *)
(* target changes nothing but what it names, and the password stays the    *)
(* one last rotated to.                                                    *)
(***************************************************************************)
UpdatesSurvive == ~raced /\ ~stale => file = meant

\* A step that puts .env away, undisturbed, has all of it in the store.
PutsAwayStored ==
    dotenv' # dotenv /\ ~raced /\ ~stale
    /\ (\A p \in Commands : cmd[p] # cmd'[p] => cmd[p].fresh)
    => \A n \in Held(dotenv) : file \in Blob /\ file.keys[n] = dotenv[n]

(***************************************************************************)
(* The plaintext .env is put away only in a step at which each key it held *)
(* is in the store (migrate_legacy_env: "so nothing is silently lost"),    *)
(* unless another command has replaced the store under the migration.      *)
(***************************************************************************)
PutAwayOnlyWhenStored == [][PutsAwayStored]_vars

(***************************************************************************)
(* A name that has been in the store ever since the server started is      *)
(* never answered from the plaintext variable, and never with "no API key":*)
(* a password that no longer opens the store is reported as that           *)
(* (config._resolve_secret re-raises MasterPasswordError).  This is about  *)
(* lookups the system lets read the file.                                  *)
(***************************************************************************)
StoredKeyIsUsed ==
    ~raced => \A n \in standing : Resolved(n) \notin {"env", "missing"}

===============================================================================
