------------------------------ MODULE Connection ------------------------------
(***************************************************************************)
(* Connections and login sessions: connection.py, auth.py, the lazy        *)
(* manager of mcp_server/_shared.py, and the doctor that checks them.      *)
(*                                                                         *)
(* The worker threads of the MCP server share one process: the manager,    *)
(* its connections and their session headers are each looked up, made and  *)
(* stored without a lock.  The doctor runs in a process of its own, with   *)
(* its own manager, on one thread.  A management server is what its preset *)
(* describes and accepts the credential of that scheme.                    *)
(***************************************************************************)
EXTENDS Dialect, Naturals, FiniteSets

CONSTANTS
  Worker,       \* worker threads of the server process
  Target,       \* names of the targets in config.yaml
  Default,      \* the first of them
  Config,       \* the files considered: [Target -> Entry]
  Key,          \* API keys and passwords
  None          \* no value: unnamed, uncached, not stored

(* A connection whose strategy needs no login caches an empty mapping. *)
NoHeaders == "{}"

(* A connection, by the manager that holds it, its target and the thread that built it. *)
Conn == [manager : Worker, target : Target, maker : Worker]

(* A session, by the connection and the thread that logged in on it. *)
Session == [conn : Conn, login : Worker]

ASSUME ConfigAssumption ==
  /\ Default \in Target
  /\ Config \subseteq [Target -> Entry]
  /\ None \notin Worker \cup Key /\ None \notin Target \cup Conn
  /\ NoHeaders \notin Worker \cup {None}

VARIABLES
  config,       \* what config.yaml holds
  product,      \* the preset that describes a target's server
  grant,        \* the key or password the server accepts
  stored,       \* the one the secret store holds
  manager,      \* _conn_mgr: the worker that made it
  pool,         \* _connections, per manager
  headers,      \* _session_headers of a connection: {}, or the login they are of
  call,         \* where a worker stands in its call, and what it holds
  issued,       \* sessions handed out to the process (history)
  overlapped,   \* targets whose connecting calls overlapped (history)
  doctor,       \* the doctor's run
  touched       \* targets whose credentials changed during it (history)

credentials == <<grant, stored>>
server == <<manager, pool, headers, call, issued, overlapped>>
vars == <<config, product, credentials, server, doctor, touched>>

(* get_target, default_target: the target a call means. *)
Named(asked) == IF asked = None THEN Default ELSE asked

(* load_config resolves every entry: one that cannot be fails them all. *)
Loads == \A x \in Target : Resolvable(config[x])

Scheme(x) == Resolve(config[x]).auth

Idle == [at |-> "idle", asked |-> None, conn |-> None]

Off == [at |-> "off", skip |-> FALSE, left |-> {}, target |-> None,
        problems |-> FALSE, key |-> None, session |-> FALSE]

TypeOK ==
  /\ config \in Config
  /\ product \in [Target -> Transport]
  /\ grant \in [Target -> Key] /\ stored \in [Target -> Key \cup {None}]
  /\ manager \in Worker \cup {None}
  /\ pool \in [Worker -> [Target \cup {None} -> Conn \cup {None}]]
  /\ \A m \in Worker : pool[m][None] = None
  /\ headers \in [Conn -> Worker \cup {None, NoHeaders}]
  /\ call \in [Worker -> [at : {"idle", "load", "lookup", "build", "session",
                                "login", "cache", "request"},
                          asked : Target \cup {None}, conn : Conn \cup {None}]]
  /\ issued \subseteq Session
  /\ overlapped \subseteq Target /\ touched \subseteq Target
  /\ doctor \in [at : {"off", "keys", "targets", "probe", "authenticate", "read",
                       "done", "raised"},
                 skip : BOOLEAN, left : SUBSET Target, target : Target \cup {None},
                 problems : BOOLEAN, key : Key \cup {None}, session : BOOLEAN]

Init ==
  /\ config \in Config
  /\ product \in [Target -> Transport]
  /\ grant \in [Target -> Key] /\ stored \in [Target -> Key \cup {None}]
  /\ manager = None
  /\ pool = [m \in Worker |-> [x \in Target \cup {None} |-> None]]
  /\ headers = [c \in Conn |-> None]
  /\ call = [w \in Worker |-> Idle]
  /\ issued = {} /\ overlapped = {} /\ touched = {}
  /\ doctor = Off

-----------------------------------------------------------------------------
(* Helpers of the server process.                                          *)

Goto(w, label) == call' = [call EXCEPT ![w].at = label]

(* The call is over: an answer, or an exception for tool_errors to flatten. *)
Ends(w) == call' = [call EXCEPT ![w] = Idle]

(* Workers whose call is still on its way to a session. *)
Connecting == {w \in Worker : call[w].at \notin {"idle", "request"}}

(***************************************************************************)
(* Targets that workers about to connect may race for: the one they share; *)
(* every target, while there is no manager.                                *)
(***************************************************************************)
Contested(x) ==
  IF manager = None /\ Connecting # {} THEN Target
  ELSE IF \E v \in Connecting : Named(call[v].asked) = x THEN {x} ELSE {}

(* The key a request for x needs is there and the store opens. *)
Readable(x) == stored[x] # None

(* The server is where the entry says, and speaks its scheme. *)
Fits(x) ==
  /\ BaseUrl(config[x]) = PRESETS[product[x]].transport
  /\ Scheme(x) = PRESETS[product[x]].auth

(* A Basic login: the account is set and the stored password is the server's. *)
LoginAccepted(x) ==
  /\ Fits(x)
  /\ config[x].username
  /\ stored[x] = grant[x]

-----------------------------------------------------------------------------
(* The server process.                                                     *)

(* A tool asks for a connection: _conn_mgr is tested. *)
Begin(w, asked) ==
  /\ call[w].at = "idle"
  /\ call' = [call EXCEPT ![w] = [Idle EXCEPT !.asked = asked,
                !.at = IF manager = None THEN "load" ELSE "lookup"]]
  /\ overlapped' = overlapped \cup Contested(Named(asked))
  /\ UNCHANGED <<manager, pool, headers, issued>>

(* No manager yet: the configuration is read and one is assigned. *)
Load(w) ==
  /\ call[w].at = "load"
  /\ IF Loads THEN manager' = w /\ Goto(w, "lookup")
              ELSE manager' = manager /\ Ends(w)
  /\ UNCHANGED <<pool, headers, issued, overlapped>>

(* Connections are kept under ... *)
PoolKeyAsAsked(asked) == asked

PoolKey(asked) == Named(asked)

(* The manager assigned by now is asked; it has the connection or will build it. *)
Lookup(w) ==
  /\ call[w].at = "lookup"
  /\ LET x == Named(call[w].asked)
         cached == pool[manager][PoolKey(call[w].asked)]
     IN  IF cached # None
           THEN call' = [call EXCEPT ![w].at = "session", ![w].conn = cached]
           ELSE call' = [call EXCEPT ![w].at = "build",
                           ![w].conn = [manager |-> manager, target |-> x, maker |-> w]]
  /\ UNCHANGED <<manager, pool, headers, issued, overlapped>>

(***************************************************************************)
(* EndpointConnection is constructed -- the scheme has to exist, and a     *)
(* bearer key to be readable now -- and stored over what is there.         *)
(***************************************************************************)
Build(w) ==
  LET c == call[w].conn IN
  /\ call[w].at = "build"
  /\ \/ /\ Implemented(config[c.target])
        /\ Scheme(c.target) = "bearer" => Readable(c.target)
        /\ pool' = [pool EXCEPT ![c.manager][PoolKey(call[w].asked)] = c]
        /\ Goto(w, "session")
     \/ /\ ~Implemented(config[c.target]) \/ Scheme(c.target) = "bearer"
        /\ Ends(w)
        /\ UNCHANGED pool
  /\ UNCHANGED <<manager, headers, issued, overlapped>>

(* The tool names its path, then _ensure_session tests the cached headers. *)
EnsureSession(w) ==
  LET c == call[w].conn IN
  /\ call[w].at = "session"
  /\ \E resource \in Resource :
       IF Exposes(config[c.target], resource)
         THEN Goto(w, IF headers[c] = None THEN "login" ELSE "request")
         ELSE Ends(w)
  /\ UNCHANGED <<manager, pool, headers, issued, overlapped>>

(***************************************************************************)
(* The strategy's handshake.  A bearer scheme has none.  A login may be    *)
(* refused, get no answer, lack its account or its password, or be         *)
(* answered without a session id, which raises too.                        *)
(***************************************************************************)
AuthenticateAnyBody(w) ==
  LET c == call[w].conn IN
  /\ call[w].at = "login"
  /\ \/ /\ Scheme(c.target) = "bearer" \/ LoginAccepted(c.target)
        /\ headers' = [headers EXCEPT ![c] = NoHeaders]
        /\ Goto(w, "request")
        /\ UNCHANGED issued
     \/ /\ Scheme(c.target) = "imi-session"
        /\ LoginAccepted(c.target)
        /\ issued' = issued \cup {[conn |-> c, login |-> w]}
        /\ Goto(w, "cache")
        /\ UNCHANGED headers
     \/ Ends(w) /\ UNCHANGED <<headers, issued>>
  /\ UNCHANGED <<manager, pool, overlapped>>

Authenticate(w) ==
  LET c == call[w].conn IN
  /\ call[w].at = "login"
  /\ \/ /\ Scheme(c.target) = "bearer"
        /\ headers' = [headers EXCEPT ![c] = NoHeaders]
        /\ Goto(w, "request")
        /\ UNCHANGED issued
     \/ /\ Scheme(c.target) = "imi-session"
        /\ \/ /\ LoginAccepted(c.target)
              /\ issued' = issued \cup {[conn |-> c, login |-> w]}
              /\ Goto(w, "cache")
           \/ Ends(w) /\ UNCHANGED issued
        /\ UNCHANGED headers
  /\ UNCHANGED <<manager, pool, overlapped>>

(* The session just obtained replaces whatever another thread cached since. *)
Cache(w) ==
  /\ call[w].at = "cache"
  /\ headers' = [headers EXCEPT ![call[w].conn] = w]
  /\ Goto(w, "request")
  /\ UNCHANGED <<manager, pool, issued, overlapped>>

(* The request goes out under the headers cached by now; whatever it meets ends the call. *)
Request(w) ==
  /\ call[w].at = "request"
  /\ Ends(w)
  /\ UNCHANGED <<manager, pool, headers, issued, overlapped>>

ServerStep(w) ==
  \/ \E asked \in Target \cup {None} : Begin(w, asked)
  \/ Load(w) \/ Lookup(w) \/ Build(w)
  \/ EnsureSession(w) \/ Authenticate(w) \/ Cache(w) \/ Request(w)

-----------------------------------------------------------------------------
(* The doctor.                                                             *)

(* A loop over the targets goes on, or is over. *)
After(left, label, over) ==
  IF left = {} THEN over ELSE label

(***************************************************************************)
(* run_doctor: no file, one that does not load or has no target is the end *)
(* of it.  Neither a secret store nor a .env is a problem.                 *)
(***************************************************************************)
Examine(skip) ==
  /\ doctor.at = "off"
  /\ \/ doctor' = [Off EXCEPT !.at = "done", !.skip = skip, !.problems = TRUE]
     \/ /\ Loads
        /\ \E bare \in BOOLEAN :
             doctor' = [Off EXCEPT !.at = "keys", !.skip = skip, !.left = Target,
                                   !.problems = bare]

(* Each target's key is read.  A missing one is a problem; a locked store raises. *)
CheckKey(x) ==
  /\ doctor.at = "keys" /\ x \in doctor.left
  /\ LET left == doctor.left \ {x}
         over == IF doctor.skip THEN "done" ELSE "targets"
     IN  \/ doctor' = [doctor EXCEPT !.at = After(left, "keys", over),
                         !.left = IF left = {} /\ ~doctor.skip THEN Target ELSE left,
                         !.problems = @ \/ ~Readable(x)]
         \/ doctor' = [doctor EXCEPT !.at = "raised"]

(* A target has been seen to, with or without a problem. *)
Turn(x, problem) ==
  LET left == doctor.left \ {x}
  IN  doctor' = [doctor EXCEPT !.at = After(left, "targets", "done"), !.left = left,
                   !.target = None, !.key = None, !.session = FALSE,
                   !.problems = @ \/ problem]

(* A connection is built, under today's key; what stops that is a problem. *)
Connect(x) ==
  /\ doctor.at = "targets" /\ x \in doctor.left
  /\ \/ /\ Implemented(config[x])
        /\ Scheme(x) = "bearer" => Readable(x)
        /\ doctor' = [doctor EXCEPT !.at = "probe", !.target = x,
                         !.key = IF Scheme(x) = "bearer" THEN stored[x] ELSE None]
     \/ /\ ~Implemented(config[x]) \/ Scheme(x) = "bearer"
        /\ Turn(x, TRUE)

(* 1: the version path, without a login. *)
Probe ==
  /\ doctor.at = "probe"
  /\ \/ /\ Exposes(config[doctor.target], "version")
        /\ BaseUrl(config[doctor.target]) = PRESETS[product[doctor.target]].transport
        /\ doctor' = [doctor EXCEPT !.at = "authenticate"]
     \/ Turn(doctor.target, TRUE)

(* 2: the handshake; none for a bearer scheme. *)
LogIn ==
  /\ doctor.at = "authenticate"
  /\ \/ /\ Scheme(doctor.target) = "bearer"
        /\ doctor' = [doctor EXCEPT !.at = "read"]
     \/ /\ Scheme(doctor.target) = "imi-session"
        /\ \/ /\ LoginAccepted(doctor.target)
              /\ doctor' = [doctor EXCEPT !.at = "read", !.session = TRUE]
           \/ Turn(doctor.target, TRUE)

(* ... and 3, an authenticated read: the first to present a bearer key. *)
ReadTrustingLogin ==
  /\ doctor.at = "read"
  /\ Turn(doctor.target, ~Exposes(config[doctor.target], "endpoints"))

Read ==
  /\ doctor.at = "read"
  /\ \/ /\ Exposes(config[doctor.target], "endpoints")
        /\ Fits(doctor.target)
        /\ doctor.session \/ doctor.key = grant[doctor.target]
        /\ Turn(doctor.target, FALSE)
     \/ Turn(doctor.target, TRUE)

DoctorStep ==
  \/ \E skip \in BOOLEAN : Examine(skip)
  \/ \E x \in Target : CheckKey(x) \/ Connect(x)
  \/ Probe \/ LogIn \/ Read

-----------------------------------------------------------------------------
(* The credentials of a target change, in the secret store or on its server. *)
SetSecret(x, key) ==
  /\ stored[x] # key
  /\ stored' = [stored EXCEPT ![x] = key]
  /\ UNCHANGED grant

Regrant(x, key) ==
  /\ grant[x] # key
  /\ grant' = [grant EXCEPT ![x] = key]
  /\ UNCHANGED stored

Change(x) ==
  /\ \/ \E key \in Key : Regrant(x, key)
     \/ \E key \in Key \cup {None} : SetSecret(x, key)
  /\ touched' = IF doctor.at = "off" THEN touched ELSE touched \cup {x}

Next ==
  \/ \E w \in Worker : ServerStep(w) /\ UNCHANGED <<config, product, credentials,
                                                    doctor, touched>>
  \/ DoctorStep /\ UNCHANGED <<config, product, credentials, server, touched>>
  \/ \E x \in Target : Change(x) /\ UNCHANGED <<config, product, server, doctor>>

Spec == Init /\ [][Next]_vars

-----------------------------------------------------------------------------
(* Properties.                                                             *)

(***************************************************************************)
(* A request goes to the target its call meant, and never goes out         *)
(* unauthenticated: under a session scheme it carries one its own          *)
(* connection was issued (ImiSessionAuth.authenticate: "Refusing to        *)
(* continue unauthenticated").                                             *)
(***************************************************************************)
RequestsAreSigned ==
  \A w \in Worker : call[w].at = "request" =>
    LET c == call[w].conn IN
    /\ c.target = Named(call[w].asked)
    /\ IF Scheme(c.target) = "imi-session"
         THEN [conn |-> c, login |-> headers[c]] \in issued
         ELSE headers[c] = NoHeaders

(***************************************************************************)
(* One login serves every call on a target, named or not, for the life of  *)
(* the process, unless calls overlapped on their way to it: what remains   *)
(* of "exactly one per connection".                                        *)
(***************************************************************************)
SessionIsShared ==
  \A x \in Target \ overlapped : Cardinality({s \in issued : s.conn.target = x}) <= 1

(***************************************************************************)
(* doctor's exit status 0 is earned: for each target whose credentials     *)
(* stayed as they were, the entry fits the server and the stored           *)
(* credential is the one it accepts -- by an authenticated read, not by    *)
(* the version path anyone may read (_check_target).                       *)
(***************************************************************************)
GreenIsEarned ==
  doctor.at = "done" /\ ~doctor.problems /\ ~doctor.skip =>
    \A x \in Target \ touched :
      /\ Fits(x)
      /\ Exposes(config[x], "endpoints")
      /\ stored[x] = grant[x]
      /\ Scheme(x) = "imi-session" => config[x].username

===============================================================================
