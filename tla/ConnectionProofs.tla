--------------------------- MODULE ConnectionProofs ---------------------------
(***************************************************************************)
(* Theorems about Connection, for any workers, targets, files and keys,    *)
(* and for requests and logins that may all fail.                          *)
(***************************************************************************)
EXTENDS Connection, TLAPS, FiniteSetTheorems

(* A worker that holds a connection holds one of the target its call means. *)
CallInv ==
  \A w \in Worker :
    /\ call[w].at = "lookup" => manager \in Worker
    /\ call[w].at \in {"build", "session", "login", "cache", "request"} =>
         /\ call[w].conn \in Conn
         /\ call[w].conn.target = Named(call[w].asked)

PoolInv ==
  \A m \in Worker, x \in Target :
    pool[m][x] # None => pool[m][x] \in Conn /\ pool[m][x].target = x

(* Cached headers are what the scheme of their connection asks for. *)
HeadersInv ==
  \A c \in Conn : headers[c] # None =>
    IF Scheme(c.target) = "imi-session"
      THEN [conn |-> c, login |-> headers[c]] \in issued
      ELSE headers[c] = NoHeaders

(* A session about to be cached was issued, and a request finds headers. *)
StageInv ==
  \A w \in Worker :
    /\ call[w].at = "cache" =>
         /\ Scheme(call[w].conn.target) = "imi-session"
         /\ [conn |-> call[w].conn, login |-> w] \in issued
    /\ call[w].at = "request" => headers[call[w].conn] # None

SignedInv == CallInv /\ PoolInv /\ HeadersInv /\ StageInv

(* Workers on their way to a session on x. *)
On(w, x) == call[w].at \notin {"idle", "request"} /\ Named(call[w].asked) = x

(* Until every target is given up as raced for, one manager was ever made. *)
ManagerInv ==
  overlapped # Target =>
    /\ \A w \in Worker : call[w].at = "load" => manager = None
    /\ manager = None => /\ \A w \in Worker : call[w].at \in {"idle", "load"}
                         /\ \A v, w \in Worker :
                              call[v].at = "load" /\ call[w].at = "load" => v = w

(* A target nobody raced for: one worker at most connects, on the pooled connection. *)
LoneInv ==
  \A x \in Target \ overlapped :
    /\ \A v, w \in Worker : On(v, x) /\ On(w, x) => v = w
    /\ \A w \in Worker : On(w, x) =>
         /\ call[w].at = "build" => pool[manager][x] = None /\ call[w].conn.manager = manager
         /\ call[w].at \in {"session", "login", "cache"} => call[w].conn = pool[manager][x]
         /\ call[w].at = "login" => headers[call[w].conn] = None

(* A session of such a target is the pooled connection's, cached or about to be. *)
IssuedInv ==
  \A s \in issued : s.conn.target \notin overlapped =>
    /\ manager \in Worker
    /\ s.conn = pool[manager][s.conn.target]
    /\ \/ headers[s.conn] # None
       \/ \E w \in Worker : call[w].at = "cache" /\ call[w].conn = s.conn
    /\ \A t \in issued : t.conn.target = s.conn.target => t = s

SharedInv == ManagerInv /\ LoneInv /\ IssuedInv

(* What a green report claims of a target. *)
Sound(x) ==
  /\ Fits(x)
  /\ Exposes(config[x], "endpoints")
  /\ stored[x] = grant[x]
  /\ Scheme(x) = "imi-session" => config[x].username

(* The doctor past its look at the keys: what it holds, and what it has seen to. *)
DoctorInv ==
  /\ doctor.at \in {"probe", "authenticate", "read"} =>
       /\ doctor.target \in doctor.left
       /\ doctor.key # None => /\ Scheme(doctor.target) = "bearer"
                               /\ doctor.target \notin touched =>
                                    doctor.key = stored[doctor.target]
       /\ doctor.session /\ doctor.target \notin touched =>
            stored[doctor.target] = grant[doctor.target] /\ config[doctor.target].username
  /\ doctor.at = "targets" => doctor.key = None /\ ~doctor.session
  /\ doctor.at = "keys" => doctor.key = None /\ ~doctor.session
  /\ doctor.at \in {"targets", "probe", "authenticate", "read", "done"}
     /\ ~doctor.problems /\ ~doctor.skip =>
       /\ \A x \in Target \ (touched \cup doctor.left) : Sound(x)
       /\ doctor.at = "done" => doctor.left = {}

-----------------------------------------------------------------------------
(* Requests: what a worker may send under.                                 *)

Stages == {"idle", "load", "lookup", "build", "session", "login", "cache", "request"}

Call == [at : Stages, asked : Target \cup {None}, conn : Conn \cup {None}]

LEMMA NamedIsTarget == \A asked \in Target \cup {None} : Named(asked) \in Target
BY ConfigAssumption DEF Named

(* The steps of a worker leave the other workers' calls and the rest of the system alone. *)
Frame == UNCHANGED <<config, product, credentials, doctor, touched>>

(* What each way of moving a call on does to it. *)
LEMMA Moving ==
  ASSUME TypeOK, NEW w \in Worker, NEW label \in Stages, Goto(w, label)
  PROVE  /\ call' \in [Worker -> Call]
         /\ call'[w].at = label /\ call'[w].asked = call[w].asked
         /\ call'[w].conn = call[w].conn
         /\ \A v \in Worker \ {w} : call'[v] = call[v]
BY DEF TypeOK, Goto, Call, Stages

LEMMA Ending ==
  ASSUME TypeOK, NEW w \in Worker, Ends(w)
  PROVE  /\ call' \in [Worker -> Call]
         /\ call'[w].at = "idle"
         /\ \A v \in Worker \ {w} : call'[v] = call[v]
BY DEF TypeOK, Ends, Idle, Call, Stages

(* The type invariant in the form the steps below re-establish it. *)
LEMMA TypeByParts ==
  ASSUME TypeOK, Frame, call' \in [Worker -> Call], manager' \in Worker \cup {None},
         pool' \in [Worker -> [Target \cup {None} -> Conn \cup {None}]],
         \A m \in Worker : pool'[m][None] = None,
         headers' \in [Conn -> Worker \cup {None, NoHeaders}],
         issued' \subseteq Session, overlapped' \subseteq Target
  PROVE  TypeOK'
BY DEF TypeOK, Frame, credentials, Call, Stages

LEMMA BeginSigned ==
  ASSUME TypeOK, SignedInv, Frame, NEW w \in Worker, NEW asked \in Target \cup {None},
         Begin(w, asked)
  PROVE  TypeOK' /\ SignedInv'
<1>1. /\ call' \in [Worker -> Call]
      /\ call'[w].at = (IF manager = None THEN "load" ELSE "lookup")
      /\ call'[w].asked = asked
      /\ \A v \in Worker \ {w} : call'[v] = call[v]
  BY DEF Begin, TypeOK, Idle, Call, Stages
<1>2. TypeOK'
  <2>1. overlapped' \subseteq Target
    BY NamedIsTarget DEF Begin, TypeOK, Contested
  <2> QED BY <1>1, <2>1, TypeByParts DEF Begin, TypeOK
<1>3. SignedInv'
  BY <1>1 DEF SignedInv, CallInv, PoolInv, HeadersInv, StageInv, Scheme, Begin, Frame, TypeOK
<1> QED BY <1>2, <1>3

LEMMA LoadSigned ==
  ASSUME TypeOK, SignedInv, Frame, NEW w \in Worker, Load(w)
  PROVE  TypeOK' /\ SignedInv'
<1>1. /\ call' \in [Worker -> Call]
      /\ call'[w].at \in {"lookup", "idle"}
      /\ call'[w].at = "lookup" => manager' = w
      /\ manager' \in {manager, w}
      /\ \A v \in Worker \ {w} : call'[v] = call[v]
  BY Moving, Ending DEF Load, Stages
<1>2. TypeOK' BY <1>1, TypeByParts DEF Load, TypeOK
<1>3. CallInv'
  <2> SUFFICES ASSUME NEW v \in Worker
               PROVE  /\ call'[v].at = "lookup" => manager' \in Worker
                      /\ call'[v].at \in {"build", "session", "login", "cache", "request"} =>
                           /\ call'[v].conn \in Conn
                           /\ call'[v].conn.target = Named(call'[v].asked)
    BY DEF CallInv, Named
  <2>1. CASE v = w BY <1>1, <2>1
  <2>2. CASE v # w
    <3>1. call'[v] = call[v] BY <1>1, <2>2
    <3> QED BY <1>1, <3>1 DEF SignedInv, CallInv
  <2> QED BY <2>1, <2>2
<1>4. PoolInv' /\ HeadersInv' /\ StageInv'
  BY <1>1 DEF SignedInv, PoolInv, HeadersInv, StageInv, Scheme, Load, Frame
<1> QED BY <1>2, <1>3, <1>4 DEF SignedInv

LEMMA LookupSigned ==
  ASSUME TypeOK, SignedInv, Frame, NEW w \in Worker, Lookup(w)
  PROVE  TypeOK' /\ SignedInv'
<1> DEFINE x == Named(call[w].asked)
           made == [manager |-> manager, target |-> x, maker |-> w]
<1>1. x \in Target /\ manager \in Worker /\ x # None
  BY NamedIsTarget, ConfigAssumption DEF TypeOK, Lookup, SignedInv, CallInv
<1>2. made \in Conn /\ made.target = x BY <1>1 DEF Conn
<1>3. pool[manager][x] # None => pool[manager][x] \in Conn /\ pool[manager][x].target = x
  BY <1>1 DEF SignedInv, PoolInv
<1>4. PICK c \in Conn : /\ c.target = x
                        /\ \E label \in {"session", "build"} :
                             call' = [call EXCEPT ![w].at = label, ![w].conn = c]
  <2>1. CASE pool[manager][x] # None
    BY <1>3, <2>1 DEF Lookup, PoolKey
  <2>2. CASE pool[manager][x] = None
    BY <1>2, <2>2 DEF Lookup, PoolKey
  <2> QED BY <2>1, <2>2
<1>5. /\ call' \in [Worker -> Call]
      /\ call'[w].at \in {"session", "build"}
      /\ call'[w].conn = c /\ call'[w].asked = call[w].asked
      /\ \A v \in Worker \ {w} : call'[v] = call[v]
  <2>1. PICK label \in {"session", "build"} :
          call' = [call EXCEPT ![w].at = label, ![w].conn = c]
    BY <1>4
  <2>2. call \in [Worker -> Call] BY DEF TypeOK, Call, Stages
  <2>3. call' = [call EXCEPT ![w] = [@ EXCEPT !.at = label, !.conn = c]]
    BY <2>1, <2>2 DEF Call
  <2>4. [call[w] EXCEPT !.at = label, !.conn = c] \in Call BY <2>2 DEF Call, Stages
  <2> QED BY <2>2, <2>3, <2>4 DEF Call
<1>6. TypeOK' BY <1>5, TypeByParts DEF Lookup, TypeOK
<1>7. SignedInv'
  BY <1>1, <1>4, <1>5
  DEF SignedInv, CallInv, PoolInv, HeadersInv, StageInv, Scheme, Lookup, Frame, TypeOK
<1> QED BY <1>6, <1>7

LEMMA BuildSigned ==
  ASSUME TypeOK, SignedInv, Frame, NEW w \in Worker, Build(w)
  PROVE  TypeOK' /\ SignedInv'
<1> DEFINE c == call[w].conn
           x == Named(call[w].asked)
<1>1. c \in Conn /\ c.target = x /\ x \in Target /\ x # None /\ c.manager \in Worker
  BY NamedIsTarget, ConfigAssumption DEF TypeOK, Build, SignedInv, CallInv, Conn
<1>2. \/ pool' = [pool EXCEPT ![c.manager][x] = c] /\ Goto(w, "session")
      \/ pool' = pool /\ Ends(w)
  BY DEF Build, PoolKey
<1>3. /\ call' \in [Worker -> Call]
      /\ call'[w].at \in {"session", "idle"}
      /\ call'[w].at = "session" => /\ call'[w].conn = c
                                    /\ call'[w].asked = call[w].asked
      /\ \A v \in Worker \ {w} : call'[v] = call[v]
  BY <1>2, Moving, Ending DEF Stages
<1>4. /\ pool' \in [Worker -> [Target \cup {None} -> Conn \cup {None}]]
      /\ \A m \in Worker : pool'[m][None] = None
      /\ \A m \in Worker, y \in Target :
           \/ pool'[m][y] = pool[m][y]
           \/ pool'[m][y] = c /\ y = x
  <2>1. /\ pool \in [Worker -> [Target \cup {None} -> Conn \cup {None}]]
        /\ \A m \in Worker : pool[m][None] = None
    BY DEF TypeOK
  <2>2. CASE pool' = pool BY <2>1, <2>2
  <2>3. CASE pool' = [pool EXCEPT ![c.manager] = [@ EXCEPT ![x] = c]]
    <3> HIDE DEF c, x
    <3>1. [pool[c.manager] EXCEPT ![x] = c] \in [Target \cup {None} -> Conn \cup {None}]
      BY <1>1, <2>1
    <3>2. pool' \in [Worker -> [Target \cup {None} -> Conn \cup {None}]]
      BY <1>1, <2>1, <2>3, <3>1
    <3>3. \A m \in Worker, y \in Target \cup {None} :
            pool'[m][y] = IF m = c.manager /\ y = x THEN c ELSE pool[m][y]
      BY <1>1, <2>1, <2>3
    <3> QED BY <1>1, <2>1, <3>2, <3>3
  <2> QED BY <1>2, <2>2, <2>3
<1>5. TypeOK' BY <1>3, <1>4, TypeByParts DEF Build, TypeOK
<1>6. CallInv'
  <2> SUFFICES ASSUME NEW v \in Worker
               PROVE  /\ call'[v].at = "lookup" => manager' \in Worker
                      /\ call'[v].at \in {"build", "session", "login", "cache", "request"} =>
                           /\ call'[v].conn \in Conn
                           /\ call'[v].conn.target = Named(call'[v].asked)
    BY DEF CallInv, Named
  <2>1. CASE v = w BY <1>1, <1>3, <2>1
  <2>2. CASE v # w
    <3>1. call'[v] = call[v] BY <1>3, <2>2
    <3> QED BY <3>1 DEF SignedInv, CallInv, Build
  <2> QED BY <2>1, <2>2
<1>8. PoolInv' BY <1>1, <1>4 DEF SignedInv, PoolInv
<1>7. HeadersInv' /\ StageInv'
  BY <1>3 DEF SignedInv, HeadersInv, StageInv, Scheme, Build, Frame
<1> QED BY <1>5, <1>6, <1>7, <1>8 DEF SignedInv

(* A call past the pool keeps its connection, or ends. *)
LEMMA SessionCallStays ==
  ASSUME CallInv, UNCHANGED manager, NEW w \in Worker,
         call[w].at \in {"session", "login", "cache"},
         call'[w].at \notin {"lookup", "build"},
         call'[w].at # "idle" => /\ call'[w].conn = call[w].conn
                                 /\ call'[w].asked = call[w].asked,
         \A v \in Worker \ {w} : call'[v] = call[v]
  PROVE  CallInv'
<1> SUFFICES ASSUME NEW v \in Worker
             PROVE  /\ call'[v].at = "lookup" => manager' \in Worker
                    /\ call'[v].at \in {"build", "session", "login", "cache", "request"} =>
                         /\ call'[v].conn \in Conn
                         /\ call'[v].conn.target = Named(call'[v].asked)
  BY DEF CallInv, Named
<1>1. CASE v = w BY <1>1 DEF CallInv
<1>2. CASE v # w
  <2>1. call'[v] = call[v] BY <1>2
  <2> QED BY <2>1 DEF CallInv
<1> QED BY <1>1, <1>2

LEMMA EnsureSigned ==
  ASSUME TypeOK, SignedInv, Frame, NEW w \in Worker, EnsureSession(w)
  PROVE  TypeOK' /\ SignedInv'
<1>1. /\ call' \in [Worker -> Call]
      /\ call'[w].at \in {"login", "request", "idle"}
      /\ call'[w].at = "request" => headers[call[w].conn] # None
      /\ call'[w].at # "idle" => /\ call'[w].conn = call[w].conn
                                 /\ call'[w].asked = call[w].asked
      /\ \A v \in Worker \ {w} : call'[v] = call[v]
  BY Moving, Ending DEF EnsureSession, Stages
<1>2. TypeOK' BY <1>1, TypeByParts DEF EnsureSession, TypeOK
<1>3. CallInv' BY <1>1, SessionCallStays DEF SignedInv, EnsureSession
<1>4. PoolInv' /\ HeadersInv'
  BY DEF SignedInv, PoolInv, HeadersInv, Scheme, EnsureSession, Frame
<1>5. StageInv'
  <2> SUFFICES ASSUME NEW v \in Worker
               PROVE  /\ call'[v].at = "cache" =>
                           /\ Scheme(call'[v].conn.target) = "imi-session"
                           /\ [conn |-> call'[v].conn, login |-> v] \in issued'
                      /\ call'[v].at = "request" => headers'[call'[v].conn] # None
    BY DEF StageInv, Scheme, Frame
  <2>1. CASE v = w BY <1>1, <2>1 DEF EnsureSession
  <2>2. CASE v # w
    <3>1. call'[v] = call[v] BY <1>1, <2>2
    <3> QED BY <3>1 DEF SignedInv, StageInv, EnsureSession
  <2> QED BY <2>1, <2>2
<1> QED BY <1>2, <1>3, <1>4, <1>5 DEF SignedInv

(* A login, and the caching of what it brought: headers only ever appear. *)
LEMMA LoginSigned ==
  ASSUME TypeOK, SignedInv, Frame, NEW w \in Worker, Authenticate(w) \/ Cache(w)
  PROVE  TypeOK' /\ SignedInv'
<1> DEFINE c == call[w].conn
           s == [conn |-> c, login |-> w]
<1>1. /\ call[w].at \in {"login", "cache"} /\ c \in Conn /\ s \in Session
      /\ UNCHANGED <<manager, pool, overlapped>>
  BY DEF SignedInv, CallInv, Authenticate, Cache, Session
<1>2. /\ call' \in [Worker -> Call]
      /\ call'[w].at \in {"cache", "request", "idle"}
      /\ call'[w].at # "idle" => /\ call'[w].conn = c
                                 /\ call'[w].asked = call[w].asked
      /\ \A v \in Worker \ {w} : call'[v] = call[v]
  BY Moving, Ending DEF Authenticate, Cache, Stages
<1>3. /\ issued' \in {issued, issued \cup {s}}
      /\ call'[w].at = "cache" => Scheme(c.target) = "imi-session" /\ s \in issued'
  <2>1. CASE Cache(w) BY <2>1, Moving DEF Cache, Stages
  <2>2. CASE Authenticate(w)
    <3>1. CASE Ends(w) /\ UNCHANGED issued BY <3>1, Ending
    <3>2. CASE Goto(w, "request") /\ UNCHANGED issued BY <3>2, Moving DEF Stages
    <3>3. CASE Scheme(c.target) = "imi-session" /\ issued' = issued \cup {s}
      BY <3>3
    <3> QED BY <2>2, <3>1, <3>2, <3>3 DEF Authenticate
  <2> QED BY <2>1, <2>2
<1>4. \/ headers' = headers /\ call'[w].at # "request"
      \/ headers' = [headers EXCEPT ![c] = NoHeaders] /\ Scheme(c.target) = "bearer"
      \/ headers' = [headers EXCEPT ![c] = w] /\ Scheme(c.target) = "imi-session" /\ s \in issued
  <2>1. CASE Cache(w) BY <2>1 DEF Cache, SignedInv, StageInv
  <2>2. CASE Authenticate(w)
    <3>1. CASE headers' = headers
      BY <2>2, <3>1, Moving, Ending DEF Authenticate, Stages
    <3>2. CASE headers' # headers BY <2>2, <3>2 DEF Authenticate
    <3> QED BY <3>1, <3>2
  <2> QED BY <2>1, <2>2
<1>5. /\ headers' \in [Conn -> Worker \cup {None, NoHeaders}]
      /\ \A d \in Conn \ {c} : headers'[d] = headers[d]
      /\ headers'[c] \in {headers[c], NoHeaders, w}
      /\ call'[w].at = "request" => headers'[c] # None
      /\ \A d \in Conn : headers[d] # None => headers'[d] # None
  BY <1>1, <1>4, ConfigAssumption, SMTT(20) DEF TypeOK
<1>6. TypeOK' BY <1>1, <1>2, <1>3, <1>5, TypeByParts DEF TypeOK
<1>7. CallInv' BY <1>1, <1>2, SessionCallStays DEF SignedInv
<1>8. PoolInv' BY <1>1 DEF SignedInv, PoolInv
<1>9. HeadersInv'
  <2> SUFFICES ASSUME NEW d \in Conn, headers'[d] # None
               PROVE  IF Scheme(d.target) = "imi-session"
                        THEN [conn |-> d, login |-> headers'[d]] \in issued'
                        ELSE headers'[d] = NoHeaders
    BY DEF HeadersInv, Scheme, Frame
  <2>1. CASE headers'[d] = headers[d]
    BY <1>3, <2>1 DEF SignedInv, HeadersInv
  <2>2. CASE headers'[d] # headers[d]
    <3>1. d = c BY <1>5, <2>2
    <3>2. CASE headers'[c] = NoHeaders /\ Scheme(c.target) = "bearer" BY <3>1, <3>2
    <3>3. CASE headers'[c] = w /\ Scheme(c.target) = "imi-session" /\ s \in issued
      BY <1>3, <3>1, <3>3
    <3> QED BY <1>1, <1>4, <2>2, <3>1, <3>2, <3>3 DEF TypeOK
  <2> QED BY <2>1, <2>2
<1>10. StageInv'
  <2> SUFFICES ASSUME NEW v \in Worker
               PROVE  /\ call'[v].at = "cache" =>
                           /\ Scheme(call'[v].conn.target) = "imi-session"
                           /\ [conn |-> call'[v].conn, login |-> v] \in issued'
                      /\ call'[v].at = "request" => headers'[call'[v].conn] # None
    BY DEF StageInv, Scheme, Frame
  <2>1. CASE v = w BY <1>2, <1>3, <1>5, <2>1
  <2>2. CASE v # w
    <3>1. call'[v] = call[v] BY <1>2, <2>2
    <3>2. call[v].at = "request" => call[v].conn \in Conn /\ headers[call[v].conn] # None
      BY DEF SignedInv, StageInv, CallInv
    <3> QED BY <1>3, <1>5, <3>1, <3>2 DEF SignedInv, StageInv
  <2> QED BY <2>1, <2>2
<1> QED BY <1>6, <1>7, <1>8, <1>9, <1>10 DEF SignedInv

LEMMA RequestSigned ==
  ASSUME TypeOK, SignedInv, Frame, NEW w \in Worker, Request(w)
  PROVE  TypeOK' /\ SignedInv'
<1>1. /\ call' \in [Worker -> Call]
      /\ call'[w].at = "idle"
      /\ \A v \in Worker \ {w} : call'[v] = call[v]
  BY Ending DEF Request
<1>2. TypeOK' BY <1>1, TypeByParts DEF Request, TypeOK
<1>3. SignedInv'
  BY <1>1 DEF SignedInv, CallInv, PoolInv, HeadersInv, StageInv, Scheme, Request, Frame
<1> QED BY <1>2, <1>3

-----------------------------------------------------------------------------
(* Every step, and the theorems they make.                                 *)

Run == [at : {"off", "keys", "targets", "probe", "authenticate", "read", "done", "raised"},
        skip : BOOLEAN, left : SUBSET Target, target : Target \cup {None},
        problems : BOOLEAN, key : Key \cup {None}, session : BOOLEAN]

(* A doctor's step leads to a run, and touches nothing else. *)
LEMMA DoctorTyped ==
  ASSUME TypeOK, DoctorInv, DoctorStep
  PROVE  doctor' \in Run
<1>1. doctor \in Run BY DEF TypeOK, Run
<1>2. Off \in Run BY DEF Off, Run
<1>3. ASSUME NEW x \in Target \cup {None}, NEW problem \in BOOLEAN, Turn(x, problem)
      PROVE  doctor' \in Run
  <2>1. doctor.left \ {x} \in SUBSET Target BY <1>1 DEF Run
  <2>2. After(doctor.left \ {x}, "targets", "done") \in {"targets", "done"} BY DEF After
  <2> QED BY <1>1, <1>3, <2>1, <2>2 DEF Turn, Run
<1>4. ASSUME NEW skip \in BOOLEAN, Examine(skip) PROVE doctor' \in Run
  BY <1>2, <1>4 DEF Examine, Run
<1>5. ASSUME NEW x \in Target, CheckKey(x) PROVE doctor' \in Run
  <2>1. doctor.left \ {x} \in SUBSET Target BY <1>1 DEF Run
  <2>2. \A over \in {"targets", "done"} :
          After(doctor.left \ {x}, "keys", over) \in {"keys", "targets", "done"}
    BY DEF After
  <2>3. (doctor.problems \/ ~Readable(x)) \in BOOLEAN BY <1>1 DEF Run, Readable
  <2> QED BY <1>1, <1>5, <2>1, <2>2, <2>3 DEF CheckKey, Run
<1>6. ASSUME NEW x \in Target, Connect(x) PROVE doctor' \in Run
  <2>1. stored[x] \in Key \cup {None} BY DEF TypeOK
  <2> QED BY <1>1, <1>3, <1>6, <2>1 DEF Connect, Run
<1>7. doctor.target \in Target \cup {None} BY <1>1 DEF Run
<1>8. CASE Probe BY <1>1, <1>3, <1>7, <1>8 DEF Probe, Run
<1>9. CASE LogIn BY <1>1, <1>3, <1>7, <1>9 DEF LogIn, Run
<1>10. CASE Read BY <1>1, <1>3, <1>7, <1>10 DEF Read
<1> QED BY <1>4, <1>5, <1>6, <1>8, <1>9, <1>10 DEF DoctorStep

LEMMA ServerSigned ==
  ASSUME TypeOK, SignedInv, Frame, NEW w \in Worker, ServerStep(w)
  PROVE  TypeOK' /\ SignedInv'
BY BeginSigned, LoadSigned, LookupSigned, BuildSigned, EnsureSigned, LoginSigned, RequestSigned
DEF ServerStep

LEMMA CredentialsTyped ==
  ASSUME TypeOK, NEW x \in Target, Change(x), UNCHANGED <<config, product, server, doctor>>
  PROVE  TypeOK'
<1>1. grant' \in [Target -> Key] /\ stored' \in [Target -> Key \cup {None}]
  BY DEF TypeOK, Change, SetSecret, Regrant
<1>2. touched' \subseteq Target BY DEF TypeOK, Change
<1> QED BY <1>1, <1>2 DEF TypeOK, server

(* Only the server process's own variables, and the file, decide what is signed. *)
LEMMA SignedElsewhere ==
  ASSUME SignedInv, UNCHANGED <<config, server>>
  PROVE  SignedInv'
BY DEF SignedInv, CallInv, PoolInv, HeadersInv, StageInv, Scheme, Named, server

(* The doctor, as seen from anyone else's step. *)
LEMMA DoctorElsewhere ==
  ASSUME DoctorInv, UNCHANGED <<config, product, credentials, doctor, touched>>
  PROVE  DoctorInv'
BY DEF DoctorInv, Sound, Fits, Scheme, credentials

LEMMA DoctorDisturbed ==
  ASSUME TypeOK, DoctorInv, NEW x \in Target, Change(x),
         UNCHANGED <<config, product, server, doctor>>
  PROVE  DoctorInv'
<1>1. CASE doctor.at = "off" BY <1>1 DEF DoctorInv
<1>2. CASE doctor.at # "off"
  <2>1. touched' = touched \cup {x} BY <1>2 DEF Change
  <2>2. \A y \in Target \ {x} : stored'[y] = stored[y] /\ grant'[y] = grant[y]
    BY DEF Change, SetSecret, Regrant, TypeOK
  <2>3. \A y \in Target \ touched' : Sound(y) => Sound(y)'
    BY <2>1, <2>2 DEF Sound, Fits, Scheme
  <2>4. doctor.target \in Target \ touched' =>
          /\ stored'[doctor.target] = stored[doctor.target]
          /\ grant'[doctor.target] = grant[doctor.target]
    BY <2>1, <2>2
  <2>5. doctor.left \subseteq Target BY DEF TypeOK
  <2>6. (doctor.at \in {"probe", "authenticate", "read"} =>
           /\ doctor.target \in doctor.left
           /\ doctor.key # None => /\ Scheme(doctor.target) = "bearer"
                                   /\ doctor.target \notin touched =>
                                        doctor.key = stored[doctor.target]
           /\ doctor.session /\ doctor.target \notin touched =>
                stored[doctor.target] = grant[doctor.target]
                /\ config[doctor.target].username)'
    BY <2>1, <2>4, <2>5 DEF DoctorInv, Scheme
  <2>7. (doctor.at \in {"targets", "probe", "authenticate", "read", "done"}
         /\ ~doctor.problems /\ ~doctor.skip =>
           /\ \A y \in Target \ (touched \cup doctor.left) : Sound(y)
           /\ doctor.at = "done" => doctor.left = {})'
    BY <2>1, <2>3 DEF DoctorInv
  <2> QED BY <2>6, <2>7 DEF DoctorInv
<1> QED BY <1>1, <1>2

(* A target is done with: it is sound, or the report is not green. *)
LEMMA TurnKeeps ==
  ASSUME TypeOK, DoctorInv, UNCHANGED <<config, product, credentials, server, touched>>,
         doctor.at \in {"targets", "probe", "authenticate", "read"},
         NEW x \in Target, NEW problem \in BOOLEAN, Turn(x, problem),
         problem \/ x \in touched \/ Sound(x)
  PROVE  DoctorInv'
<1>1. /\ doctor'.left = doctor.left \ {x}
      /\ doctor'.at = After(doctor.left \ {x}, "targets", "done")
      /\ doctor'.key = None /\ doctor'.session = FALSE
      /\ doctor'.problems = (doctor.problems \/ problem)
      /\ doctor'.skip = doctor.skip
  BY DEF Turn, TypeOK
<1>2. doctor'.at \in {"targets", "done"} /\ (doctor'.at = "done" => doctor'.left = {})
  BY <1>1 DEF After
<1>3. \A y \in Target : Sound(y)' <=> Sound(y)
  BY DEF Sound, Fits, Scheme, credentials
<1>4. ASSUME ~doctor'.problems, ~doctor'.skip, NEW y \in Target \ (touched' \cup doctor'.left)
      PROVE  Sound(y)'
  <2>1. ~doctor.problems /\ ~problem /\ ~doctor.skip /\ touched' = touched
    BY <1>1, <1>4
  <2>2. CASE y = x BY <1>3, <1>4, <2>1, <2>2
  <2>3. CASE y # x
    <3>1. y \in Target \ (touched \cup doctor.left) BY <1>1, <1>4, <2>1, <2>3
    <3> QED BY <1>3, <2>1, <3>1 DEF DoctorInv
  <2> QED BY <2>2, <2>3
<1> QED BY <1>1, <1>2, <1>4 DEF DoctorInv

LEMMA DoctorAdvances ==
  ASSUME TypeOK, DoctorInv, DoctorStep,
         UNCHANGED <<config, product, credentials, server, touched>>
  PROVE  DoctorInv'
<1>0. doctor \in Run BY DEF TypeOK, Run
<1>1. \A y \in Target : Sound(y)' <=> Sound(y)
  BY DEF Sound, Fits, Scheme, credentials
<1>2. ASSUME NEW skip \in BOOLEAN, Examine(skip) PROVE DoctorInv'
  BY <1>2 DEF Examine, DoctorInv, Off
<1>3. ASSUME NEW x \in Target, CheckKey(x) PROVE DoctorInv'
  <2>1. CASE doctor' = [doctor EXCEPT !.at = "raised"]
    BY <1>0, <2>1 DEF DoctorInv, Run
  <2>2. CASE doctor' # [doctor EXCEPT !.at = "raised"]
    <3>1. /\ doctor'.at = After(doctor.left \ {x}, "keys",
                                IF doctor.skip THEN "done" ELSE "targets")
          /\ doctor'.left = IF doctor.left \ {x} = {} /\ ~doctor.skip
                              THEN Target ELSE doctor.left \ {x}
          /\ doctor'.key = doctor.key /\ doctor'.session = doctor.session
          /\ doctor'.skip = doctor.skip
      BY <1>0, <1>3, <2>2 DEF CheckKey, Run
    <3>2. doctor.key = None /\ ~doctor.session BY <1>3 DEF CheckKey, DoctorInv
    <3>3. CASE doctor.skip BY <3>1, <3>2, <3>3 DEF After, DoctorInv
    <3>4. CASE ~doctor.skip
      <4>1. doctor'.at \in {"keys", "targets"} /\ (doctor'.at = "targets" => doctor'.left = Target)
        BY <3>1, <3>4 DEF After
      <4> QED BY <3>1, <3>2, <4>1 DEF DoctorInv
    <3> QED BY <3>3, <3>4
  <2> QED BY <2>1, <2>2
<1>4. ASSUME NEW x \in Target, Connect(x) PROVE DoctorInv'
  <2>1. CASE Turn(x, TRUE) BY <1>4, <2>1, TurnKeeps DEF Connect
  <2>2. CASE doctor' = [doctor EXCEPT !.at = "probe", !.target = x,
                          !.key = IF Scheme(x) = "bearer" THEN stored[x] ELSE None]
    <3>1. /\ doctor'.at = "probe" /\ doctor'.target = x /\ doctor'.left = doctor.left
          /\ doctor'.key = IF Scheme(x) = "bearer" THEN stored[x] ELSE None
          /\ doctor'.session = doctor.session
          /\ doctor'.problems = doctor.problems /\ doctor'.skip = doctor.skip
      BY <1>0, <2>2 DEF Run
    <3>2. x \in doctor.left /\ doctor.at = "targets" /\ ~doctor.session
      BY <1>4 DEF Connect, DoctorInv
    <3>3. Scheme(x)' = Scheme(x) /\ stored' = stored /\ touched' = touched
      BY DEF Scheme, credentials
    <3> QED BY <1>1, <3>1, <3>2, <3>3 DEF DoctorInv
  <2> QED BY <1>4, <2>1, <2>2 DEF Connect
<1>5. doctor.at \in {"probe", "authenticate", "read"} =>
        doctor.target \in Target /\ doctor.target \in doctor.left
  BY <1>0 DEF DoctorInv, Run
(* Moving on within a target's checks: what a session claims is the login's business. *)
<1>6. ASSUME doctor.at \in {"probe", "authenticate"},
             doctor'.at \in {"authenticate", "read"}, doctor'.target = doctor.target,
             doctor'.left = doctor.left, doctor'.key = doctor.key,
             doctor'.problems = doctor.problems, doctor'.skip = doctor.skip,
             doctor'.session = doctor.session \/ LoginAccepted(doctor.target)
      PROVE  DoctorInv'
  <2>1. /\ config' = config /\ stored' = stored /\ grant' = grant /\ touched' = touched
        /\ Scheme(doctor.target)' = Scheme(doctor'.target)
    BY <1>6 DEF Scheme, credentials
  <2>2. doctor'.session /\ doctor.target \notin touched =>
          stored[doctor.target] = grant[doctor.target] /\ config[doctor.target].username
    BY <1>6 DEF DoctorInv, LoginAccepted
  <2> QED BY <1>1, <1>5, <1>6, <2>1, <2>2 DEF DoctorInv, Scheme
<1>7. CASE Probe
  <2>1. CASE Turn(doctor.target, TRUE) BY <1>5, <1>7, <2>1, TurnKeeps DEF Probe
  <2>2. CASE doctor' = [doctor EXCEPT !.at = "authenticate"]
    BY <1>0, <1>6, <1>7, <2>2 DEF Probe, Run
  <2> QED BY <1>7, <2>1, <2>2 DEF Probe
<1>8. CASE LogIn
  <2>1. CASE Turn(doctor.target, TRUE) BY <1>5, <1>8, <2>1, TurnKeeps DEF LogIn
  <2>2. CASE doctor' = [doctor EXCEPT !.at = "read"]
    BY <1>0, <1>6, <1>8, <2>2 DEF LogIn, Run
  <2>3. CASE LoginAccepted(doctor.target)
             /\ doctor' = [doctor EXCEPT !.at = "read", !.session = TRUE]
    BY <1>0, <1>6, <1>8, <2>3 DEF LogIn, Run
  <2> QED BY <1>8, <2>1, <2>2, <2>3 DEF LogIn
<1>9. CASE Read
  <2>1. CASE Turn(doctor.target, TRUE) BY <1>5, <1>9, <2>1, TurnKeeps DEF Read
  <2>2. CASE /\ Exposes(config[doctor.target], "endpoints")
             /\ Fits(doctor.target)
             /\ doctor.session \/ doctor.key = grant[doctor.target]
             /\ Turn(doctor.target, FALSE)
    <3>1. doctor.at = "read" /\ doctor.target \in Target BY <1>5, <1>9 DEF Read
    <3>2. grant[doctor.target] \in Key /\ None \notin Key
      BY <3>1, ConfigAssumption DEF TypeOK
    <3>3. doctor.key = grant[doctor.target] => Scheme(doctor.target) = "bearer"
      BY <3>1, <3>2 DEF DoctorInv
    <3>4. doctor.target \in touched \/ Sound(doctor.target)
      BY <2>2, <3>1, <3>2, <3>3 DEF DoctorInv, Sound
    <3> QED BY <2>2, <3>1, <3>4, TurnKeeps
  <2> QED BY <1>9, <2>1, <2>2 DEF Read
<1> QED BY <1>2, <1>3, <1>4, <1>7, <1>8, <1>9 DEF DoctorStep

-----------------------------------------------------------------------------
(* One login per target nobody raced for.                                  *)

(* A step that moves one call on and makes neither manager, connection nor session. *)
LEMMA SharedKept ==
  ASSUME TypeOK, SignedInv, SharedInv, NEW w \in Worker,
         UNCHANGED <<manager, pool, issued, overlapped>>,
         \A v \in Worker \ {w} : call'[v] = call[v],
         call[w].at # "idle", call[w].at # "load", call'[w].at # "load",
         call'[w].at \notin {"idle", "request"} => call'[w].asked = call[w].asked,
         call[w].at \notin {"request"} \/ call'[w].at = "idle",
         \A c \in Conn : headers'[c] # headers[c] => c = call[w].conn /\ headers'[c] # None,
         headers' # headers => call[w].at \in {"login", "cache"} /\ call'[w].at = "request",
         call[w].at = "cache" => headers'[call[w].conn] # None,
         call'[w].at = "build" =>
           pool[manager][Named(call[w].asked)] = None /\ call'[w].conn.manager = manager,
         call'[w].at \in {"session", "login", "cache"} =>
           \/ call'[w].conn = call[w].conn /\ call[w].at \in {"session", "login", "cache"}
           \/ call'[w].conn = pool[manager][Named(call[w].asked)],
         call'[w].at = "login" => headers'[call'[w].conn] = None
  PROVE  SharedInv'
<1>1. \A v \in Worker, x \in Target : On(v, x)' => On(v, x)
  BY DEF On, Named
<1>2. ManagerInv'
  <2> SUFFICES ASSUME overlapped # Target
               PROVE  /\ \A v \in Worker : call'[v].at = "load" => manager = None
                      /\ manager = None =>
                           /\ \A v \in Worker : call'[v].at \in {"idle", "load"}
                           /\ \A u, v \in Worker :
                                call'[u].at = "load" /\ call'[v].at = "load" => u = v
    BY DEF ManagerInv
  <2>1. manager # None BY DEF SharedInv, ManagerInv
  <2>2. \A v \in Worker : call'[v].at = "load" => call[v].at = "load" OBVIOUS
  <2> QED BY <2>1, <2>2 DEF SharedInv, ManagerInv
<1>3. LoneInv'
  <2> SUFFICES ASSUME NEW x \in Target \ overlapped
               PROVE  /\ \A u, v \in Worker : On(u, x)' /\ On(v, x)' => u = v
                      /\ \A v \in Worker : On(v, x)' =>
                           /\ call'[v].at = "build" =>
                                pool[manager][x] = None /\ call'[v].conn.manager = manager
                           /\ call'[v].at \in {"session", "login", "cache"} =>
                                call'[v].conn = pool[manager][x]
                           /\ call'[v].at = "login" => headers'[call'[v].conn] = None
    BY DEF LoneInv
  <2>1. \A u, v \in Worker : On(u, x)' /\ On(v, x)' => u = v
    BY <1>1 DEF SharedInv, LoneInv
  <2>2. ASSUME NEW v \in Worker, On(v, x)'
        PROVE  /\ call'[v].at = "build" =>
                    pool[manager][x] = None /\ call'[v].conn.manager = manager
               /\ call'[v].at \in {"session", "login", "cache"} =>
                    call'[v].conn = pool[manager][x]
               /\ call'[v].at = "login" => headers'[call'[v].conn] = None
    <3>1. On(v, x) BY <1>1, <2>2
    <3>2. CASE v = w
      <4>1. Named(call[w].asked) = x BY <3>1, <3>2 DEF On
      <4>2. call[w].at \in {"session", "login", "cache"} => call[w].conn = pool[manager][x]
        BY <3>1, <3>2 DEF SharedInv, LoneInv
      <4> QED BY <3>2, <4>1, <4>2
    <3>3. CASE v # w
      <4>1. call'[v] = call[v] BY <3>3
      <4>2. call[v].at = "login" => headers'[call[v].conn] = headers[call[v].conn]
        <5> SUFFICES ASSUME call[v].at = "login", headers'[call[v].conn] # headers[call[v].conn]
                     PROVE  FALSE
          OBVIOUS
        <5>1. call[v].conn = call[w].conn /\ call[w].at \in {"login", "cache"}
          BY DEF SignedInv, CallInv
        <5>2. On(w, x) BY <3>1, <5>1 DEF On, SignedInv, CallInv
        <5> QED BY <3>1, <3>3, <5>2 DEF SharedInv, LoneInv
      <4> QED BY <3>1, <4>1, <4>2 DEF SharedInv, LoneInv
    <3> QED BY <3>2, <3>3
  <2> QED BY <2>1, <2>2
<1>4. IssuedInv'
  <2> SUFFICES ASSUME NEW s \in issued, s.conn.target \notin overlapped
               PROVE  /\ manager \in Worker
                      /\ s.conn = pool[manager][s.conn.target]
                      /\ \/ headers'[s.conn] # None
                         \/ \E v \in Worker : call'[v].at = "cache" /\ call'[v].conn = s.conn
                      /\ \A t \in issued : t.conn.target = s.conn.target => t = s
    BY DEF IssuedInv
  <2>1. s.conn \in Conn BY DEF TypeOK, Session
  <2>2. CASE headers[s.conn] # None BY <2>1, <2>2 DEF SharedInv, IssuedInv
  <2>3. CASE \E v \in Worker : call[v].at = "cache" /\ call[v].conn = s.conn
    <3>1. PICK v \in Worker : call[v].at = "cache" /\ call[v].conn = s.conn BY <2>3
    <3>2. CASE v = w BY <3>1, <3>2 DEF SharedInv, IssuedInv
    <3>3. CASE v # w
      <4>1. call'[v] = call[v] BY <3>3
      <4> QED BY <3>1, <4>1 DEF SharedInv, IssuedInv
    <3> QED BY <3>2, <3>3
  <2> QED BY <2>2, <2>3 DEF SharedInv, IssuedInv
<1> QED BY <1>2, <1>3, <1>4 DEF SharedInv

LEMMA BeginShared ==
  ASSUME TypeOK, SignedInv, SharedInv, NEW w \in Worker, NEW asked \in Target \cup {None},
         Begin(w, asked)
  PROVE  SharedInv'
<1> DEFINE y == Named(asked)
<1>1. /\ call[w].at = "idle"
      /\ call'[w].at = (IF manager = None THEN "load" ELSE "lookup")
      /\ call'[w].asked = asked
      /\ \A v \in Worker \ {w} : call'[v] = call[v]
      /\ overlapped' = overlapped \cup Contested(y)
      /\ UNCHANGED <<manager, pool, headers, issued>>
  BY DEF Begin, TypeOK, Idle
<1>2. y \in Target /\ overlapped \subseteq overlapped' /\ overlapped' \subseteq Target
  BY <1>1, NamedIsTarget DEF Contested, TypeOK
<1>3. manager = None /\ overlapped' # Target => Connecting = {}
  BY <1>1, <1>2 DEF Contested
<1>4. y \notin overlapped' => \A v \in Worker : ~On(v, y)
  <2> SUFFICES ASSUME NEW v \in Worker, On(v, y) PROVE y \in overlapped'
    OBVIOUS
  <2>1. v \in Connecting BY DEF On, Connecting
  <2> QED BY <1>1, <1>2, <2>1 DEF Contested, On
<1>5. ManagerInv'
  <2> SUFFICES ASSUME overlapped' # Target
               PROVE  /\ \A v \in Worker : call'[v].at = "load" => manager = None
                      /\ manager = None =>
                           /\ \A v \in Worker : call'[v].at \in {"idle", "load"}
                           /\ \A u, v \in Worker :
                                call'[u].at = "load" /\ call'[v].at = "load" => u = v
    BY <1>1 DEF ManagerInv
  <2>1. overlapped # Target BY <1>2
  <2>2. manager = None => \A v \in Worker : call[v].at # "load"
    BY <1>3 DEF Connecting
  <2> QED BY <1>1, <2>1, <2>2 DEF SharedInv, ManagerInv
<1>6. LoneInv'
  <2> SUFFICES ASSUME NEW x \in Target \ overlapped'
               PROVE  /\ \A u, v \in Worker : On(u, x)' /\ On(v, x)' => u = v
                      /\ \A v \in Worker : On(v, x)' =>
                           /\ call'[v].at = "build" =>
                                pool[manager][x] = None /\ call'[v].conn.manager = manager
                           /\ call'[v].at \in {"session", "login", "cache"} =>
                                call'[v].conn = pool[manager][x]
                           /\ call'[v].at = "login" => headers[call'[v].conn] = None
    BY <1>1 DEF LoneInv
  <2>1. x \in Target \ overlapped BY <1>2
  <2>2. \A v \in Worker \ {w} : On(v, x)' => On(v, x) BY <1>1 DEF On, Named
  <2>3. On(w, x)' => x = y BY <1>1 DEF On, Named
  <2>4. \A u, v \in Worker : On(u, x)' /\ On(v, x)' => u = v
    BY <1>4, <2>1, <2>2, <2>3 DEF SharedInv, LoneInv
  <2>5. ASSUME NEW v \in Worker, On(v, x)'
        PROVE  /\ call'[v].at = "build" =>
                    pool[manager][x] = None /\ call'[v].conn.manager = manager
               /\ call'[v].at \in {"session", "login", "cache"} =>
                    call'[v].conn = pool[manager][x]
               /\ call'[v].at = "login" => headers[call'[v].conn] = None
    BY <1>1, <2>1, <2>2, <2>5 DEF SharedInv, LoneInv
  <2> QED BY <2>4, <2>5
<1>7. IssuedInv'
  <2> SUFFICES ASSUME NEW s \in issued, s.conn.target \notin overlapped'
               PROVE  /\ manager \in Worker
                      /\ s.conn = pool[manager][s.conn.target]
                      /\ \/ headers[s.conn] # None
                         \/ \E v \in Worker : call'[v].at = "cache" /\ call'[v].conn = s.conn
                      /\ \A t \in issued : t.conn.target = s.conn.target => t = s
    BY <1>1 DEF IssuedInv
  <2>1. s.conn.target \notin overlapped BY <1>2
  <2>2. \A v \in Worker : call[v].at = "cache" => call'[v] = call[v] BY <1>1
  <2> QED BY <2>1, <2>2 DEF SharedInv, IssuedInv
<1> QED BY <1>5, <1>6, <1>7 DEF SharedInv

LEMMA LoadShared ==
  ASSUME TypeOK, SignedInv, SharedInv, NEW w \in Worker, Load(w)
  PROVE  SharedInv'
<1>1. /\ call[w].at = "load"
      /\ \A v \in Worker \ {w} : call'[v] = call[v]
      /\ UNCHANGED <<pool, headers, issued, overlapped>>
      /\ \/ manager' = manager /\ call'[w].at = "idle"
         \/ manager' = w /\ call'[w].at = "lookup"
  BY Moving, Ending DEF Load, Stages
<1>2. CASE manager' = manager /\ call'[w].at = "idle"
  <2>1. \A v \in Worker, x \in Target : On(v, x)' => On(v, x) /\ v # w
    BY <1>1, <1>2 DEF On, Named
  <2>2. ManagerInv' BY <1>1, <1>2 DEF SharedInv, ManagerInv
  <2>3. LoneInv' BY <1>1, <1>2, <2>1 DEF SharedInv, LoneInv
  <2>4. \A v \in Worker : call[v].at = "cache" => call'[v] = call[v] BY <1>1
  <2>5. IssuedInv' BY <1>1, <1>2, <2>4 DEF SharedInv, IssuedInv
  <2> QED BY <2>2, <2>3, <2>5 DEF SharedInv
<1>3. CASE manager' = w /\ call'[w].at = "lookup" /\ overlapped = Target
  <2>1. \A s \in issued : s.conn.target \in Target BY DEF TypeOK, Session, Conn
  <2> QED BY <1>1, <1>3, <2>1 DEF SharedInv, ManagerInv, LoneInv, IssuedInv
<1>4. CASE manager' = w /\ call'[w].at = "lookup" /\ overlapped # Target
  <2>1. manager = None /\ \A v \in Worker \ {w} : call[v].at = "idle"
    BY <1>1, <1>4 DEF SharedInv, ManagerInv
  <2>2. w # None BY ConfigAssumption
  <2>3. ManagerInv' BY <1>1, <1>4, <2>1, <2>2 DEF ManagerInv
  <2>4. LoneInv' BY <1>1, <1>4, <2>1 DEF LoneInv, On
  <2>5. \A s \in issued : s.conn.target \in overlapped
    BY <2>1, ConfigAssumption DEF SharedInv, IssuedInv
  <2>6. IssuedInv' BY <1>1, <2>5 DEF IssuedInv
  <2> QED BY <2>3, <2>4, <2>6 DEF SharedInv
<1> QED BY <1>1, <1>2, <1>3, <1>4

LEMMA BuildShared ==
  ASSUME TypeOK, SignedInv, SharedInv, NEW w \in Worker, Build(w)
  PROVE  SharedInv'
<1> DEFINE c == call[w].conn
           y == Named(call[w].asked)
<1>1. /\ call[w].at = "build" /\ c \in Conn /\ c.target = y /\ y \in Target
      /\ c.manager \in Worker /\ y # None
      /\ UNCHANGED <<manager, headers, issued, overlapped>>
  BY NamedIsTarget, ConfigAssumption DEF Build, SignedInv, CallInv, TypeOK, Conn
<1>2. \/ pool' = [pool EXCEPT ![c.manager][y] = c] /\ Goto(w, "session")
      \/ pool' = pool /\ Ends(w)
  BY DEF Build, PoolKey
<1>3. CASE pool' = pool /\ Ends(w)
  <2>1. call'[w].at = "idle" /\ \A v \in Worker \ {w} : call'[v] = call[v]
    BY <1>3, Ending
  <2> QED BY <1>1, <1>3, <2>1, SharedKept
<1>4. CASE pool' = [pool EXCEPT ![c.manager] = [@ EXCEPT ![y] = c]] /\ Goto(w, "session")
  <2>1. /\ call'[w].at = "session" /\ call'[w].asked = call[w].asked /\ call'[w].conn = c
        /\ \A v \in Worker \ {w} : call'[v] = call[v]
    BY <1>4, Moving DEF Stages
  <2>2. \A m \in Worker, x \in Target \cup {None} :
          pool'[m][x] = IF m = c.manager /\ x = y THEN c ELSE pool[m][x]
    <3> HIDE DEF c, y
    <3>1. pool \in [Worker -> [Target \cup {None} -> Conn \cup {None}]] BY DEF TypeOK
    <3> QED BY <1>1, <1>4, <3>1
  <2>3. overlapped # Target => manager \in Worker
    BY <1>1 DEF SharedInv, ManagerInv, TypeOK
  <2>4. \A v \in Worker, x \in Target : On(v, x)' <=> On(v, x)
    BY <1>1, <2>1 DEF On, Named
  <2>5. On(w, y) BY <1>1 DEF On
  <2>6. ManagerInv' BY <1>1, <2>1 DEF SharedInv, ManagerInv
  <2>7. LoneInv'
    <3> SUFFICES ASSUME NEW x \in Target \ overlapped
                 PROVE  /\ \A u, v \in Worker : On(u, x)' /\ On(v, x)' => u = v
                        /\ \A v \in Worker : On(v, x)' =>
                             /\ call'[v].at = "build" =>
                                  pool'[manager][x] = None /\ call'[v].conn.manager = manager
                             /\ call'[v].at \in {"session", "login", "cache"} =>
                                  call'[v].conn = pool'[manager][x]
                             /\ call'[v].at = "login" => headers[call'[v].conn] = None
      BY <1>1 DEF LoneInv
    <3>1. \A u, v \in Worker : On(u, x)' /\ On(v, x)' => u = v
      BY <2>4 DEF SharedInv, LoneInv
    <3>2. ASSUME NEW v \in Worker, On(v, x)'
          PROVE  /\ call'[v].at = "build" =>
                      pool'[manager][x] = None /\ call'[v].conn.manager = manager
                 /\ call'[v].at \in {"session", "login", "cache"} =>
                      call'[v].conn = pool'[manager][x]
                 /\ call'[v].at = "login" => headers[call'[v].conn] = None
      <4>1. On(v, x) /\ manager \in Worker BY <2>3, <2>4, <3>2
      <4>2. CASE v = w
        <5>1. x = y BY <4>1, <4>2 DEF On
        <5>2. c.manager = manager BY <1>1, <4>1, <4>2 DEF SharedInv, LoneInv
        <5> QED BY <2>1, <2>2, <4>1, <4>2, <5>1, <5>2
      <4>3. CASE v # w
        <5>1. call'[v] = call[v] BY <2>1, <4>3
        <5>2. x # y BY <2>5, <4>1, <4>3 DEF SharedInv, LoneInv
        <5>3. pool'[manager][x] = pool[manager][x] BY <2>2, <4>1, <5>2
        <5> QED BY <4>1, <5>1, <5>3 DEF SharedInv, LoneInv
      <4> QED BY <4>2, <4>3
    <3> QED BY <3>1, <3>2
  <2>8. IssuedInv'
    <3> SUFFICES ASSUME NEW s \in issued, s.conn.target \notin overlapped
                 PROVE  /\ manager \in Worker
                        /\ s.conn = pool'[manager][s.conn.target]
                        /\ \/ headers[s.conn] # None
                           \/ \E v \in Worker : call'[v].at = "cache" /\ call'[v].conn = s.conn
                        /\ \A t \in issued : t.conn.target = s.conn.target => t = s
      BY <1>1 DEF IssuedInv
    <3>1. s.conn \in Conn /\ s.conn.target \in Target BY DEF TypeOK, Session, Conn
    <3>2. manager \in Worker /\ s.conn = pool[manager][s.conn.target]
      BY DEF SharedInv, IssuedInv
    <3>3. s.conn.target # y
      BY <1>1, <2>5, <3>1, <3>2, ConfigAssumption DEF SharedInv, LoneInv
    <3>4. pool'[manager][s.conn.target] = pool[manager][s.conn.target]
      BY <2>2, <3>1, <3>2, <3>3
    <3>5. \A v \in Worker : call[v].at = "cache" => call'[v] = call[v] BY <1>1, <2>1
    <3> QED BY <3>2, <3>4, <3>5 DEF SharedInv, IssuedInv
  <2> QED BY <2>6, <2>7, <2>8 DEF SharedInv
<1> QED BY <1>2, <1>3, <1>4

(* A login brings the one session of its connection: there was none, and no one else is at it. *)
LEMMA SessionShared ==
  ASSUME TypeOK, SignedInv, SharedInv, NEW w \in Worker, call[w].at = "login",
         Goto(w, "cache"), issued' = issued \cup {[conn |-> call[w].conn, login |-> w]},
         UNCHANGED <<manager, pool, headers, overlapped>>
  PROVE  SharedInv'
<1> DEFINE c == call[w].conn
           s == [conn |-> c, login |-> w]
<1>1. /\ c \in Conn /\ c.target = Named(call[w].asked) /\ c.target \in Target
  BY NamedIsTarget DEF SignedInv, CallInv, TypeOK
<1>2. /\ call'[w].at = "cache" /\ call'[w].asked = call[w].asked /\ call'[w].conn = c
      /\ \A v \in Worker \ {w} : call'[v] = call[v]
  BY Moving DEF Stages
<1>3. \A v \in Worker, x \in Target : On(v, x)' <=> On(v, x)
  BY <1>2 DEF On, Named
<1>4. On(w, c.target) BY <1>1 DEF On
<1>5. c.target \notin overlapped =>
        /\ manager \in Worker
        /\ c = pool[manager][c.target]
        /\ headers[c] = None
  BY <1>1, <1>4 DEF SharedInv, ManagerInv, LoneInv, TypeOK
<1>6. ASSUME c.target \notin overlapped, NEW t \in issued, t.conn.target = c.target
      PROVE  FALSE
  <2>1. t.conn = c BY <1>5, <1>6 DEF SharedInv, IssuedInv
  <2>2. PICK v \in Worker : call[v].at = "cache" /\ call[v].conn = c
    BY <1>5, <1>6, <2>1 DEF SharedInv, IssuedInv
  <2>3. On(v, c.target) BY <2>2 DEF On, SignedInv, CallInv
  <2>4. v = w BY <1>1, <1>4, <1>6, <2>3 DEF SharedInv, LoneInv
  <2> QED BY <2>2, <2>4
<1>7. ManagerInv' BY <1>2 DEF SharedInv, ManagerInv
<1>8. LoneInv'
  <2> SUFFICES ASSUME NEW x \in Target \ overlapped
               PROVE  /\ \A u, v \in Worker : On(u, x)' /\ On(v, x)' => u = v
                      /\ \A v \in Worker : On(v, x)' =>
                           /\ call'[v].at = "build" =>
                                pool[manager][x] = None /\ call'[v].conn.manager = manager
                           /\ call'[v].at \in {"session", "login", "cache"} =>
                                call'[v].conn = pool[manager][x]
                           /\ call'[v].at = "login" => headers[call'[v].conn] = None
    BY DEF LoneInv
  <2>1. \A u, v \in Worker : On(u, x)' /\ On(v, x)' => u = v
    BY <1>3 DEF SharedInv, LoneInv
  <2>2. ASSUME NEW v \in Worker, On(v, x)'
        PROVE  /\ call'[v].at = "build" =>
                    pool[manager][x] = None /\ call'[v].conn.manager = manager
               /\ call'[v].at \in {"session", "login", "cache"} =>
                    call'[v].conn = pool[manager][x]
               /\ call'[v].at = "login" => headers[call'[v].conn] = None
    <3>1. On(v, x) BY <1>3, <2>2
    <3>2. CASE v = w
      <4>1. c = pool[manager][x] BY <3>1, <3>2 DEF SharedInv, LoneInv
      <4> QED BY <1>2, <3>2, <4>1
    <3>3. CASE v # w BY <1>2, <3>1, <3>3 DEF SharedInv, LoneInv
    <3> QED BY <3>2, <3>3
  <2> QED BY <2>1, <2>2
<1>9. IssuedInv'
  <2> SUFFICES ASSUME NEW r \in issued', r.conn.target \notin overlapped
               PROVE  /\ manager \in Worker
                      /\ r.conn = pool[manager][r.conn.target]
                      /\ \/ headers[r.conn] # None
                         \/ \E v \in Worker : call'[v].at = "cache" /\ call'[v].conn = r.conn
                      /\ \A t \in issued' : t.conn.target = r.conn.target => t = r
    BY DEF IssuedInv
  <2>1. CASE r = s BY <1>2, <1>5, <1>6, <2>1
  <2>2. CASE r \in issued
    <3>1. s.conn.target # r.conn.target BY <1>6, <2>2
    <3>2. \A v \in Worker : call[v].at = "cache" => call'[v] = call[v] BY <1>2
    <3> QED BY <2>2, <3>1, <3>2 DEF SharedInv, IssuedInv
  <2> QED BY <2>1, <2>2
<1> QED BY <1>7, <1>8, <1>9 DEF SharedInv

LEMMA ServerShared ==
  ASSUME TypeOK, SignedInv, SharedInv, NEW w \in Worker, ServerStep(w)
  PROVE  SharedInv'
<1>0. call \in [Worker -> Call] BY DEF TypeOK, Call, Stages
<1>1. CASE Lookup(w)
  <2>1. CASE pool[manager][Named(call[w].asked)] # None
    <3>1. /\ call' = [call EXCEPT ![w] = [@ EXCEPT !.at = "session",
                        !.conn = pool[manager][Named(call[w].asked)]]]
          /\ call[w].at = "lookup" /\ UNCHANGED <<manager, pool, headers, issued, overlapped>>
      BY <1>0, <1>1, <2>1 DEF Lookup, PoolKey, Call
    <3>2. /\ call'[w].at = "session" /\ call'[w].asked = call[w].asked
          /\ call'[w].conn = pool[manager][Named(call[w].asked)]
          /\ \A v \in Worker \ {w} : call'[v] = call[v]
      BY <1>0, <3>1 DEF Call
    <3> QED BY <3>1, <3>2, SharedKept
  <2>2. CASE pool[manager][Named(call[w].asked)] = None
    <3> DEFINE made == [manager |-> manager, target |-> Named(call[w].asked), maker |-> w]
    <3>1. /\ call' = [call EXCEPT ![w] = [@ EXCEPT !.at = "build", !.conn = made]]
          /\ call[w].at = "lookup" /\ UNCHANGED <<manager, pool, headers, issued, overlapped>>
      BY <1>0, <1>1, <2>2 DEF Lookup, PoolKey, Call
    <3>2. /\ call'[w].at = "build" /\ call'[w].asked = call[w].asked
          /\ call'[w].conn = made
          /\ \A v \in Worker \ {w} : call'[v] = call[v]
      BY <1>0, <3>1 DEF Call
    <3> QED BY <2>2, <3>1, <3>2, SharedKept
  <2> QED BY <2>1, <2>2
<1>2. CASE EnsureSession(w)
  <2>1. /\ call[w].at = "session" /\ UNCHANGED <<manager, pool, headers, issued, overlapped>>
        /\ call'[w].at \in {"login", "request", "idle"}
        /\ call'[w].at # "idle" => /\ call'[w].conn = call[w].conn
                                   /\ call'[w].asked = call[w].asked
        /\ call'[w].at = "login" => headers[call[w].conn] = None
        /\ \A v \in Worker \ {w} : call'[v] = call[v]
    BY <1>2, Moving, Ending DEF EnsureSession, Stages
  <2> QED BY <2>1, SharedKept
<1>3. CASE Authenticate(w)
  <2>1. call[w].at = "login" /\ UNCHANGED <<manager, pool, overlapped>>
        /\ call[w].conn \in Conn
    BY <1>3 DEF Authenticate, SignedInv, CallInv
  <2>2. CASE /\ headers' = [headers EXCEPT ![call[w].conn] = NoHeaders]
             /\ Goto(w, "request") /\ UNCHANGED issued
    <3>1. /\ call'[w].at = "request"
          /\ \A v \in Worker \ {w} : call'[v] = call[v]
      BY <2>2, Moving DEF Stages
    <3>2. \A c \in Conn : headers'[c] # headers[c] => c = call[w].conn /\ headers'[c] # None
      BY <2>1, <2>2, ConfigAssumption DEF TypeOK
    <3> QED BY <2>1, <2>2, <3>1, <3>2, SharedKept
  <2>3. CASE /\ issued' = issued \cup {[conn |-> call[w].conn, login |-> w]}
             /\ Goto(w, "cache") /\ UNCHANGED headers
    BY <2>1, <2>3, SessionShared
  <2>4. CASE Ends(w) /\ UNCHANGED <<headers, issued>>
    <3>1. call'[w].at = "idle" /\ \A v \in Worker \ {w} : call'[v] = call[v]
      BY <2>4, Ending
    <3> QED BY <2>1, <2>4, <3>1, SharedKept
  <2> QED BY <1>3, <2>2, <2>3, <2>4 DEF Authenticate
<1>4. CASE Cache(w)
  <2>1. /\ call[w].at = "cache" /\ call[w].conn \in Conn
        /\ headers' = [headers EXCEPT ![call[w].conn] = w]
        /\ UNCHANGED <<manager, pool, issued, overlapped>>
    BY <1>4 DEF Cache, SignedInv, CallInv
  <2>2. call'[w].at = "request" /\ \A v \in Worker \ {w} : call'[v] = call[v]
    BY <1>4, Moving DEF Cache, Stages
  <2>3. /\ \A c \in Conn : headers'[c] # headers[c] => c = call[w].conn /\ headers'[c] # None
        /\ headers'[call[w].conn] # None
    BY <2>1, ConfigAssumption DEF TypeOK
  <2> QED BY <2>1, <2>2, <2>3, SharedKept
<1>5. CASE Request(w)
  <2>1. call'[w].at = "idle" /\ \A v \in Worker \ {w} : call'[v] = call[v]
    BY <1>5, Ending DEF Request
  <2> QED BY <1>5, <2>1, SharedKept DEF Request
<1> QED
  BY <1>1, <1>2, <1>3, <1>4, <1>5, BeginShared, LoadShared, BuildShared DEF ServerStep

LEMMA SharedElsewhere ==
  ASSUME SharedInv, UNCHANGED server
  PROVE  SharedInv'
BY DEF SharedInv, ManagerInv, LoneInv, IssuedInv, On, Named, server

-----------------------------------------------------------------------------
IndInv == TypeOK /\ SignedInv /\ SharedInv /\ DoctorInv

LEMMA InitHolds == Init => IndInv
<1> SUFFICES ASSUME Init PROVE IndInv
  OBVIOUS
<1>1. TypeOK
  BY ConfigAssumption DEF Init, TypeOK, Idle, Off, NoHeaders
<1>2. \A w \in Worker : call[w].at = "idle" BY DEF Init, Idle
<1>3. SignedInv
  BY <1>2 DEF Init, SignedInv, CallInv, PoolInv, HeadersInv, StageInv
<1>4. SharedInv
  BY <1>2 DEF Init, SharedInv, ManagerInv, LoneInv, IssuedInv, On
<1>5. DoctorInv BY DEF Init, DoctorInv, Off
<1> QED BY <1>1, <1>3, <1>4, <1>5 DEF IndInv

LEMMA StepHolds == IndInv /\ [Next]_vars => IndInv'
<1> SUFFICES ASSUME IndInv, [Next]_vars PROVE IndInv'
  OBVIOUS
<1> USE DEF IndInv
<1>1. ASSUME NEW w \in Worker, ServerStep(w), Frame PROVE IndInv'
  BY <1>1, ServerSigned, ServerShared, DoctorElsewhere DEF Frame
<1>2. CASE DoctorStep /\ UNCHANGED <<config, product, credentials, server, touched>>
  <2>1. TypeOK' BY <1>2, DoctorTyped DEF TypeOK, Run, server, credentials
  <2> QED BY <1>2, <2>1, DoctorAdvances, SignedElsewhere, SharedElsewhere
<1>3. ASSUME NEW x \in Target, Change(x), UNCHANGED <<config, product, server, doctor>>
      PROVE  IndInv'
  BY <1>3, CredentialsTyped, DoctorDisturbed, SignedElsewhere, SharedElsewhere
<1>4. CASE UNCHANGED vars
  <2>1. UNCHANGED <<config, product, credentials, server, doctor, touched>> BY <1>4 DEF vars
  <2>2. TypeOK' BY <2>1 DEF TypeOK, server, credentials
  <2> QED BY <2>1, <2>2, SignedElsewhere, SharedElsewhere, DoctorElsewhere
<1> QED BY <1>1, <1>2, <1>3, <1>4 DEF Next, Frame

THEOREM Inductive == Spec => []IndInv
BY InitHolds, StepHolds, PTL DEF Spec

(* Every reachable state is well typed. *)
THEOREM TypeCorrect == Spec => []TypeOK
<1>1. IndInv => TypeOK BY DEF IndInv
<1> QED BY <1>1, Inductive, PTL

(***************************************************************************)
(* Whatever the threads do to each other's managers, connections and       *)
(* sessions, a request goes to the target its call meant, under headers    *)
(* that connection was issued (_ensure_session, ImiSessionAuth).           *)
(***************************************************************************)
THEOREM RequestsSigned == Spec => []RequestsAreSigned
<1>1. IndInv => RequestsAreSigned
  BY DEF IndInv, SignedInv, CallInv, HeadersInv, StageInv, RequestsAreSigned
<1> QED BY <1>1, Inductive, PTL

(***************************************************************************)
(* A target whose connecting calls never overlapped costs one login for    *)
(* the life of the process: what ConnectionManager and _ensure_session     *)
(* promise without a lock.                                                 *)
(***************************************************************************)
THEOREM SessionsShared == Spec => []SessionIsShared
<1>1. ASSUME IndInv, NEW x \in Target \ overlapped
      PROVE  Cardinality({s \in issued : s.conn.target = x}) <= 1
  <2> DEFINE S == {s \in issued : s.conn.target = x}
  <2>1. CASE S = {} BY <2>1, FS_EmptySet
  <2>2. CASE S # {}
    <3>1. PICK s : s \in S BY <2>2
    <3>2. S = {s}
      <4>1. \A t \in S : t = s BY <1>1, <3>1 DEF IndInv, SharedInv, IssuedInv
      <4> QED BY <3>1, <4>1
    <3>3. Cardinality({s}) = 1 BY FS_Singleton
    <3> QED BY <3>2, <3>3
  <2> QED BY <2>1, <2>2
<1>2. IndInv => SessionIsShared BY <1>1 DEF SessionIsShared
<1> QED BY <1>2, Inductive, PTL

(***************************************************************************)
(* A clean report of the doctor is earned for every target whose           *)
(* credentials stayed as they were while it ran (_check_target).           *)
(***************************************************************************)
THEOREM GreenEarned == Spec => []GreenIsEarned
<1>1. IndInv => GreenIsEarned
  BY DEF IndInv, DoctorInv, Sound, GreenIsEarned
<1> QED BY <1>1, Inductive, PTL

===============================================================================
