-------------------------------- MODULE Dialect --------------------------------
(***************************************************************************)
(* What a target's entry in config.yaml means (dialect.py, config.py): the *)
(* shape of its server's API, from a preset and what the entry overrides.  *)
(***************************************************************************)

Resource == {"endpoints", "endpoint", "sessions", "version", "profile", "reboot"}

(* The port and API path a server listens on, by the preset whose they are. *)
Transport == {"generic", "igel-ums"}

(* Authentication schemes: auth.STRATEGIES. *)
Strategy == {"bearer", "imi-session"}

PRESETS ==
  [preset \in {"generic", "igel-ums"} |->
     IF preset = "generic"
       THEN [auth |-> "bearer", transport |-> "generic", paths |-> Resource]
       ELSE [auth |-> "imi-session", transport |-> "igel-ums",
             paths |-> Resource \ {"sessions"}]]

(***************************************************************************)
(* An entry: the preset its dialect block names, the scheme and the paths  *)
(* the block states or blanks, and the transport and account of the        *)
(* target.  "unset" is a key that is not there.                            *)
(***************************************************************************)
Entry == [preset : {"unset", "generic", "igel-ums", "unknown"},
          auth : Strategy \cup {"unset", "unknown"},
          stated : SUBSET Resource, blanked : SUBSET Resource,
          transport : Transport \cup {"unset"},
          username : BOOLEAN]

(* A block that names a preset nobody defined raises, wherever it is resolved. *)
Resolvable(entry) == entry.preset # "unknown"

BaseFor(entry) == PRESETS[IF entry.preset = "unset" THEN "generic" ELSE entry.preset]

Resolve(entry) ==
  LET base == BaseFor(entry)
  IN  [auth  |-> IF entry.auth = "unset" THEN base.auth ELSE entry.auth,
       paths |-> (base.paths \cup entry.stated) \ entry.blanked,
       transport |-> base.transport]

(* auth.for_dialect finds a strategy of that name. *)
Implemented(entry) == Resolve(entry).auth \in Strategy

(* Dialect.path_for has a path to give; else it raises UnsupportedResource. *)
Exposes(entry, resource) == resource \in Resolve(entry).paths

(* TargetConfig.__post_init__: the dialect's transport where the target states none. *)
BaseUrl(entry) ==
  IF entry.transport = "unset" THEN Resolve(entry).transport ELSE entry.transport

================================================================================
