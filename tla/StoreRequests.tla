--------------------------- MODULE StoreRequests ---------------------------
(***************************************************************************)
(* What a guest's lower store may ask of the proxy: the op allowlist of    *)
(* src/src/proxy/ops.rs, with the ops the session treats alike put into    *)
(* one kind.                                                               *)
(*   isvalid     IsValidPath, intercepted                                  *)
(*   query       QueryReferrers, QueryPathInfo, QueryPathFromHashPart,     *)
(*               QueryValidDerivers, QueryRealisation: one argument block, *)
(*               relayed verbatim                                          *)
(*   queryvalid  QueryValidPaths: a list, then the substitute flag         *)
(*   setoptions  SetOptions, swallowed                                     *)
(*   denied      every other op word                                       *)
(***************************************************************************)
CONSTANTS
    Paths,     \* store paths
    Manifest   \* the run-roots manifest, empty when none is configured

ASSUME ManifestAssumption == Manifest \subseteq Paths

Kinds == {"isvalid", "query", "queryvalid", "setoptions", "denied"}

\* Op::allowed finds the op word in the allowlist.
Allowed(kind) == kind \in Kinds \ {"denied"}

\* The allowed kinds that reach the host daemon.
Forwarded(kind) == kind \in {"isvalid", "query", "queryvalid"}

\* A request: its argument block decodes ("good") or trips a cap or the
\* padding check ("bad"); flag is the substitute flag of a queryvalid.
AllRequests ==
    [kind : Kinds, path : Paths, flag : {"0", "1"}, form : {"good", "bad"}]

\* copy_args succeeds on the request's arguments.
ArgsAccepted(r) == r.form = "good" /\ (r.kind = "queryvalid" => r.flag = "0")

\* A request the host daemon may come to execute.
ReachesHost(r) == Forwarded(r.kind) /\ ArgsAccepted(r)
=============================================================================
