------------------------- MODULE JsonEnforcerCheck -------------------------
(***************************************************************************)
(* A client of JSON mode.  It starts from some requests, gets a few things *)
(* wrong, then repairs what the answers complain about, one at a time.     *)
(***************************************************************************)
EXTENDS JsonEnforcer

CONSTANTS
  Name,    \* the names of fields
  Seeds,   \* the inputs the client starts from
  MaxEdits \* bound: mistakes

ASSUME NameAssumption ==
  {"op", "session_id", "event_id", "value", "action", "state", "metadata", "type",
   "name", "interaction", "content", "goal", "status", "context", "provider",
   "model", "timestamp", "trace_id", "extra"} \subseteq Name

VARIABLES input, edits

vars == <<input, edits>>

(***************************************************************************)
(* The contract, as a table: what stands at each required path.  There are *)
(* no other paths, except below context, where anything may stand.         *)
(***************************************************************************)
Context == <<"value", "state", "context">>
ObjectPaths ==
  {<<>>, <<"value">>, <<"value", "action">>, <<"value", "action", "interaction">>,
   <<"value", "state">>, Context, <<"value", "metadata">>}
TextPaths ==
  {<<"session_id">>, <<"event_id">>, <<"value", "action", "name">>,
   <<"value", "action", "interaction", "content">>,
   <<"value", "state", "goal">>, <<"value", "state", "status">>,
   <<"value", "metadata", "provider">>, <<"value", "metadata", "model">>,
   <<"value", "metadata", "timestamp">>, <<"value", "metadata", "trace_id">>}

Contract ==
  [path \in ObjectPaths \cup TextPaths \cup {<<"op">>, <<"value", "action", "type">>} |->
     IF path \in ObjectPaths THEN {Object}
     ELSE IF path \in TextPaths THEN Texts
     ELSE IF path = <<"op">> THEN SetOperations ELSE MessageTypes]

IsOpen(path) == Len(path) > 3 /\ SubSeq(path, 1, 3) = Context
Allowed(path) == path \in DOMAIN Contract \/ IsOpen(path)

Conforms(request) ==
  /\ \A path \in DOMAIN Contract :
       path \in DOMAIN request /\ request[path] \in Contract[path]
  /\ \A path \in DOMAIN request : Allowed(path)

\* A request that conforms to the contract.
AnyOf(wanted) == CHOOSE x \in wanted : TRUE
Minimal == [path \in DOMAIN Contract |-> AnyOf(Contract[path])]

----------------------------------------------------------------------------
IsBelow(path, other) ==
  Len(path) >= Len(other) /\ SubSeq(path, 1, Len(other)) = other

Without(request, path) ==
  [p \in {q \in DOMAIN request : ~IsBelow(q, path)} |-> request[p]]
With(request, path, x) ==
  [p \in {path} \cup DOMAIN Without(request, path) |->
     IF p = path THEN x ELSE request[p]]

Parent(path) == SubSeq(path, 1, Len(path) - 1)

\* Every field of a request stands in an object.
HasPlace(request, path) ==
  path = <<>> \/ (Parent(path) \in DOMAIN request /\ request[Parent(path)] = Object)

IsRequest(request) ==
  /\ <<>> \in DOMAIN request /\ DOMAIN request \subseteq Seq(Name)
  /\ \A path \in DOMAIN request :
       HasPlace(request, path) /\ request[path] \in Texts \cup {Object, Other}

IsParsed(text) == parse(text) = "parsed"

ASSUME SeedsAssumption == \A seed \in Seeds : IsParsed(seed) => IsRequest(seed)

\* Where a field may be put: the paths of the contract, and others.
Places(request) ==
  {path \in DOMAIN Contract \cup {Append(p, "extra") : p \in DOMAIN Contract} :
     HasPlace(request, path)}

Init == input \in Seeds /\ edits = 0

Mistake ==
  /\ edits < MaxEdits /\ edits' = edits + 1
  /\ \/ input' \in {Unparsable, Unprintable, OutOfRange}
     \/ /\ IsParsed(input)
        /\ \/ \E path \in DOMAIN input \ {<<>>} : input' = Without(input, path)
           \/ \E path \in Places(input), x \in {Object, Other, AnyOf(Texts \ SetOperations)} :
                input' = With(input, path, x)

\* The client does to the request what the error message asks for; if there is
\* none, it sends another request.
Repaired(request, error) ==
  IF error.rule = "unknown field below"
  THEN {Without(request, path) :
          path \in {p \in DOMAIN request : p # <<>> /\ Parent(p) = error.path
                                             /\ ~Allowed(p)}}
  ELSE {With(request, error.path, AnyOf(Contract[error.path]))}

Repair ==
  /\ ~Respond(input).ok
  /\ IF IsParsed(input)
     THEN input' \in Repaired(input, Respond(input).message)
     ELSE input' = Minimal
  /\ UNCHANGED edits

Next == Mistake \/ Repair

Spec == Init /\ [][Next]_vars /\ WF_vars(Repair)

----------------------------------------------------------------------------
\* Following the errors never builds a document that is no JSON: what an error
\* asks for has an object to stand in (every validator checks an object before
\* its fields).
InputIsARequest == IsParsed(input) => IsRequest(input)

\* JSON mode accepts a request (and exits with 0) just when every required
\* field is there with the right type and no other field is; the direct entry
\* for set actions accepts the same requests (ValidateRequest and
\* ValidateSetActionRequest against the table).
AcceptsTheContract ==
  LET conforms == IsParsed(input) /\ Conforms(input)
  IN  /\ Respond(input).ok = conforms
      /\ (Respond(input).status = 0) = conforms
      /\ IsParsed(input) => ValidateSetActionRequest(input).ok = conforms

\* A rejected request has the defect that its error names, at the path it names
\* (the first failing rule decides, and no rule looks at what an earlier one
\* has not secured).
ErrorNamesADefect ==
  IsParsed(input) /\ ~Respond(input).ok =>
    LET error == Respond(input).message
        path == error.path
    IN  CASE error.rule = "missing" ->
               path \in DOMAIN Contract \ DOMAIN input /\ path \in Places(input)
          [] error.rule = "type" ->
               /\ path \in DOMAIN input
               /\ IF Contract[path] = {Object} THEN input[path] # Object
                  ELSE input[path] \notin Texts
          [] error.rule = "value" ->
               input[path] \in Texts \ Contract[path]
          [] OTHER -> \E p \in DOMAIN input :
                        p # <<>> /\ Parent(p) = path /\ ~Allowed(p)

\* Whoever follows the errors gets the request accepted: no repair calls for the
\* mistake that another one repaired, and none is asked for that does not help.
RepairsSucceed == <>[](Respond(input).ok)

\* README.md:169 to 216 give set, get, delete and set_action requests as the
\* canonical ones, and README.md:359 sends such a set to JSON mode: the enforcer
\* should accept them.
CanonicalOperationsAccepted == edits = 0 => Respond(input).ok
=============================================================================
