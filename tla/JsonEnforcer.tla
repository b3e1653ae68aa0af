---------------------------- MODULE JsonEnforcer ----------------------------
(***************************************************************************)
(* Validation of a request in JSON mode.  A parsed request is a function   *)
(* from the paths that are present to what stands there: Object, Other (a  *)
(* number, an array, ...) or a text; the root is the empty path.  An error *)
(* names its rule and the path it speaks of; of several unknown children   *)
(* it is the object that is named, not the child that comes first.         *)
(***************************************************************************)
EXTENDS Naturals, Sequences

CONSTANTS
  Texts,     \* the strings in a request
  Object, Other, \* what is no string
  Unparsable,    \* input that is no JSON
  Unprintable,   \* no JSON either, and what is wrong with it is no UTF-8
  OutOfRange     \* JSON with a number that no double holds

SetOperations == {"log_step", "set_state"}
MessageTypes == {"user_message", "assistant_message"}

ASSUME JsonAssumption ==
  /\ SetOperations \cup MessageTypes \subseteq Texts
  /\ Object # Other /\ {Object, Other} \cap Texts = {}

Ok == [ok |-> TRUE]
Error(rule, path) == [ok |-> FALSE, rule |-> rule, path |-> path]

\* How the validators go from one check to the next: the first one that fails
\* decides.
Then(result, next) == IF result.ok THEN next ELSE result

Children(request, path) ==
  {name \in {p[Len(p)] : p \in DOMAIN request \ {<<>>}} :
     Append(path, name) \in DOMAIN request}

RejectUnknownChildren(request, path, allowed) ==
  IF Children(request, path) \subseteq allowed THEN Ok
  ELSE Error("unknown field below", path)

Require(request, path, wanted) ==
  IF path \notin DOMAIN request THEN Error("missing", path)
  ELSE IF request[path] \notin wanted THEN Error("type", path) ELSE Ok

RequireString(request, path) == Require(request, path, Texts)
RequireObject(request, path) == Require(request, path, {Object})

\* Mutant of ValidateInteraction: content may be left out.
ValidateInteractionLoosely(request, path) ==
  Then(RequireObject(request, path),
       RejectUnknownChildren(request, path, {"content"}))

ValidateInteraction(request, path) ==
  Then(RequireObject(request, path),
  Then(RejectUnknownChildren(request, path, {"content"}),
       RequireString(request, Append(path, "content"))))

\* ParseActionType, and the router on op.
OneOf(request, path, texts) ==
  IF path \in DOMAIN request /\ request[path] \in texts THEN Ok
  ELSE Error("value", path)

ValidateAction(request, path) ==
  Then(RejectUnknownChildren(request, path, {"type", "name", "interaction"}),
  Then(RequireString(request, Append(path, "type")),
  Then(OneOf(request, Append(path, "type"), MessageTypes),
  Then(RequireString(request, Append(path, "name")),
       ValidateInteraction(request, Append(path, "interaction"))))))

\* Mutant of ValidateState: a field is required that the list of fields lacks.
ValidateStateWithoutContext(request, path) ==
  Then(RejectUnknownChildren(request, path, {"goal", "status"}),
       RequireObject(request, Append(path, "context")))

ValidateState(request, path) ==
  Then(RejectUnknownChildren(request, path, {"goal", "status", "context"}),
  Then(RequireString(request, Append(path, "goal")),
  Then(RequireString(request, Append(path, "status")),
       RequireObject(request, Append(path, "context")))))

ValidateMetadata(request, path) ==
  Then(RejectUnknownChildren(request, path,
                             {"provider", "model", "timestamp", "trace_id"}),
  Then(RequireString(request, Append(path, "provider")),
  Then(RequireString(request, Append(path, "model")),
  Then(RequireString(request, Append(path, "timestamp")),
       RequireString(request, Append(path, "trace_id"))))))

\* Mutant of ValidateSetActionRequest: the fields of state are asked for before
\* state is known to be an object.
ValidateInAnotherOrder(request) ==
  Then(RequireObject(request, <<"value">>),
  Then(ValidateState(request, <<"value", "state">>),
       RequireObject(request, <<"value", "state">>)))

\* A public entry of its own, so it checks again what ValidateRequest checked.
ValidateSetActionRequest(request) ==
  LET action == <<"value", "action">>
      state == <<"value", "state">>
      metadata == <<"value", "metadata">>
  IN
  Then(RequireObject(request, <<>>),
  Then(RejectUnknownChildren(request, <<>>,
                             {"op", "session_id", "event_id", "value"}),
  Then(RequireString(request, <<"op">>),
  Then(OneOf(request, <<"op">>, SetOperations),
  Then(RequireString(request, <<"session_id">>),
  Then(RequireString(request, <<"event_id">>),
  Then(RequireObject(request, <<"value">>),
  Then(RejectUnknownChildren(request, <<"value">>,
                             {"action", "state", "metadata"}),
  Then(RequireObject(request, action),
  Then(ValidateAction(request, action),
  Then(RequireObject(request, state),
  Then(ValidateState(request, state),
  Then(RequireObject(request, metadata),
       ValidateMetadata(request, metadata))))))))))))))

ValidateRequest(request) ==
  Then(RequireObject(request, <<>>),
  Then(RequireString(request, <<"op">>),
  Then(OneOf(request, <<"op">>, SetOperations),
       ValidateSetActionRequest(request))))

\* nlohmann::json::parse: the exception that it throws, or that it does not.
parse(input) ==
  CASE input \in {Unparsable, Unprintable} -> "parse_error"
    [] input = OutOfRange -> "out_of_range"
    [] OTHER -> "parsed"

\* What it returns; nothing, if the exception is not a parse_error.
IsValidJson(input) ==
  IF parse(input) = "out_of_range" THEN {} ELSE {parse(input) = "parsed"}

\* An exception leaves main: there is no answer, and SIGABRT's exit status.
Terminated == [ok |-> FALSE, type |-> "terminated", status |-> 134]

\* main in JSON mode: what is printed, and the exit status.  Only a parse_error
\* is caught, and its message is printed only if it is UTF-8.  Nothing is routed
\* into the store.
Respond(input) ==
  CASE parse(input) = "out_of_range" \/ input = Unprintable -> Terminated
    [] input = Unparsable -> [ok |-> FALSE, type |-> "parse_error", status |-> 1]
    [] OTHER -> LET result == ValidateRequest(input)
                IN  IF result.ok THEN [ok |-> TRUE, status |-> 0]
                    ELSE [ok |-> FALSE, type |-> "validation_error",
                          message |-> result, status |-> 1]
=============================================================================
