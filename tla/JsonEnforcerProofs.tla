------------------------- MODULE JsonEnforcerProofs -------------------------
(***************************************************************************)
(* JSON mode for every set of texts and for requests of any depth: what it *)
(* accepts is the contract, and what it complains about is a defect.       *)
(***************************************************************************)
EXTENDS JsonEnforcerCheck, SequenceTheorems, WellFoundedInduction, TLAPS

----------------------------------------------------------------------------
\* Paths as sequences of names.

\* That < is well founded says that a set of natural numbers has a least element.
LEMMA LeastNatural ==
  ASSUME NEW S \in SUBSET Nat, S # {}
  PROVE  \E m \in S : \A n \in S : m <= n
<1> DEFINE R == OpToRel(<, Nat)
<1>1. R = {ss \in Nat \X Nat : ss[1] < ss[2]}
  BY DEF OpToRel
<1>2. IsWellFoundedOn(R, Nat)
  BY NatLessThanWellFounded
<1> HIDE DEF R
<1>3. PICK m \in S : \A n \in S : <<n, m>> \notin R
  BY <1>2, WFMin
<1>4. ASSUME NEW n \in S
      PROVE  m <= n
  <2>1. m \in Nat /\ n \in Nat /\ <<n, m>> \notin R
    BY <1>3
  <2>2. ~(n < m)
    BY <1>1, <2>1
  <2> QED
    BY <2>1, <2>2
<1> QED
  BY <1>4

\* A path ends in a name, behind its parent.
LEMMA LastName ==
  ASSUME NEW path \in Seq(Name), path # <<>>
  PROVE  /\ Parent(path) \in Seq(Name) /\ Len(path) = Len(Parent(path)) + 1
         /\ path[Len(path)] \in Name /\ path = Append(Parent(path), path[Len(path)])
<1>1. PICK n \in Nat : Len(path) = n + 1
  OBVIOUS
<1> DEFINE front == SubSeq(path, 1, n)
           again == Append(front, path[n + 1])
<1>2. front \in Seq(Name) /\ Len(front) = n /\ \A i \in 1..n : front[i] = path[i]
  BY <1>1
<1>3. path[n + 1] \in Name
  BY <1>1
<1> HIDE DEF front
<1>4. /\ again \in Seq(Name) /\ Len(again) = n + 1 /\ again[n + 1] = path[n + 1]
      /\ \A i \in 1..n : again[i] = front[i]
  BY <1>2, <1>3
<1> HIDE DEF again
<1>5. \A i \in 1..(n + 1) : again[i] = path[i]
  BY <1>2, <1>4
<1>6. again = path
  BY <1>1, <1>4, <1>5, SeqEqual
<1>7. Len(path) - 1 = n
  BY <1>1
<1> QED
  BY <1>1, <1>2, <1>3, <1>6, <1>7 DEF front, again, Parent

LEMMA ParentOfChild ==
  ASSUME NEW path \in Seq(Name), NEW name \in Name
  PROVE  /\ Append(path, name) \in Seq(Name) /\ Append(path, name) # <<>>
         /\ Parent(Append(path, name)) = path
         /\ Append(path, name)[Len(Append(path, name))] = name
  BY DEF Parent

LEMMA Triple ==
  ASSUME NEW S, NEW a \in S, NEW b \in S, NEW c \in S
  PROVE  Append(<<a, b>>, c) = <<a, b, c>>
<1> DEFINE s == Append(<<a, b>>, c)
<1>1. s \in Seq(S) /\ Len(s) = 3 /\ s[1] = a /\ s[2] = b /\ s[3] = c
  OBVIOUS
<1> HIDE DEF s
<1>2. s = <<a, b, c>>
  BY <1>1
<1> QED
  BY <1>2 DEF s

LEMMA Quadruple ==
  ASSUME NEW S, NEW a \in S, NEW b \in S, NEW c \in S, NEW d \in S
  PROVE  Append(<<a, b, c>>, d) = <<a, b, c, d>>
<1> DEFINE s == Append(<<a, b, c>>, d)
<1>1. s \in Seq(S) /\ Len(s) = 4 /\ s[1] = a /\ s[2] = b /\ s[3] = c /\ s[4] = d
  OBVIOUS
<1> HIDE DEF s
<1>2. s = <<a, b, c, d>>
  BY <1>1
<1> QED
  BY <1>2 DEF s

LEMMA Pairs ==
  ASSUME NEW S, NEW a \in S, NEW b \in S
  PROVE  Append(<<>>, a) = <<a>> /\ Append(<<a>>, b) = <<a, b>>
<1> DEFINE s == Append(<<>>, a)
           t == Append(<<a>>, b)
<1>1. s \in Seq(S) /\ Len(s) = 1 /\ s[1] = a
  OBVIOUS
<1>2. t \in Seq(S) /\ Len(t) = 2 /\ t[1] = a /\ t[2] = b
  OBVIOUS
<1> HIDE DEF s, t
<1>3. s = <<a>>
  BY <1>1
<1>4. t = <<a, b>>
  BY <1>2
<1> QED
  BY <1>3, <1>4 DEF s, t

----------------------------------------------------------------------------
\* The table of the contract, looked up.
ContractPaths == ObjectPaths \cup TextPaths \cup {<<"op">>, <<"value", "action", "type">>}

LEMMA ContractRows ==
  /\ DOMAIN Contract = ContractPaths
  /\ \A path \in ObjectPaths : path \in ContractPaths /\ Contract[path] = {Object}
  /\ \A path \in TextPaths : path \in ContractPaths /\ Contract[path] = Texts
  /\ <<"op">> \in ContractPaths /\ Contract[<<"op">>] = SetOperations
  /\ <<"value", "action", "type">> \in ContractPaths
  /\ Contract[<<"value", "action", "type">>] = MessageTypes
<1>0. \A path \in ContractPaths : Contract[path] =
     IF path \in ObjectPaths THEN {Object}
     ELSE IF path \in TextPaths THEN Texts
     ELSE IF path = <<"op">> THEN SetOperations ELSE MessageTypes
  BY DEF Contract, ContractPaths
<1>1. \A path \in TextPaths : path \notin ObjectPaths
  <2>1. <<"session_id">> \notin ObjectPaths /\ <<"event_id">> \notin ObjectPaths
    BY DEF ObjectPaths, Context
  <2>2. /\ <<"value", "action", "name">> \notin ObjectPaths
        /\ <<"value", "action", "interaction", "content">> \notin ObjectPaths
    BY DEF ObjectPaths, Context
  <2>3. /\ <<"value", "state", "goal">> \notin ObjectPaths
        /\ <<"value", "state", "status">> \notin ObjectPaths
    BY DEF ObjectPaths, Context
  <2>4. /\ <<"value", "metadata", "provider">> \notin ObjectPaths
        /\ <<"value", "metadata", "model">> \notin ObjectPaths
        /\ <<"value", "metadata", "timestamp">> \notin ObjectPaths
        /\ <<"value", "metadata", "trace_id">> \notin ObjectPaths
    BY DEF ObjectPaths, Context
  <2> QED
    BY <2>1, <2>2, <2>3, <2>4, Zenon DEF TextPaths
<1>2. <<"op">> \notin ObjectPaths \cup TextPaths
  BY DEF TextPaths, ObjectPaths, Context
<1>3. <<"value", "action", "type">> \notin ObjectPaths \cup TextPaths \cup {<<"op">>}
  BY DEF TextPaths, ObjectPaths, Context
<1>4. DOMAIN Contract = ContractPaths
  BY DEF Contract, ContractPaths
<1>5. ASSUME NEW path \in ObjectPaths
      PROVE  path \in ContractPaths /\ Contract[path] = {Object}
  <2>1. path \in ContractPaths
    BY DEF ContractPaths
  <2> QED
    BY <1>0, <2>1
<1>6. ASSUME NEW path \in TextPaths
      PROVE  path \in ContractPaths /\ Contract[path] = Texts
  <2>1. path \in ContractPaths
    BY DEF ContractPaths
  <2> QED
    BY <1>0, <1>1, <2>1
<1>7. <<"op">> \in ContractPaths /\ Contract[<<"op">>] = SetOperations
  <2> DEFINE path == <<"op">>
  <2>1. path = <<"op">>
    OBVIOUS
  <2> HIDE DEF path
  <2> QED
    BY <1>2, <2>1 DEF Contract, ContractPaths
<1>8. /\ <<"value", "action", "type">> \in ContractPaths
      /\ Contract[<<"value", "action", "type">>] = MessageTypes
  BY <1>3 DEF Contract, ContractPaths
<1> QED
  BY <1>4, <1>5, <1>6, <1>7, <1>8

LEMMA NamesAreNames ==
  /\ "op" \in Name /\ "session_id" \in Name /\ "event_id" \in Name /\ "value" \in Name
  /\ "action" \in Name /\ "state" \in Name /\ "metadata" \in Name
  /\ "type" \in Name /\ "name" \in Name /\ "interaction" \in Name /\ "content" \in Name
  /\ "goal" \in Name /\ "status" \in Name /\ "context" \in Name
  /\ "provider" \in Name /\ "model" \in Name /\ "timestamp" \in Name
  /\ "trace_id" \in Name
  BY NameAssumption

\* The names that the contract knows below each of its objects, as the
\* validators list them.
LEMMA NamesBelow ==
  ASSUME NEW name \in Name
  PROVE  /\ Append(<<>>, name) \in ContractPaths
               <=> name \in {"op", "session_id", "event_id", "value"}
         /\ Append(<<"value">>, name) \in ContractPaths
               <=> name \in {"action", "state", "metadata"}
         /\ Append(<<"value", "action">>, name) \in ContractPaths
               <=> name \in {"type", "name", "interaction"}
         /\ Append(<<"value", "action", "interaction">>, name) \in ContractPaths
               <=> name \in {"content"}
         /\ Append(<<"value", "state">>, name) \in ContractPaths
               <=> name \in {"goal", "status", "context"}
         /\ Append(<<"value", "metadata">>, name) \in ContractPaths
               <=> name \in {"provider", "model", "timestamp", "trace_id"}
<1> USE DEF ContractPaths, ObjectPaths, TextPaths, Context
<1>0. /\ Append(<<>>, name) = <<name>> /\ Append(<<"value">>, name) = <<"value", name>>
      /\ Append(<<"value", "action">>, name) = <<"value", "action", name>>
      /\ Append(<<"value", "state">>, name) = <<"value", "state", name>>
      /\ Append(<<"value", "metadata">>, name) = <<"value", "metadata", name>>
      /\ Append(<<"value", "action", "interaction">>, name)
           = <<"value", "action", "interaction", name>>
  <2>1. Append(<<>>, name) = <<name>> /\ Append(<<"value">>, name) = <<"value", name>>
    BY NamesAreNames, Pairs
  <2>2. /\ Append(<<"value", "action">>, name) = <<"value", "action", name>>
        /\ Append(<<"value", "state">>, name) = <<"value", "state", name>>
        /\ Append(<<"value", "metadata">>, name) = <<"value", "metadata", name>>
    BY NamesAreNames, Triple
  <2>3. Append(<<"value", "action", "interaction">>, name)
          = <<"value", "action", "interaction", name>>
    BY NamesAreNames, Quadruple
  <2> QED
    BY <2>1, <2>2, <2>3
<1>1. <<name>> \in ContractPaths <=> name \in {"op", "session_id", "event_id", "value"}
  OBVIOUS
<1>2. <<"value", name>> \in ContractPaths <=> name \in {"action", "state", "metadata"}
  OBVIOUS
<1>3. <<"value", "action", name>> \in ContractPaths
        <=> name \in {"type", "name", "interaction"}
  OBVIOUS
<1>4. <<"value", "action", "interaction", name>> \in ContractPaths <=> name \in {"content"}
  OBVIOUS
<1>5. <<"value", "state", name>> \in ContractPaths
        <=> name \in {"goal", "status", "context"}
  OBVIOUS
<1>6. <<"value", "metadata", name>> \in ContractPaths
        <=> name \in {"provider", "model", "timestamp", "trace_id"}
  OBVIOUS
<1> HIDE DEF ContractPaths, ObjectPaths, TextPaths, Context
<1> QED
  BY <1>0, <1>1, <1>2, <1>3, <1>4, <1>5, <1>6

LEMMA ContractPathType == ContractPaths \subseteq Seq(Name)
<1>1. /\ <<>> \in Seq(Name) /\ <<"value">> \in Seq(Name)
      /\ <<"op">> \in Seq(Name) /\ <<"session_id">> \in Seq(Name)
      /\ <<"event_id">> \in Seq(Name)
  BY NamesAreNames
<1>2. /\ <<"value", "action">> \in Seq(Name) /\ <<"value", "state">> \in Seq(Name)
      /\ <<"value", "metadata">> \in Seq(Name)
  BY NamesAreNames
<1>3. /\ <<"value", "action", "name">> \in Seq(Name)
      /\ <<"value", "action", "type">> \in Seq(Name)
      /\ <<"value", "action", "interaction">> \in Seq(Name)
      /\ <<"value", "action", "interaction", "content">> \in Seq(Name)
  BY NamesAreNames
<1>4. /\ <<"value", "state", "goal">> \in Seq(Name)
      /\ <<"value", "state", "status">> \in Seq(Name)
      /\ <<"value", "state", "context">> \in Seq(Name)
  BY NamesAreNames
<1>5. /\ <<"value", "metadata", "provider">> \in Seq(Name)
      /\ <<"value", "metadata", "model">> \in Seq(Name)
      /\ <<"value", "metadata", "timestamp">> \in Seq(Name)
      /\ <<"value", "metadata", "trace_id">> \in Seq(Name)
  BY NamesAreNames
<1>6. ObjectPaths \subseteq Seq(Name)
  BY <1>1, <1>2, <1>3, <1>4, Zenon DEF ObjectPaths, Context
<1>7. TextPaths \subseteq Seq(Name)
  BY <1>1, <1>3, <1>4, <1>5, Zenon DEF TextPaths
<1> QED
  BY <1>1, <1>3, <1>6, <1>7, Zenon DEF ContractPaths

\* Below the objects whose fields are listed no path is open; below context all are.
LEMMA AllowedBelow ==
  ASSUME NEW path \in ObjectPaths \ {Context}, NEW name \in Name
  PROVE  Allowed(Append(path, name)) <=> Append(path, name) \in ContractPaths
<1> SUFFICES ~IsOpen(Append(path, name))
  BY ContractRows DEF Allowed
<1>1. path \in Seq(Name)
  BY ContractPathType DEF ContractPaths
<1>2. CASE path = <<"value", "action", "interaction">>
  <2> DEFINE child == Append(path, name)
  <2>1. child = <<"value", "action", "interaction", name>>
    BY <1>2, NamesAreNames, Quadruple
  <2> HIDE DEF child
  <2>2. SubSeq(child, 1, 3)[2] = "action"
    BY <2>1
  <2>3. Context[2] = "state"
    BY DEF Context
  <2>4. SubSeq(child, 1, 3) # Context
    BY <2>2, <2>3
  <2> QED
    BY <2>4 DEF IsOpen, child
<1>3. CASE path # <<"value", "action", "interaction">>
  <2>1. \/ path = <<>> \/ path = <<"value">> \/ path = <<"value", "action">>
        \/ path = <<"value", "state">> \/ path = <<"value", "metadata">>
    BY <1>3, Zenon DEF ObjectPaths
  <2>3. Len(path) < 3
    <3>1. CASE path = <<>>
      BY <3>1
    <3>2. CASE path = <<"value">>
      BY <3>2
    <3>3. CASE path = <<"value", "action">>
      BY <3>3
    <3>4. CASE path = <<"value", "state">>
      BY <3>4
    <3>5. CASE path = <<"value", "metadata">>
      BY <3>5
    <3> QED
      BY <2>1, <3>1, <3>2, <3>3, <3>4, <3>5, Zenon
  <2>2. Len(Append(path, name)) = Len(path) + 1 /\ Len(path) \in Nat
    BY <1>1
  <2> QED
    BY <2>2, <2>3 DEF IsOpen
<1> QED
  BY <1>2, <1>3

LEMMA OpenBelow ==
  ASSUME NEW path \in Seq(Name), path = Context \/ IsOpen(path), NEW name \in Name
  PROVE  IsOpen(Append(path, name))
<1> DEFINE child == Append(path, name)
<1>1. Len(path) \in Nat /\ Len(path) >= 3 /\ SubSeq(path, 1, 3) = Context
  <2>1. CASE path = Context
    <3>1. Len(Context) = 3 /\ Context \in Seq(Name)
      BY NamesAreNames DEF Context
    <3>2. SubSeq(Context, 1, 3) = Context
      BY <3>1, SubSeqFull
    <3> QED
      BY <2>1, <3>1, <3>2
  <2>2. CASE IsOpen(path)
    BY <2>2 DEF IsOpen
  <2> QED
    BY <2>1, <2>2
<1>2. /\ child \in Seq(Name) /\ Len(child) = Len(path) + 1
      /\ \A i \in 1..Len(path) : child[i] = path[i]
  OBVIOUS
<1> HIDE DEF child
<1>3. SubSeq(child, 1, 3) = SubSeq(path, 1, 3)
  BY <1>1, <1>2
<1> QED
  BY <1>1, <1>2, <1>3 DEF IsOpen, child

----------------------------------------------------------------------------
\* What a check says: Ok, or an error that names a defect of the request.
Defect(request, error) ==
  \/ /\ error.rule = "missing" /\ error.path \in ContractPaths \ DOMAIN request
     /\ HasPlace(request, error.path)
  \/ /\ error.rule = "type" /\ error.path \in ContractPaths \cap DOMAIN request
     /\ IF Contract[error.path] = {Object} THEN request[error.path] # Object
        ELSE request[error.path] \notin Texts
  \/ /\ error.rule = "value" /\ error.path \in ContractPaths \cap DOMAIN request
     /\ request[error.path] \in Texts \ Contract[error.path]
  \/ /\ error.rule = "unknown field below"
     /\ \E p \in DOMAIN request : p # <<>> /\ Parent(p) = error.path /\ ~Allowed(p)

Sound(request, result) ==
  result = Ok \/ (result.ok = FALSE /\ Defect(request, result))

\* What the checks ask of a path: that the right thing stands there, and that
\* no unknown field stands below it.
Right(request, path) == path \in DOMAIN request /\ request[path] \in Contract[path]
Closed(request, path) ==
  \A p \in DOMAIN request : p # <<>> /\ Parent(p) = path => Allowed(p)

LEMMA ThenSound ==
  ASSUME NEW request, NEW result, NEW next, Sound(request, result),
         result = Ok => Sound(request, next)
  PROVE  /\ Sound(request, Then(result, next))
         /\ Then(result, next) = Ok <=> result = Ok /\ next = Ok
<1>1. Ok.ok = TRUE
  BY DEF Ok
<1>2. CASE result = Ok
  BY <1>1, <1>2 DEF Then
<1>3. CASE result # Ok
  <2>1. result.ok = FALSE
    BY <1>3 DEF Sound
  <2> QED
    BY <1>3, <2>1 DEF Then
<1> QED
  BY <1>2, <1>3

LEMMA ErrorFields ==
  ASSUME NEW rule, NEW path
  PROVE  /\ Error(rule, path).ok = FALSE /\ Error(rule, path).rule = rule
         /\ Error(rule, path).path = path /\ Error(rule, path) # Ok
  BY DEF Error, Ok

LEMMA MissingSound ==
  ASSUME NEW request, NEW path \in ContractPaths, path \notin DOMAIN request,
         HasPlace(request, path)
  PROVE  /\ Sound(request, Error("missing", path))
         /\ Error("missing", path) # Ok
<1> DEFINE error == Error("missing", path)
<1>1. error.ok = FALSE /\ error.rule = "missing" /\ error.path = path /\ error # Ok
  BY DEF Error, Ok
<1> HIDE DEF error
<1>2. Defect(request, error)
  BY <1>1 DEF Defect
<1>3. Sound(request, error) /\ error # Ok
  BY <1>1, <1>2 DEF Sound
<1> QED
  BY <1>3, Zenon DEF error

LEMMA TypeSound ==
  ASSUME NEW request, NEW path \in ContractPaths, path \in DOMAIN request,
         IF Contract[path] = {Object} THEN request[path] # Object
         ELSE request[path] \notin Texts
  PROVE  /\ Sound(request, Error("type", path))
         /\ Error("type", path) # Ok
<1> DEFINE error == Error("type", path)
<1>1. error.ok = FALSE /\ error.rule = "type" /\ error.path = path /\ error # Ok
  BY DEF Error, Ok
<1> HIDE DEF error
<1>2. Defect(request, error)
  BY <1>1 DEF Defect
<1>3. Sound(request, error) /\ error # Ok
  BY <1>1, <1>2 DEF Sound
<1> QED
  BY <1>3, Zenon DEF error

LEMMA ValueSound ==
  ASSUME NEW request, NEW path \in ContractPaths, path \in DOMAIN request,
         request[path] \in Texts, request[path] \notin Contract[path]
  PROVE  /\ Sound(request, Error("value", path))
         /\ Error("value", path) # Ok
<1> DEFINE error == Error("value", path)
<1>1. error.ok = FALSE /\ error.rule = "value" /\ error.path = path /\ error # Ok
  BY DEF Error, Ok
<1> HIDE DEF error
<1>2. Defect(request, error)
  BY <1>1 DEF Defect
<1>3. Sound(request, error) /\ error # Ok
  BY <1>1, <1>2 DEF Sound
<1> QED
  BY <1>3, Zenon DEF error

LEMMA UnknownSound ==
  ASSUME NEW request, NEW path, NEW p \in DOMAIN request, p # <<>>,
         Parent(p) = path, ~Allowed(p)
  PROVE  /\ Sound(request, Error("unknown field below", path))
         /\ Error("unknown field below", path) # Ok
<1> DEFINE error == Error("unknown field below", path)
<1>1. error.ok = FALSE /\ error.rule = "unknown field below" /\ error.path = path /\ error # Ok
  BY DEF Error, Ok
<1> HIDE DEF error
<1>2. Defect(request, error)
  BY <1>1 DEF Defect
<1>3. Sound(request, error) /\ error # Ok
  BY <1>1, <1>2 DEF Sound
<1> QED
  BY <1>3, Zenon DEF error

LEMMA ObjectJudged ==
  ASSUME NEW request, NEW path \in ObjectPaths, HasPlace(request, path)
  PROVE  /\ Sound(request, RequireObject(request, path))
         /\ RequireObject(request, path) = Ok <=> Right(request, path)
<1>1. path \in ContractPaths /\ Contract[path] = {Object}
  BY ContractRows
<1>2. CASE path \notin DOMAIN request
  <2>1. RequireObject(request, path) = Error("missing", path)
    BY <1>2 DEF RequireObject, Require
  <2> QED
    BY <1>1, <1>2, <2>1, MissingSound DEF Right
<1>3. CASE path \in DOMAIN request /\ request[path] # Object
  <2>1. RequireObject(request, path) = Error("type", path)
    BY <1>3 DEF RequireObject, Require
  <2> QED
    BY <1>1, <1>3, <2>1, TypeSound DEF Right
<1>4. CASE path \in DOMAIN request /\ request[path] = Object
  BY <1>1, <1>4 DEF RequireObject, Require, Sound, Right
<1> QED
  BY <1>2, <1>3, <1>4

LEMMA StringJudged ==
  ASSUME NEW request, NEW path \in ContractPaths, HasPlace(request, path),
         Contract[path] \subseteq Texts
  PROVE  /\ Sound(request, RequireString(request, path))
         /\ RequireString(request, path) = Ok
              <=> path \in DOMAIN request /\ request[path] \in Texts
<1>1. Contract[path] # {Object}
  BY JsonAssumption
<1>2. CASE path \notin DOMAIN request
  <2>1. RequireString(request, path) = Error("missing", path)
    BY <1>2 DEF RequireString, Require
  <2> QED
    BY <1>2, <2>1, MissingSound
<1>3. CASE path \in DOMAIN request /\ request[path] \notin Texts
  <2>1. RequireString(request, path) = Error("type", path)
    BY <1>3 DEF RequireString, Require
  <2> QED
    BY <1>1, <1>3, <2>1, TypeSound
<1>4. CASE path \in DOMAIN request /\ request[path] \in Texts
  BY <1>4 DEF RequireString, Require, Sound
<1> QED
  BY <1>2, <1>3, <1>4

LEMMA OneOfJudged ==
  ASSUME NEW request, NEW path \in ContractPaths, path \in DOMAIN request,
         request[path] \in Texts
  PROVE  /\ Sound(request, OneOf(request, path, Contract[path]))
         /\ OneOf(request, path, Contract[path]) = Ok <=> Right(request, path)
<1>1. CASE request[path] \in Contract[path]
  BY <1>1 DEF OneOf, Sound, Right
<1>2. CASE request[path] \notin Contract[path]
  <2>1. OneOf(request, path, Contract[path]) = Error("value", path)
    BY <1>2 DEF OneOf
  <2> QED
    BY <1>2, <2>1, ValueSound DEF Right
<1> QED
  BY <1>1, <1>2

LEMMA ChildrenJudged ==
  ASSUME NEW request, IsRequest(request), NEW path \in ObjectPaths \ {Context},
         NEW allowed,
         \A name \in Name : Append(path, name) \in ContractPaths <=> name \in allowed
  PROVE  /\ Sound(request, RejectUnknownChildren(request, path, allowed))
         /\ RejectUnknownChildren(request, path, allowed) = Ok <=> Closed(request, path)
<1>1. path \in Seq(Name)
  BY ContractPathType DEF ContractPaths
<1>2. ASSUME NEW p \in DOMAIN request, p # <<>>, Parent(p) = path
      PROVE  /\ p[Len(p)] \in Children(request, path)
             /\ p[Len(p)] \in allowed => Allowed(p)
  <2>1. p \in Seq(Name) /\ p[Len(p)] \in Name /\ p = Append(path, p[Len(p)])
    BY <1>2, LastName DEF IsRequest
  <2> QED
    BY <1>2, <2>1, AllowedBelow DEF Children
<1>3. ASSUME NEW name \in Children(request, path)
      PROVE  /\ Append(path, name) \in DOMAIN request /\ Append(path, name) # <<>>
             /\ Parent(Append(path, name)) = path
             /\ Allowed(Append(path, name)) <=> name \in allowed
  <2>1. PICK p \in DOMAIN request \ {<<>>} : name = p[Len(p)]
    BY DEF Children
  <2>2. name \in Name
    BY <2>1, LastName DEF IsRequest
  <2> QED
    BY <1>1, <2>2, ParentOfChild, AllowedBelow DEF Children
<1>4. CASE Children(request, path) \subseteq allowed
  BY <1>2, <1>4 DEF RejectUnknownChildren, Sound, Closed
<1>5. CASE ~(Children(request, path) \subseteq allowed)
  <2>1. RejectUnknownChildren(request, path, allowed) = Error("unknown field below", path)
    BY <1>5 DEF RejectUnknownChildren
  <2>2. PICK name \in Children(request, path) : name \notin allowed
    BY <1>5
  <2>3. PICK p \in DOMAIN request : p # <<>> /\ Parent(p) = path /\ ~Allowed(p)
    BY <1>3, <2>2
  <2> QED
    BY <2>1, <2>3, UnknownSound DEF Closed
<1> QED
  BY <1>4, <1>5

\* The fields of the contract as the validators spell them.
LEMMA FieldPaths ==
  /\ Append(<<"value", "action">>, "type") = <<"value", "action", "type">>
  /\ Append(<<"value", "action">>, "name") = <<"value", "action", "name">>
  /\ Append(<<"value", "action">>, "interaction") = <<"value", "action", "interaction">>
  /\ Append(<<"value", "action", "interaction">>, "content")
       = <<"value", "action", "interaction", "content">>
  /\ Append(<<"value", "state">>, "goal") = <<"value", "state", "goal">>
  /\ Append(<<"value", "state">>, "status") = <<"value", "state", "status">>
  /\ Append(<<"value", "state">>, "context") = Context
  /\ Append(<<"value", "metadata">>, "provider") = <<"value", "metadata", "provider">>
  /\ Append(<<"value", "metadata">>, "model") = <<"value", "metadata", "model">>
  /\ Append(<<"value", "metadata">>, "timestamp") = <<"value", "metadata", "timestamp">>
  /\ Append(<<"value", "metadata">>, "trace_id") = <<"value", "metadata", "trace_id">>
<1>1. Append(<<"value", "action", "interaction">>, "content")
        = <<"value", "action", "interaction", "content">>
  BY NamesAreNames, Quadruple
<1>2. /\ Append(<<"value", "action">>, "type") = <<"value", "action", "type">>
      /\ Append(<<"value", "action">>, "name") = <<"value", "action", "name">>
      /\ Append(<<"value", "action">>, "interaction") = <<"value", "action", "interaction">>
  BY NamesAreNames, Triple
<1>3. /\ Append(<<"value", "state">>, "goal") = <<"value", "state", "goal">>
      /\ Append(<<"value", "state">>, "status") = <<"value", "state", "status">>
      /\ Append(<<"value", "state">>, "context") = <<"value", "state", "context">>
  BY NamesAreNames, Triple
<1>4. /\ Append(<<"value", "metadata">>, "provider") = <<"value", "metadata", "provider">>
      /\ Append(<<"value", "metadata">>, "model") = <<"value", "metadata", "model">>
      /\ Append(<<"value", "metadata">>, "timestamp") = <<"value", "metadata", "timestamp">>
      /\ Append(<<"value", "metadata">>, "trace_id") = <<"value", "metadata", "trace_id">>
  BY NamesAreNames, Triple
<1> QED
  BY <1>1, <1>2, <1>3, <1>4 DEF Context

LEMMA PlaceBelow ==
  ASSUME NEW request, NEW path \in ObjectPaths, Right(request, path), NEW name \in Name
  PROVE  HasPlace(request, Append(path, name))
<1>1. path \in Seq(Name)
  BY ContractPathType DEF ContractPaths
<1>2. path \in DOMAIN request /\ request[path] = Object
  BY ContractRows DEF Right
<1> QED
  BY <1>1, <1>2, ParentOfChild DEF HasPlace

\* A required text below an object that is there.
LEMMA FieldJudged ==
  ASSUME NEW request, NEW path \in ObjectPaths, Right(request, path), NEW name \in Name,
         NEW field, field = Append(path, name), field \in TextPaths
  PROVE  /\ Sound(request, RequireString(request, field))
         /\ RequireString(request, field) = Ok <=> Right(request, field)
<1>1. field \in ContractPaths /\ Contract[field] = Texts
  BY ContractRows
<1>2. HasPlace(request, field)
  BY PlaceBelow
<1> QED
  BY <1>1, <1>2, StringJudged DEF Right

LEMMA InnerObjectJudged ==
  ASSUME NEW request, NEW path \in ObjectPaths, Right(request, path), NEW name \in Name,
         NEW field, field = Append(path, name), field \in ObjectPaths
  PROVE  /\ Sound(request, RequireObject(request, field))
         /\ RequireObject(request, field) = Ok <=> Right(request, field)
<1>1. HasPlace(request, field)
  BY PlaceBelow
<1> QED
  BY <1>1, ObjectJudged

----------------------------------------------------------------------------
\* Each validator asks for its part of the contract, once the object it looks at
\* is there.
InteractionRight(request) ==
  /\ Right(request, <<"value", "action", "interaction">>)
  /\ Closed(request, <<"value", "action", "interaction">>)
  /\ Right(request, <<"value", "action", "interaction", "content">>)
ActionRight(request) ==
  /\ Closed(request, <<"value", "action">>)
  /\ Right(request, <<"value", "action", "type">>)
  /\ Right(request, <<"value", "action", "name">>)
  /\ InteractionRight(request)
StateRight(request) ==
  /\ Closed(request, <<"value", "state">>)
  /\ Right(request, <<"value", "state", "goal">>)
  /\ Right(request, <<"value", "state", "status">>)
  /\ Right(request, Context)
MetadataRight(request) ==
  /\ Closed(request, <<"value", "metadata">>)
  /\ Right(request, <<"value", "metadata", "provider">>)
  /\ Right(request, <<"value", "metadata", "model">>)
  /\ Right(request, <<"value", "metadata", "timestamp">>)
  /\ Right(request, <<"value", "metadata", "trace_id">>)
ValueRight(request) ==
  /\ Right(request, <<"value">>) /\ Closed(request, <<"value">>)
  /\ Right(request, <<"value", "action">>) /\ ActionRight(request)
  /\ Right(request, <<"value", "state">>) /\ StateRight(request)
  /\ Right(request, <<"value", "metadata">>) /\ MetadataRight(request)
AllRight(request) ==
  /\ Right(request, <<>>) /\ Closed(request, <<>>)
  /\ Right(request, <<"op">>)
  /\ Right(request, <<"session_id">>) /\ Right(request, <<"event_id">>)
  /\ ValueRight(request)

LEMMA ObjectPathsListed ==
  /\ <<>> \in ObjectPaths \ {Context}
  /\ <<"value">> \in ObjectPaths \ {Context}
  /\ <<"value", "action">> \in ObjectPaths \ {Context}
  /\ <<"value", "action", "interaction">> \in ObjectPaths \ {Context}
  /\ <<"value", "state">> \in ObjectPaths \ {Context}
  /\ <<"value", "metadata">> \in ObjectPaths \ {Context}
  /\ Context \in ObjectPaths
<1>1. /\ Context # <<>> /\ Context # <<"value">> /\ Context # <<"value", "action">>
      /\ Context # <<"value", "state">> /\ Context # <<"value", "metadata">>
  BY DEF Context
<1>2. Context # <<"value", "action", "interaction">>
  <2>1. Context[2] = "state" /\ <<"value", "action", "interaction">>[2] = "action"
    BY DEF Context
  <2> QED
    BY <2>1
<1> QED
  BY <1>1, <1>2, Zenon DEF ObjectPaths

LEMMA MetadataJudged ==
  ASSUME NEW request, IsRequest(request), Right(request, <<"value", "metadata">>)
  PROVE  /\ Sound(request, ValidateMetadata(request, <<"value", "metadata">>))
         /\ ValidateMetadata(request, <<"value", "metadata">>) = Ok
              <=> MetadataRight(request)
<1> DEFINE path == <<"value", "metadata">>
           text(name) == RequireString(request, Append(path, name))
           closed == RejectUnknownChildren(request, path,
                       {"provider", "model", "timestamp", "trace_id"})
           last == text("trace_id")
           third == Then(text("timestamp"), last)
           second == Then(text("model"), third)
           first == Then(text("provider"), second)
<1>1. /\ Sound(request, closed)
      /\ closed = Ok <=> Closed(request, path)
  BY ObjectPathsListed, NamesBelow, ChildrenJudged
<1>2. /\ Sound(request, text("provider")) /\ Sound(request, text("model"))
      /\ Sound(request, text("timestamp")) /\ Sound(request, last)
      /\ text("provider") = Ok <=> Right(request, <<"value", "metadata", "provider">>)
      /\ text("model") = Ok <=> Right(request, <<"value", "metadata", "model">>)
      /\ text("timestamp") = Ok <=> Right(request, <<"value", "metadata", "timestamp">>)
      /\ last = Ok <=> Right(request, <<"value", "metadata", "trace_id">>)
  <2>1. /\ <<"value", "metadata", "provider">> \in TextPaths
        /\ <<"value", "metadata", "model">> \in TextPaths
        /\ <<"value", "metadata", "timestamp">> \in TextPaths
        /\ <<"value", "metadata", "trace_id">> \in TextPaths
    BY Zenon DEF TextPaths
  <2>2. path \in ObjectPaths /\ Right(request, path)
    BY ObjectPathsListed
  <2>3. /\ <<"value", "metadata", "provider">> = Append(path, "provider")
        /\ <<"value", "metadata", "model">> = Append(path, "model")
        /\ <<"value", "metadata", "timestamp">> = Append(path, "timestamp")
        /\ <<"value", "metadata", "trace_id">> = Append(path, "trace_id")
    BY FieldPaths
  <2> HIDE DEF path
  <2>4. /\ Sound(request, text("provider"))
        /\ text("provider") = Ok <=> Right(request, <<"value", "metadata", "provider">>)
    BY <2>1, <2>2, <2>3, NamesAreNames, FieldJudged
  <2>5. /\ Sound(request, text("model"))
        /\ text("model") = Ok <=> Right(request, <<"value", "metadata", "model">>)
    BY <2>1, <2>2, <2>3, NamesAreNames, FieldJudged
  <2>6. /\ Sound(request, text("timestamp"))
        /\ text("timestamp") = Ok <=> Right(request, <<"value", "metadata", "timestamp">>)
    BY <2>1, <2>2, <2>3, NamesAreNames, FieldJudged
  <2>7. /\ Sound(request, last)
        /\ last = Ok <=> Right(request, <<"value", "metadata", "trace_id">>)
    BY <2>1, <2>2, <2>3, NamesAreNames, FieldJudged
  <2> QED
    BY <2>4, <2>5, <2>6, <2>7
<1> HIDE DEF path, text, closed, last
<1>3. Sound(request, third) /\ (third = Ok <=> text("timestamp") = Ok /\ last = Ok)
  BY <1>2, ThenSound
<1> HIDE DEF third
<1>4. Sound(request, second) /\ (second = Ok <=> text("model") = Ok /\ third = Ok)
  BY <1>2, <1>3, ThenSound
<1> HIDE DEF second
<1>5. Sound(request, first) /\ (first = Ok <=> text("provider") = Ok /\ second = Ok)
  BY <1>2, <1>4, ThenSound
<1> HIDE DEF first
<1>6. /\ Sound(request, Then(closed, first))
      /\ Then(closed, first) = Ok <=> closed = Ok /\ first = Ok
  BY <1>1, <1>5, ThenSound
<1>7. ValidateMetadata(request, path) = Then(closed, first)
  BY Zenon DEF ValidateMetadata, closed, first, second, third, last, text
<1>8. Then(closed, first) = Ok <=> MetadataRight(request)
  BY <1>1, <1>2, <1>3, <1>4, <1>5, <1>6 DEF MetadataRight, path
<1> QED
  BY <1>6, <1>7, <1>8 DEF path

LEMMA StateJudged ==
  ASSUME NEW request, IsRequest(request), Right(request, <<"value", "state">>)
  PROVE  /\ Sound(request, ValidateState(request, <<"value", "state">>))
         /\ ValidateState(request, <<"value", "state">>) = Ok <=> StateRight(request)
<1> DEFINE path == <<"value", "state">>
           closed == RejectUnknownChildren(request, path, {"goal", "status", "context"})
           goal == RequireString(request, Append(path, "goal"))
           status == RequireString(request, Append(path, "status"))
           context == RequireObject(request, Append(path, "context"))
           second == Then(status, context)
           first == Then(goal, second)
<1>1. /\ Sound(request, closed)
      /\ closed = Ok <=> Closed(request, path)
  BY ObjectPathsListed, NamesBelow, ChildrenJudged
<1>2. /\ Sound(request, goal) /\ Sound(request, status) /\ Sound(request, context)
      /\ goal = Ok <=> Right(request, <<"value", "state", "goal">>)
      /\ status = Ok <=> Right(request, <<"value", "state", "status">>)
      /\ context = Ok <=> Right(request, Context)
  <2> DEFINE goalPath == <<"value", "state", "goal">>
             statusPath == <<"value", "state", "status">>
  <2>1. goalPath \in TextPaths /\ statusPath \in TextPaths /\ Context \in ObjectPaths
    BY ObjectPathsListed, Zenon DEF TextPaths
  <2>2. path \in ObjectPaths /\ Right(request, path)
    BY ObjectPathsListed
  <2>3. /\ goalPath = Append(path, "goal") /\ statusPath = Append(path, "status")
        /\ Context = Append(path, "context")
    BY FieldPaths
  <2>4. "goal" \in Name /\ "status" \in Name /\ "context" \in Name
    BY NamesAreNames
  <2> HIDE DEF path, goalPath, statusPath
  <2>5. Sound(request, goal) /\ (goal = Ok <=> Right(request, goalPath))
    BY <2>1, <2>2, <2>3, <2>4, FieldJudged
  <2>6. Sound(request, status) /\ (status = Ok <=> Right(request, statusPath))
    BY <2>1, <2>2, <2>3, <2>4, FieldJudged
  <2>7. Sound(request, context) /\ (context = Ok <=> Right(request, Context))
    BY <2>1, <2>2, <2>3, <2>4, InnerObjectJudged
  <2> QED
    BY <2>5, <2>6, <2>7 DEF goalPath, statusPath
<1> HIDE DEF path, closed, goal, status, context
<1>3. Sound(request, second) /\ (second = Ok <=> status = Ok /\ context = Ok)
  BY <1>2, ThenSound
<1> HIDE DEF second
<1>4. Sound(request, first) /\ (first = Ok <=> goal = Ok /\ second = Ok)
  BY <1>2, <1>3, ThenSound
<1> HIDE DEF first
<1>5. /\ Sound(request, Then(closed, first))
      /\ Then(closed, first) = Ok <=> closed = Ok /\ first = Ok
  BY <1>1, <1>4, ThenSound
<1>6. ValidateState(request, path) = Then(closed, first)
  BY Zenon DEF ValidateState, closed, first, second, goal, status, context
<1>7. Then(closed, first) = Ok <=> StateRight(request)
  BY <1>1, <1>2, <1>3, <1>4, <1>5 DEF StateRight, path
<1> QED
  BY <1>5, <1>6, <1>7 DEF path

LEMMA InteractionJudged ==
  ASSUME NEW request, IsRequest(request), Right(request, <<"value", "action">>)
  PROVE  /\ Sound(request, ValidateInteraction(request,
                             Append(<<"value", "action">>, "interaction")))
         /\ ValidateInteraction(request, Append(<<"value", "action">>, "interaction")) = Ok
              <=> InteractionRight(request)
<1> DEFINE path == <<"value", "action", "interaction">>
           object == RequireObject(request, path)
           closed == RejectUnknownChildren(request, path, {"content"})
           content == RequireString(request, Append(path, "content"))
           second == Then(closed, content)
<1>0. path = Append(<<"value", "action">>, "interaction")
  BY FieldPaths
<1>1. Sound(request, object) /\ (object = Ok <=> Right(request, path))
  <2>1. path \in ObjectPaths /\ <<"value", "action">> \in ObjectPaths
    BY ObjectPathsListed
  <2> HIDE DEF path
  <2> QED
    BY <1>0, <2>1, NamesAreNames, InnerObjectJudged
<1>2. Sound(request, closed) /\ (closed = Ok <=> Closed(request, path))
  BY ObjectPathsListed, NamesBelow, ChildrenJudged
<1>3. ASSUME object = Ok
      PROVE  /\ Sound(request, content)
             /\ content = Ok <=> Right(request, <<"value", "action", "interaction", "content">>)
  <2>1. <<"value", "action", "interaction", "content">> \in TextPaths
    BY Zenon DEF TextPaths
  <2>2. path \in ObjectPaths /\ Right(request, path)
    BY <1>1, <1>3, ObjectPathsListed
  <2>3. <<"value", "action", "interaction", "content">> = Append(path, "content")
    BY FieldPaths
  <2> HIDE DEF path
  <2> QED
    BY <2>1, <2>2, <2>3, NamesAreNames, FieldJudged
<1> HIDE DEF path, object, closed, content
<1>4. ASSUME object = Ok
      PROVE  Sound(request, second) /\ (second = Ok <=> closed = Ok /\ content = Ok)
  BY <1>2, <1>3, <1>4, ThenSound
<1> HIDE DEF second
<1>5. /\ Sound(request, Then(object, second))
      /\ Then(object, second) = Ok <=> object = Ok /\ second = Ok
  BY <1>1, <1>4, ThenSound
<1>6. ValidateInteraction(request, path) = Then(object, second)
  BY Zenon DEF ValidateInteraction, object, second, closed, content
<1>7. Then(object, second) = Ok <=> InteractionRight(request)
  BY <1>1, <1>2, <1>3, <1>4, <1>5 DEF InteractionRight, path
<1> QED
  BY <1>0, <1>5, <1>6, <1>7

LEMMA ActionJudged ==
  ASSUME NEW request, IsRequest(request), Right(request, <<"value", "action">>)
  PROVE  /\ Sound(request, ValidateAction(request, <<"value", "action">>))
         /\ ValidateAction(request, <<"value", "action">>) = Ok <=> ActionRight(request)
<1> DEFINE path == <<"value", "action">>
           typePath == <<"value", "action", "type">>
           closed == RejectUnknownChildren(request, path, {"type", "name", "interaction"})
           type == RequireString(request, Append(path, "type"))
           known == OneOf(request, Append(path, "type"), MessageTypes)
           name == RequireString(request, Append(path, "name"))
           interaction == ValidateInteraction(request, Append(path, "interaction"))
           third == Then(name, interaction)
           second == Then(known, third)
           first == Then(type, second)
<1>1. Sound(request, closed) /\ (closed = Ok <=> Closed(request, path))
  BY ObjectPathsListed, NamesBelow, ChildrenJudged
<1>2. Sound(request, interaction) /\ (interaction = Ok <=> InteractionRight(request))
  BY InteractionJudged
<1>3. /\ path \in ObjectPaths /\ Right(request, path)
      /\ typePath = Append(path, "type")
      /\ <<"value", "action", "name">> = Append(path, "name")
  BY ObjectPathsListed, FieldPaths
<1>4. /\ typePath \in ContractPaths /\ Contract[typePath] = MessageTypes
      /\ MessageTypes \subseteq Texts
  BY ContractRows, JsonAssumption
<1>5. <<"value", "action", "name">> \in TextPaths
  BY Zenon DEF TextPaths
<1>6. Sound(request, name) /\ (name = Ok <=> Right(request, <<"value", "action", "name">>))
  <2> HIDE DEF path, typePath
  <2> QED
    BY <1>3, <1>5, NamesAreNames, FieldJudged
<1> HIDE DEF path, typePath, MessageTypes
<1>7. /\ Sound(request, type)
      /\ type = Ok <=> typePath \in DOMAIN request /\ request[typePath] \in Texts
  <2>1. HasPlace(request, typePath)
    BY <1>3, NamesAreNames, PlaceBelow
  <2> QED
    BY <1>3, <1>4, <2>1, StringJudged
<1>8. ASSUME type = Ok
      PROVE  Sound(request, known) /\ (known = Ok <=> Right(request, typePath))
  <2>1. typePath \in DOMAIN request /\ request[typePath] \in Texts
    BY <1>7, <1>8
  <2> QED
    BY <1>3, <1>4, <2>1, OneOfJudged
<1>9. Right(request, typePath) => typePath \in DOMAIN request /\ request[typePath] \in Texts
  BY <1>4 DEF Right
<1> HIDE DEF closed, type, known, name, interaction
<1>10. Sound(request, third) /\ (third = Ok <=> name = Ok /\ interaction = Ok)
  BY <1>2, <1>6, ThenSound
<1> HIDE DEF third
<1>11. ASSUME type = Ok
       PROVE  Sound(request, second) /\ (second = Ok <=> known = Ok /\ third = Ok)
  BY <1>8, <1>10, <1>11, ThenSound
<1> HIDE DEF second
<1>12. Sound(request, first) /\ (first = Ok <=> type = Ok /\ second = Ok)
  BY <1>7, <1>11, ThenSound
<1> HIDE DEF first
<1>13. /\ Sound(request, Then(closed, first))
       /\ Then(closed, first) = Ok <=> closed = Ok /\ first = Ok
  BY <1>1, <1>12, ThenSound
<1>14. ValidateAction(request, path) = Then(closed, first)
  BY Zenon DEF ValidateAction, closed, first, second, third, type, known, name, interaction
<1>15. Then(closed, first) = Ok
         <=> /\ Closed(request, path) /\ Right(request, typePath)
             /\ Right(request, <<"value", "action", "name">>) /\ InteractionRight(request)
  BY <1>1, <1>2, <1>6, <1>7, <1>8, <1>9, <1>10, <1>11, <1>12, <1>13
<1> QED
  BY <1>13, <1>14, <1>15 DEF path, typePath, ActionRight

\* The checks on what stands below value, from its list of fields on.
ValueChecks(request) ==
  Then(RejectUnknownChildren(request, <<"value">>, {"action", "state", "metadata"}),
  Then(RequireObject(request, <<"value", "action">>),
  Then(ValidateAction(request, <<"value", "action">>),
  Then(RequireObject(request, <<"value", "state">>),
  Then(ValidateState(request, <<"value", "state">>),
  Then(RequireObject(request, <<"value", "metadata">>),
       ValidateMetadata(request, <<"value", "metadata">>)))))))

LEMMA ValueJudged ==
  ASSUME NEW request, IsRequest(request), Right(request, <<"value">>)
  PROVE  /\ Sound(request, ValueChecks(request))
         /\ ValueChecks(request) = Ok <=> ValueRight(request)
<1> DEFINE path == <<"value">>
           actionPath == <<"value", "action">>
           statePath == <<"value", "state">>
           metadataPath == <<"value", "metadata">>
           closed == RejectUnknownChildren(request, path, {"action", "state", "metadata"})
           isAction == RequireObject(request, actionPath)
           action == ValidateAction(request, actionPath)
           isState == RequireObject(request, statePath)
           state == ValidateState(request, statePath)
           isMetadata == RequireObject(request, metadataPath)
           metadata == ValidateMetadata(request, metadataPath)
           fifth == Then(isMetadata, metadata)
           fourth == Then(state, fifth)
           third == Then(isState, fourth)
           second == Then(action, third)
           first == Then(isAction, second)
<1>1. Sound(request, closed) /\ (closed = Ok <=> Closed(request, path))
  BY ObjectPathsListed, NamesBelow, ChildrenJudged
<1>2. isAction = Ok /\ Right(request, actionPath)
        => Sound(request, action) /\ (action = Ok <=> ActionRight(request))
  BY ActionJudged
<1>3. isState = Ok /\ Right(request, statePath)
        => Sound(request, state) /\ (state = Ok <=> StateRight(request))
  BY StateJudged
<1>4. isMetadata = Ok /\ Right(request, metadataPath)
        => Sound(request, metadata) /\ (metadata = Ok <=> MetadataRight(request))
  BY MetadataJudged
<1>5. /\ path \in ObjectPaths /\ Right(request, path)
      /\ actionPath \in ObjectPaths /\ actionPath = Append(path, "action")
      /\ statePath \in ObjectPaths /\ statePath = Append(path, "state")
      /\ metadataPath \in ObjectPaths /\ metadataPath = Append(path, "metadata")
  BY ObjectPathsListed, NamesAreNames, Pairs
<1>6. "action" \in Name /\ "state" \in Name /\ "metadata" \in Name
  BY NamesAreNames
<1>7. ValueChecks(request) = Then(closed, first)
  BY Zenon DEF ValueChecks
<1>8. ValueRight(request)
        <=> /\ Right(request, path) /\ Closed(request, path)
            /\ Right(request, actionPath) /\ ActionRight(request)
            /\ Right(request, statePath) /\ StateRight(request)
            /\ Right(request, metadataPath) /\ MetadataRight(request)
  BY Zenon DEF ValueRight
<1> HIDE DEF path, actionPath, statePath, metadataPath
<1>9. Sound(request, isAction) /\ (isAction = Ok <=> Right(request, actionPath))
  BY <1>5, <1>6, InnerObjectJudged
<1>10. Sound(request, isState) /\ (isState = Ok <=> Right(request, statePath))
  BY <1>5, <1>6, InnerObjectJudged
<1>11. Sound(request, isMetadata) /\ (isMetadata = Ok <=> Right(request, metadataPath))
  BY <1>5, <1>6, InnerObjectJudged
<1> HIDE DEF closed, isAction, action, isState, state, isMetadata, metadata
<1>12. Sound(request, fifth) /\ (fifth = Ok <=> isMetadata = Ok /\ metadata = Ok)
  BY <1>4, <1>11, ThenSound
<1> HIDE DEF fifth
<1>13. isState = Ok
         => Sound(request, fourth) /\ (fourth = Ok <=> state = Ok /\ fifth = Ok)
  BY <1>3, <1>10, <1>12, ThenSound
<1> HIDE DEF fourth
<1>14. Sound(request, third) /\ (third = Ok <=> isState = Ok /\ fourth = Ok)
  BY <1>10, <1>13, ThenSound
<1> HIDE DEF third
<1>15. isAction = Ok
         => Sound(request, second) /\ (second = Ok <=> action = Ok /\ third = Ok)
  BY <1>2, <1>9, <1>14, ThenSound
<1> HIDE DEF second
<1>16. Sound(request, first) /\ (first = Ok <=> isAction = Ok /\ second = Ok)
  BY <1>9, <1>15, ThenSound
<1> HIDE DEF first
<1>17. /\ Sound(request, Then(closed, first))
       /\ Then(closed, first) = Ok <=> closed = Ok /\ first = Ok
  BY <1>1, <1>16, ThenSound
<1>18. Then(closed, first) = Ok <=> ValueRight(request)
  BY <1>1, <1>2, <1>3, <1>4, <1>5, <1>8, <1>9, <1>10, <1>11, <1>12, <1>13, <1>14,
     <1>15, <1>16, <1>17
<1> QED
  BY <1>7, <1>17, <1>18

\* The first checks of both entries: the root is an object, and op is known.
LEMMA RootJudged ==
  ASSUME NEW request
  PROVE  /\ Sound(request, RequireObject(request, <<>>))
         /\ RequireObject(request, <<>>) = Ok <=> Right(request, <<>>)
<1>1. <<>> \in ObjectPaths /\ HasPlace(request, <<>>)
  BY ObjectPathsListed DEF HasPlace
<1> QED
  BY <1>1, ObjectJudged

LEMMA OpJudged ==
  ASSUME NEW request, Right(request, <<>>), NEW next,
         Right(request, <<"op">>) => Sound(request, next)
  PROVE  LET checked == Then(RequireString(request, <<"op">>),
                             Then(OneOf(request, <<"op">>, SetOperations), next))
         IN  /\ Sound(request, checked)
             /\ checked = Ok <=> Right(request, <<"op">>) /\ next = Ok
<1> DEFINE path == <<"op">>
           op == RequireString(request, path)
           known == OneOf(request, path, SetOperations)
           second == Then(known, next)
<1>1. /\ path \in ContractPaths /\ Contract[path] = SetOperations
      /\ SetOperations \subseteq Texts
  BY ContractRows, JsonAssumption
<1>2. HasPlace(request, path)
  <2>1. path = Append(<<>>, "op")
    BY NamesAreNames, Pairs
  <2> HIDE DEF path
  <2> QED
    BY <2>1, ObjectPathsListed, NamesAreNames, PlaceBelow
<1>3. Right(request, path) => Sound(request, next)
  OBVIOUS
<1> HIDE DEF path, SetOperations
<1>4. /\ Sound(request, op)
      /\ op = Ok <=> path \in DOMAIN request /\ request[path] \in Texts
  BY <1>1, <1>2, StringJudged
<1>5. op = Ok => Sound(request, known) /\ (known = Ok <=> Right(request, path))
  BY <1>1, <1>4, OneOfJudged
<1>6. Right(request, path) => op = Ok
  BY <1>1, <1>4 DEF Right
<1> HIDE DEF op, known
<1>7. op = Ok => Sound(request, second) /\ (second = Ok <=> known = Ok /\ next = Ok)
  BY <1>3, <1>5, ThenSound
<1> HIDE DEF second
<1>8. /\ Sound(request, Then(op, second))
      /\ Then(op, second) = Ok <=> op = Ok /\ second = Ok
  BY <1>4, <1>7, ThenSound
<1>9. Then(op, second) = Ok <=> Right(request, path) /\ next = Ok
  BY <1>5, <1>6, <1>7, <1>8
<1> QED
  BY <1>8, <1>9, Zenon DEF second, op, known, path

LEMMA SetActionJudged ==
  ASSUME NEW request, IsRequest(request)
  PROVE  /\ Sound(request, ValidateSetActionRequest(request))
         /\ ValidateSetActionRequest(request) = Ok <=> AllRight(request)
<1> DEFINE session == RequireString(request, <<"session_id">>)
           event == RequireString(request, <<"event_id">>)
           isValue == RequireObject(request, <<"value">>)
           value == ValueChecks(request)
           isRoot == RequireObject(request, <<>>)
           closed == RejectUnknownChildren(request, <<>>,
                       {"op", "session_id", "event_id", "value"})
           fifth == Then(isValue, value)
           fourth == Then(event, fifth)
           third == Then(session, fourth)
           second == Then(RequireString(request, <<"op">>),
                          Then(OneOf(request, <<"op">>, SetOperations), third))
           first == Then(closed, second)
<1>1. ValidateSetActionRequest(request) = Then(isRoot, first)
  BY Zenon DEF ValidateSetActionRequest, ValueChecks
<1>2. Sound(request, isRoot) /\ (isRoot = Ok <=> Right(request, <<>>))
  BY RootJudged
<1>3. Sound(request, closed) /\ (closed = Ok <=> Closed(request, <<>>))
  BY ObjectPathsListed, NamesBelow, ChildrenJudged
<1>4. ASSUME Right(request, <<>>)
      PROVE  /\ Sound(request, session) /\ (session = Ok <=> Right(request, <<"session_id">>))
             /\ Sound(request, event) /\ (event = Ok <=> Right(request, <<"event_id">>))
             /\ Sound(request, isValue) /\ (isValue = Ok <=> Right(request, <<"value">>))
  <2> DEFINE root == <<>>
             sessionPath == <<"session_id">>
             eventPath == <<"event_id">>
             valuePath == <<"value">>
  <2>1. /\ sessionPath \in TextPaths /\ eventPath \in TextPaths
        /\ valuePath \in ObjectPaths /\ root \in ObjectPaths
    BY ObjectPathsListed, Zenon DEF TextPaths
  <2>2. /\ sessionPath = Append(root, "session_id") /\ eventPath = Append(root, "event_id")
        /\ valuePath = Append(root, "value")
    BY NamesAreNames, Pairs
  <2>3. Right(request, root)
    BY <1>4
  <2>4. "session_id" \in Name /\ "event_id" \in Name /\ "value" \in Name
    BY NamesAreNames
  <2> HIDE DEF root, sessionPath, eventPath, valuePath
  <2>5. Sound(request, session) /\ (session = Ok <=> Right(request, sessionPath))
    BY <2>1, <2>2, <2>3, <2>4, FieldJudged DEF sessionPath
  <2>6. Sound(request, event) /\ (event = Ok <=> Right(request, eventPath))
    BY <2>1, <2>2, <2>3, <2>4, FieldJudged DEF eventPath
  <2>7. Sound(request, isValue) /\ (isValue = Ok <=> Right(request, valuePath))
    BY <2>1, <2>2, <2>3, <2>4, InnerObjectJudged DEF valuePath
  <2> QED
    BY <2>5, <2>6, <2>7 DEF sessionPath, eventPath, valuePath
<1>5. Right(request, <<"value">>)
        => Sound(request, value) /\ (value = Ok <=> ValueRight(request))
  BY ValueJudged
<1>6. ValueRight(request) => Right(request, <<"value">>)
  BY DEF ValueRight
<1> HIDE DEF session, event, isValue, value, isRoot, closed
<1>7. ASSUME Right(request, <<>>)
      PROVE  Sound(request, fifth) /\ (fifth = Ok <=> isValue = Ok /\ value = Ok)
  BY <1>4, <1>5, <1>7, ThenSound
<1> HIDE DEF fifth
<1>8. ASSUME Right(request, <<>>)
      PROVE  Sound(request, fourth) /\ (fourth = Ok <=> event = Ok /\ fifth = Ok)
  BY <1>4, <1>7, <1>8, ThenSound
<1> HIDE DEF fourth
<1>9. ASSUME Right(request, <<>>)
      PROVE  Sound(request, third) /\ (third = Ok <=> session = Ok /\ fourth = Ok)
  BY <1>4, <1>8, <1>9, ThenSound
<1> HIDE DEF third
<1>10. ASSUME Right(request, <<>>)
       PROVE  Sound(request, second) /\ (second = Ok <=> Right(request, <<"op">>) /\ third = Ok)
  BY <1>9, <1>10, OpJudged
<1> HIDE DEF second
<1>11. ASSUME Right(request, <<>>)
       PROVE  Sound(request, first) /\ (first = Ok <=> closed = Ok /\ second = Ok)
  BY <1>3, <1>10, <1>11, ThenSound
<1> HIDE DEF first
<1>12. /\ Sound(request, Then(isRoot, first))
       /\ Then(isRoot, first) = Ok <=> isRoot = Ok /\ first = Ok
  BY <1>2, <1>11, ThenSound
<1>13. Then(isRoot, first) = Ok <=> AllRight(request)
  BY <1>2, <1>3, <1>4, <1>5, <1>6, <1>7, <1>8, <1>9, <1>10, <1>11, <1>12 DEF AllRight
<1> QED
  BY <1>1, <1>12, <1>13

LEMMA RequestJudged ==
  ASSUME NEW request, IsRequest(request)
  PROVE  /\ Sound(request, ValidateRequest(request))
         /\ ValidateRequest(request) = Ok <=> AllRight(request)
<1> DEFINE isRoot == RequireObject(request, <<>>)
           setAction == ValidateSetActionRequest(request)
           rest == Then(RequireString(request, <<"op">>),
                        Then(OneOf(request, <<"op">>, SetOperations), setAction))
<1>1. ValidateRequest(request) = Then(isRoot, rest)
  BY Zenon DEF ValidateRequest
<1>2. Sound(request, isRoot) /\ (isRoot = Ok <=> Right(request, <<>>))
  BY RootJudged
<1>3. Sound(request, setAction) /\ (setAction = Ok <=> AllRight(request))
  BY SetActionJudged
<1> HIDE DEF isRoot, setAction
<1>4. ASSUME Right(request, <<>>)
      PROVE  /\ Sound(request, rest)
             /\ rest = Ok <=> Right(request, <<"op">>) /\ setAction = Ok
  BY <1>3, <1>4, OpJudged
<1> HIDE DEF rest
<1>5. /\ Sound(request, Then(isRoot, rest))
      /\ Then(isRoot, rest) = Ok <=> isRoot = Ok /\ rest = Ok
  BY <1>2, <1>4, ThenSound
<1>6. AllRight(request) => Right(request, <<>>) /\ Right(request, <<"op">>)
  BY Zenon DEF AllRight
<1> QED
  BY <1>1, <1>2, <1>3, <1>4, <1>5, <1>6

----------------------------------------------------------------------------
\* What all the checks ask for is the contract.  A field that the contract lacks
\* stands in an object; of those with the shortest path, that object is one of
\* the contract's, or stands below context.
LEMMA AllRightSplit ==
  ASSUME NEW request
  PROVE  AllRight(request)
           <=> /\ \A path \in ContractPaths : Right(request, path)
               /\ \A path \in ObjectPaths \ {Context} : Closed(request, path)
<1>1. (\A path \in ObjectPaths : Right(request, path))
        <=> /\ Right(request, <<>>) /\ Right(request, <<"value">>)
            /\ Right(request, <<"value", "action">>)
            /\ Right(request, <<"value", "action", "interaction">>)
            /\ Right(request, <<"value", "state">>) /\ Right(request, Context)
            /\ Right(request, <<"value", "metadata">>)
  BY Zenon DEF ObjectPaths
<1>2. (\A path \in TextPaths : Right(request, path))
        <=> /\ Right(request, <<"session_id">>) /\ Right(request, <<"event_id">>)
            /\ Right(request, <<"value", "action", "name">>)
            /\ Right(request, <<"value", "action", "interaction", "content">>)
            /\ Right(request, <<"value", "state", "goal">>)
            /\ Right(request, <<"value", "state", "status">>)
            /\ Right(request, <<"value", "metadata", "provider">>)
            /\ Right(request, <<"value", "metadata", "model">>)
            /\ Right(request, <<"value", "metadata", "timestamp">>)
            /\ Right(request, <<"value", "metadata", "trace_id">>)
  BY Zenon DEF TextPaths
<1>3. (\A path \in ContractPaths : Right(request, path))
        <=> /\ \A path \in ObjectPaths : Right(request, path)
            /\ \A path \in TextPaths : Right(request, path)
            /\ Right(request, <<"op">>) /\ Right(request, <<"value", "action", "type">>)
  BY Zenon DEF ContractPaths
<1>4. (\A path \in ObjectPaths \ {Context} : Closed(request, path))
        <=> /\ Closed(request, <<>>) /\ Closed(request, <<"value">>)
            /\ Closed(request, <<"value", "action">>)
            /\ Closed(request, <<"value", "action", "interaction">>)
            /\ Closed(request, <<"value", "state">>)
            /\ Closed(request, <<"value", "metadata">>)
  BY ObjectPathsListed, Zenon DEF ObjectPaths
<1> QED
  BY <1>1, <1>2, <1>3, <1>4
  DEF AllRight, ValueRight, ActionRight, InteractionRight, StateRight, MetadataRight

\* Below an object that the contract allows, only what it allows.
LEMMA ChildAllowed ==
  ASSUME NEW request, IsRequest(request), AllRight(request),
         NEW p \in DOMAIN request, p # <<>>, Allowed(Parent(p))
  PROVE  Allowed(p)
<1> DEFINE q == Parent(p)
           name == p[Len(p)]
<1>1. /\ q \in Seq(Name) /\ name \in Name /\ p = Append(q, name)
      /\ q \in DOMAIN request /\ request[q] = Object
  BY LastName DEF IsRequest, HasPlace
<1>2. q \in ContractPaths \/ IsOpen(q)
  BY ContractRows DEF Allowed
<1>3. /\ \A path \in ContractPaths : Right(request, path)
      /\ \A path \in ObjectPaths \ {Context} : Closed(request, path)
  BY AllRightSplit
<1>4. q \in DOMAIN request /\ Parent(p) = q
  BY <1>1
<1> HIDE DEF q, name
<1>5. CASE q = Context \/ IsOpen(q)
  BY <1>1, <1>5, OpenBelow DEF Allowed
<1>6. CASE q \in ContractPaths /\ q # Context
  <2>1. Object \in Contract[q]
    BY <1>1, <1>3, <1>6 DEF Right
  <2>2. Object \notin Texts /\ SetOperations \subseteq Texts /\ MessageTypes \subseteq Texts
    BY JsonAssumption
  <2>3. q \in ObjectPaths \ {Context}
    BY <1>6, <2>1, <2>2, ContractRows, Zenon DEF ContractPaths
  <2> QED
    BY <1>3, <1>4, <2>3 DEF Closed
<1> QED
  BY <1>2, <1>5, <1>6

LEMMA AllRightIsTheContract ==
  ASSUME NEW request, IsRequest(request)
  PROVE  AllRight(request) <=> Conforms(request)
<1>1. DOMAIN Contract = ContractPaths
  BY ContractRows
<1>2. ASSUME Conforms(request)
      PROVE  AllRight(request)
  <2>1. \A path \in ContractPaths : Right(request, path)
    BY <1>1, <1>2 DEF Conforms, Right
  <2>2. \A path : Closed(request, path)
    BY <1>2 DEF Conforms, Closed
  <2> QED
    BY <2>1, <2>2, AllRightSplit
<1>3. ASSUME AllRight(request)
      PROVE  Conforms(request)
  <2>1. \A path \in DOMAIN Contract :
           path \in DOMAIN request /\ request[path] \in Contract[path]
    BY <1>1, <1>3, AllRightSplit DEF Right
  <2>2. ASSUME NEW odd \in DOMAIN request, ~Allowed(odd)
        PROVE  FALSE
    <3> DEFINE Lengths == {Len(p) : p \in {q \in DOMAIN request : ~Allowed(q)}}
    <3>1. DOMAIN request \subseteq Seq(Name)
      BY DEF IsRequest
    <3>2. Lengths \in SUBSET Nat /\ Lengths # {}
      <4>1. \A p \in DOMAIN request : Len(p) \in Nat
        BY <3>1, LenProperties
      <4>2. Len(odd) \in Lengths
        BY <2>2
      <4> QED
        BY <4>1, <4>2
    <3>3. PICK m \in Lengths : \A n \in Lengths : m <= n
      <4> HIDE DEF Lengths
      <4> QED
        BY <3>2, LeastNatural
    <3>4. PICK p \in DOMAIN request : ~Allowed(p) /\ m = Len(p)
      OBVIOUS
    <3>5. p \in Seq(Name) /\ p # <<>>
      <4>1. Allowed(<<>>)
        BY <1>1, ObjectPathsListed, Zenon DEF Allowed, ContractPaths
      <4> QED
        BY <3>1, <3>4, <4>1
    <3>6. Parent(p) \in DOMAIN request /\ Len(p) = Len(Parent(p)) + 1 /\ Len(Parent(p)) \in Nat
      BY <3>5, LastName DEF IsRequest, HasPlace
    <3>7. Len(Parent(p)) \notin Lengths
      BY <3>3, <3>4, <3>6
    <3>8. Allowed(Parent(p))
      BY <3>6, <3>7
    <3> QED
      BY <1>3, <3>4, <3>5, <3>8, ChildAllowed
  <2> QED
    BY <2>1, <2>2 DEF Conforms
<1> QED
  BY <1>2, <1>3

----------------------------------------------------------------------------
\* What the client does keeps the input a request.
LEMMA AnyOfIsOne ==
  ASSUME NEW wanted, wanted # {}
  PROVE  AnyOf(wanted) \in wanted
  BY DEF AnyOf

LEMMA ContractOffers ==
  ASSUME NEW path \in ContractPaths
  PROVE  /\ AnyOf(Contract[path]) \in Contract[path]
         /\ Contract[path] \subseteq Texts \cup {Object}
         /\ path \in ObjectPaths => AnyOf(Contract[path]) = Object
<1>1. /\ SetOperations # {} /\ SetOperations \subseteq Texts
      /\ MessageTypes # {} /\ MessageTypes \subseteq Texts
  BY JsonAssumption DEF SetOperations, MessageTypes
<1>2. \/ path \in ObjectPaths /\ Contract[path] = {Object}
      \/ Contract[path] \in {Texts, SetOperations, MessageTypes}
  BY ContractRows, Zenon DEF ContractPaths
<1>3. Contract[path] # {} /\ Contract[path] \subseteq Texts \cup {Object}
  BY <1>1, <1>2
<1>4. AnyOf(Contract[path]) \in Contract[path]
  BY <1>3, AnyOfIsOne
<1>5. path \in ObjectPaths => AnyOf(Contract[path]) = Object
  BY <1>4, ContractRows
<1> QED
  BY <1>3, <1>4, <1>5

LEMMA BelowParent ==
  ASSUME NEW p \in Seq(Name), p # <<>>, NEW path \in Seq(Name)
  PROVE  /\ IsBelow(Parent(p), path) => IsBelow(p, path)
         /\ IsBelow(path, path)
         /\ ~IsBelow(Parent(p), p)
<1> DEFINE q == Parent(p)
<1>1. q \in Seq(Name) /\ Len(p) = Len(q) + 1 /\ p = Append(q, p[Len(p)]) /\ p[Len(p)] \in Name
  BY LastName
<1> HIDE DEF q
<1>2. \A i \in 1..Len(q) : p[i] = q[i]
  BY <1>1, AppendProperties
<1>3. ASSUME IsBelow(q, path)
      PROVE  IsBelow(p, path)
  <2>1. Len(path) \in Nat /\ Len(q) \in Nat /\ Len(q) >= Len(path) /\ SubSeq(q, 1, Len(path)) = path
    BY <1>1, <1>3 DEF IsBelow
  <2>2. SubSeq(p, 1, Len(path)) = SubSeq(q, 1, Len(path))
    BY <1>1, <1>2, <2>1
  <2> QED
    BY <1>1, <2>1, <2>2 DEF IsBelow
<1>4. IsBelow(path, path)
  BY SubSeqFull DEF IsBelow
<1>5. ~IsBelow(q, p)
  BY <1>1 DEF IsBelow
<1> QED
  BY <1>3, <1>4, <1>5 DEF q

LEMMA WithoutIsRequest ==
  ASSUME NEW request, IsRequest(request), NEW path \in Seq(Name) \ {<<>>}
  PROVE  IsRequest(Without(request, path))
<1> DEFINE new == Without(request, path)
<1>1. /\ DOMAIN new = {p \in DOMAIN request : ~IsBelow(p, path)}
      /\ \A p \in DOMAIN new : new[p] = request[p]
  BY DEF Without
<1> HIDE DEF new
<1>2. <<>> \in DOMAIN new
  <2>1. ~IsBelow(<<>>, path)
    BY DEF IsBelow
  <2> QED
    BY <1>1, <2>1 DEF IsRequest
<1>3. DOMAIN new \subseteq Seq(Name)
  BY <1>1 DEF IsRequest
<1>4. ASSUME NEW p \in DOMAIN new
      PROVE  HasPlace(new, p) /\ new[p] \in Texts \cup {Object, Other}
  <2>1. p \in DOMAIN request /\ ~IsBelow(p, path) /\ new[p] = request[p]
    BY <1>1
  <2>2. HasPlace(request, p) /\ request[p] \in Texts \cup {Object, Other}
    BY <2>1 DEF IsRequest
  <2>3. CASE p = <<>>
    BY <2>1, <2>2, <2>3 DEF HasPlace
  <2>4. CASE p # <<>>
    <3>1. Parent(p) \in DOMAIN request /\ request[Parent(p)] = Object
      BY <2>2, <2>4 DEF HasPlace
    <3>2. ~IsBelow(Parent(p), path)
      BY <1>3, <2>1, <2>4, BelowParent
    <3> QED
      BY <1>1, <2>1, <2>2, <3>1, <3>2 DEF HasPlace
  <2> QED
    BY <2>3, <2>4
<1> QED
  BY <1>2, <1>3, <1>4 DEF IsRequest, new

LEMMA WithIsRequest ==
  ASSUME NEW request, IsRequest(request), NEW path \in Seq(Name), HasPlace(request, path),
         NEW x \in Texts \cup {Object, Other}
  PROVE  IsRequest(With(request, path, x))
<1> DEFINE new == With(request, path, x)
<1>1. /\ DOMAIN new = {path} \cup {p \in DOMAIN request : ~IsBelow(p, path)}
      /\ new[path] = x
      /\ \A p \in DOMAIN new : p # path => new[p] = request[p]
  BY DEF With, Without
<1> HIDE DEF new
<1>2. <<>> \in DOMAIN new
  <2>1. path # <<>> => ~IsBelow(<<>>, path)
    BY DEF IsBelow
  <2> QED
    BY <1>1, <2>1 DEF IsRequest
<1>3. DOMAIN new \subseteq Seq(Name)
  BY <1>1 DEF IsRequest
<1>4. ASSUME NEW p \in DOMAIN new
      PROVE  HasPlace(new, p) /\ new[p] \in Texts \cup {Object, Other}
  <2>1. HasPlace(request, p)
    BY <1>1 DEF IsRequest
  <2>2. new[p] \in Texts \cup {Object, Other}
    BY <1>1 DEF IsRequest
  <2>3. CASE p = <<>>
    BY <2>2, <2>3 DEF HasPlace
  <2>4. CASE p # <<>>
    <3>1. Parent(p) \in DOMAIN request /\ request[Parent(p)] = Object
      BY <2>1, <2>4 DEF HasPlace
    <3>2. p = path \/ ~IsBelow(p, path)
      BY <1>1
    <3>3. ~IsBelow(Parent(p), path)
      BY <1>3, <2>4, <3>2, BelowParent
    <3>4. Parent(p) # path
      BY <3>3, BelowParent, <1>3, <2>4
    <3> QED
      BY <1>1, <2>2, <3>1, <3>3, <3>4 DEF HasPlace
  <2> QED
    BY <2>3, <2>4
<1> QED
  BY <1>2, <1>3, <1>4 DEF IsRequest, new

LEMMA ContractPlaces ==
  ASSUME NEW path \in ContractPaths, path # <<>>
  PROVE  Parent(path) \in ObjectPaths
<1> DEFINE Good(p) == Parent(p) \in ObjectPaths
<1>1. /\ Good(Append(<<>>, "op")) /\ Good(Append(<<>>, "session_id"))
      /\ Good(Append(<<>>, "event_id")) /\ Good(Append(<<>>, "value"))
  <2>1. <<>> \in Seq(Name)
    OBVIOUS
  <2> QED
    BY <2>1, NamesAreNames, ObjectPathsListed, ParentOfChild
<1>2. /\ Good(Append(<<"value">>, "action")) /\ Good(Append(<<"value">>, "state"))
      /\ Good(Append(<<"value">>, "metadata"))
  <2>1. <<"value">> \in Seq(Name)
    BY NamesAreNames
  <2> QED
    BY <2>1, NamesAreNames, ObjectPathsListed, ParentOfChild
<1>3. /\ Good(Append(<<"value", "action">>, "type"))
      /\ Good(Append(<<"value", "action">>, "name"))
      /\ Good(Append(<<"value", "action">>, "interaction"))
  <2>1. <<"value", "action">> \in Seq(Name)
    BY NamesAreNames
  <2> QED
    BY <2>1, NamesAreNames, ObjectPathsListed, ParentOfChild
<1>4. Good(Append(<<"value", "action", "interaction">>, "content"))
  <2>1. <<"value", "action", "interaction">> \in Seq(Name)
    BY NamesAreNames
  <2> QED
    BY <2>1, NamesAreNames, ObjectPathsListed, ParentOfChild
<1>5. /\ Good(Append(<<"value", "state">>, "goal")) /\ Good(Append(<<"value", "state">>, "status"))
      /\ Good(Append(<<"value", "state">>, "context"))
  <2>1. <<"value", "state">> \in Seq(Name)
    BY NamesAreNames
  <2> QED
    BY <2>1, NamesAreNames, ObjectPathsListed, ParentOfChild
<1>6. /\ Good(Append(<<"value", "metadata">>, "provider"))
      /\ Good(Append(<<"value", "metadata">>, "model"))
      /\ Good(Append(<<"value", "metadata">>, "timestamp"))
      /\ Good(Append(<<"value", "metadata">>, "trace_id"))
  <2>1. <<"value", "metadata">> \in Seq(Name)
    BY NamesAreNames
  <2> QED
    BY <2>1, NamesAreNames, ObjectPathsListed, ParentOfChild
<1>7. /\ Append(<<>>, "op") = <<"op">> /\ Append(<<>>, "session_id") = <<"session_id">>
      /\ Append(<<>>, "event_id") = <<"event_id">> /\ Append(<<>>, "value") = <<"value">>
      /\ Append(<<"value">>, "action") = <<"value", "action">>
      /\ Append(<<"value">>, "state") = <<"value", "state">>
      /\ Append(<<"value">>, "metadata") = <<"value", "metadata">>
  BY NamesAreNames, Pairs
<1> HIDE DEF Good
<1>8. \A p \in ObjectPaths \ {<<>>} : Good(p)
  <2>1. /\ Good(<<"value">>) /\ Good(<<"value", "action">>)
        /\ Good(<<"value", "action", "interaction">>) /\ Good(<<"value", "state">>)
        /\ Good(Context) /\ Good(<<"value", "metadata">>)
    BY <1>1, <1>2, <1>3, <1>5, <1>7, FieldPaths, Zenon
  <2> QED
    BY <2>1, Zenon DEF ObjectPaths
<1>9. \A p \in TextPaths : Good(p)
  <2>1. /\ Good(<<"session_id">>) /\ Good(<<"event_id">>)
        /\ Good(<<"value", "action", "name">>)
        /\ Good(<<"value", "action", "interaction", "content">>)
        /\ Good(<<"value", "state", "goal">>) /\ Good(<<"value", "state", "status">>)
        /\ Good(<<"value", "metadata", "provider">>)
        /\ Good(<<"value", "metadata", "model">>)
        /\ Good(<<"value", "metadata", "timestamp">>)
        /\ Good(<<"value", "metadata", "trace_id">>)
    BY <1>1, <1>3, <1>4, <1>5, <1>6, <1>7, FieldPaths, Zenon
  <2> QED
    BY <2>1, Zenon DEF TextPaths
<1>10. Good(<<"op">>) /\ Good(<<"value", "action", "type">>)
  BY <1>1, <1>3, <1>7, FieldPaths, Zenon
<1>11. Good(path)
  BY <1>8, <1>9, <1>10, Zenon DEF ContractPaths
<1> QED
  BY <1>11 DEF Good

LEMMA MinimalIsRequest == IsRequest(Minimal)
<1>1. /\ DOMAIN Minimal = ContractPaths
      /\ \A path \in ContractPaths : Minimal[path] = AnyOf(Contract[path])
  BY ContractRows DEF Minimal
<1>2. <<>> \in ContractPaths
  BY ObjectPathsListed DEF ContractPaths
<1>3. ASSUME NEW path \in ContractPaths
      PROVE  HasPlace(Minimal, path) /\ Minimal[path] \in Texts \cup {Object, Other}
  <2>1. Minimal[path] \in Texts \cup {Object, Other}
    BY <1>1, ContractOffers
  <2>2. CASE path = <<>>
    BY <2>1, <2>2 DEF HasPlace
  <2>3. CASE path # <<>>
    <3>1. Parent(path) \in ObjectPaths /\ Parent(path) \in ContractPaths
      BY <2>3, ContractPlaces DEF ContractPaths
    <3>2. Minimal[Parent(path)] = Object
      BY <1>1, <3>1, ContractOffers
    <3> QED
      BY <1>1, <2>1, <3>1, <3>2 DEF HasPlace
  <2> QED
    BY <2>2, <2>3
<1> QED
  BY <1>1, <1>2, <1>3, ContractPathType DEF IsRequest

----------------------------------------------------------------------------
\* The answer of JSON mode, in the terms of the contract.
LEMMA Answer ==
  ASSUME NEW request, IsParsed(request), IsRequest(request)
  PROVE  /\ Respond(request).ok \in BOOLEAN
         /\ Respond(request).ok <=> Conforms(request)
         /\ Respond(request).status = IF Conforms(request) THEN 0 ELSE 1
         /\ ValidateSetActionRequest(request).ok \in BOOLEAN
         /\ ValidateSetActionRequest(request).ok <=> Conforms(request)
         /\ ~Conforms(request) => Defect(request, Respond(request).message)
<1> DEFINE result == ValidateRequest(request)
           direct == ValidateSetActionRequest(request)
<1>1. Sound(request, result) /\ (result = Ok <=> Conforms(request))
  BY RequestJudged, AllRightIsTheContract
<1>2. Sound(request, direct) /\ (direct = Ok <=> Conforms(request))
  BY SetActionJudged, AllRightIsTheContract
<1>3. /\ Respond(request) = IF result.ok THEN [ok |-> TRUE, status |-> 0]
                            ELSE [ok |-> FALSE, type |-> "validation_error",
                                  message |-> result, status |-> 1]
  <2>1. ~(parse(request) = "out_of_range") /\ request \notin {Unparsable, Unprintable}
    BY DEF IsParsed, parse
  <2> QED
    BY <2>1 DEF Respond
<1> HIDE DEF result, direct
<1>4. Ok.ok = TRUE
  BY DEF Ok
<1>5. CASE Conforms(request)
  <2>1. Respond(request) = [ok |-> TRUE, status |-> 0]
    BY <1>1, <1>3, <1>4, <1>5
  <2>2. Respond(request).ok = TRUE /\ Respond(request).status = 0
    BY <2>1
  <2>3. direct.ok = TRUE
    BY <1>2, <1>4, <1>5
  <2> QED
    BY <1>5, <2>2, <2>3 DEF direct
<1>6. CASE ~Conforms(request)
  <2>1. result.ok = FALSE /\ Defect(request, result)
    BY <1>1, <1>6 DEF Sound
  <2>2. direct.ok = FALSE
    BY <1>2, <1>6 DEF Sound
  <2>3. Respond(request) = [ok |-> FALSE, type |-> "validation_error",
                            message |-> result, status |-> 1]
    BY <1>3, <2>1
  <2>4. /\ Respond(request).ok = FALSE /\ Respond(request).status = 1
        /\ Respond(request).message = result
    BY <2>3
  <2> QED
    BY <1>6, <2>1, <2>2, <2>4 DEF direct
<1> QED
  BY <1>5, <1>6

LEMMA MistakeKeepsRequest ==
  ASSUME InputIsARequest, Mistake
  PROVE  InputIsARequest'
<1>1. CASE input' \in {Unparsable, Unprintable, OutOfRange}
  BY <1>1 DEF InputIsARequest, IsParsed, parse
<1>2. ASSUME IsParsed(input), NEW path \in DOMAIN input \ {<<>>},
             input' = Without(input, path)
      PROVE  InputIsARequest'
  <2>1. IsRequest(input) /\ path \in Seq(Name) \ {<<>>}
    BY <1>2 DEF InputIsARequest, IsRequest
  <2>2. IsRequest(input')
    BY <1>2, <2>1, WithoutIsRequest
  <2> QED
    BY <2>2 DEF InputIsARequest
<1>3. ASSUME IsParsed(input), NEW path \in Places(input),
             NEW x \in {Object, Other, AnyOf(Texts \ SetOperations)},
             input' = With(input, path, x)
      PROVE  InputIsARequest'
  <2>1. IsRequest(input) /\ HasPlace(input, path)
    BY <1>3 DEF InputIsARequest, Places
  <2>2. path \in Seq(Name)
    <3>1. \/ path \in ContractPaths
          \/ \E p \in ContractPaths : path = Append(p, "extra")
      BY ContractRows DEF Places
    <3>2. "extra" \in Name
      BY NameAssumption
    <3> QED
      BY <3>1, <3>2, ContractPathType, ParentOfChild
  <2>3. x \in Texts \cup {Object, Other}
    <3>1. "user_message" \in Texts \ SetOperations
      BY JsonAssumption DEF MessageTypes, SetOperations
    <3>2. AnyOf(Texts \ SetOperations) \in Texts
      BY <3>1, AnyOfIsOne
    <3> QED
      BY <3>2
  <2>4. IsRequest(input')
    BY <1>3, <2>1, <2>2, <2>3, WithIsRequest
  <2> QED
    BY <2>4 DEF InputIsARequest
<1> QED
  BY <1>1, <1>2, <1>3 DEF Mistake

LEMMA RepairKeepsRequest ==
  ASSUME InputIsARequest, Repair
  PROVE  InputIsARequest'
<1>1. CASE ~IsParsed(input)
  <2>1. input' = Minimal
    BY <1>1 DEF Repair
  <2> QED
    BY <2>1, MinimalIsRequest DEF InputIsARequest
<1>2. CASE IsParsed(input)
  <2> DEFINE error == Respond(input).message
  <2>1. IsRequest(input)
    BY <1>2 DEF InputIsARequest
  <2>2. Defect(input, error) /\ input' \in Repaired(input, error)
    BY <1>2, <2>1, Answer DEF Repair
  <2> HIDE DEF error
  <2>3. CASE error.rule = "unknown field below"
    <3>1. PICK path \in DOMAIN input : path # <<>> /\ input' = Without(input, path)
      BY <2>2, <2>3 DEF Repaired
    <3>2. path \in Seq(Name) \ {<<>>}
      BY <2>1, <3>1 DEF IsRequest
    <3>3. IsRequest(input')
      BY <2>1, <3>1, <3>2, WithoutIsRequest
    <3> QED
      BY <3>3 DEF InputIsARequest
  <2>4. CASE error.rule # "unknown field below"
    <3> DEFINE path == error.path
               x == AnyOf(Contract[path])
    <3>1. input' = With(input, path, x)
      BY <2>2, <2>4 DEF Repaired
    <3>2. path \in ContractPaths /\ (HasPlace(input, path) \/ path \in DOMAIN input)
      BY <2>2, <2>4 DEF Defect
    <3>3. HasPlace(input, path)
      BY <2>1, <3>2 DEF IsRequest
    <3>4. path \in Seq(Name)
      BY <3>2, ContractPathType
    <3>5. x \in Texts \cup {Object, Other}
      BY <3>2, ContractOffers
    <3>6. IsRequest(input')
      BY <2>1, <3>1, <3>3, <3>4, <3>5, WithIsRequest
    <3> QED
      BY <3>6 DEF InputIsARequest
  <2> QED
    BY <2>3, <2>4
<1> QED
  BY <1>1, <1>2

\* Following the errors never builds a document that is no JSON
\* (ValidateSetActionRequest: every object is checked before its fields).
THEOREM InputAlwaysARequest == Spec => []InputIsARequest
<1>1. Init => InputIsARequest
  BY SeedsAssumption DEF Init, InputIsARequest
<1>2. InputIsARequest /\ [Next]_vars => InputIsARequest'
  <2>1. CASE UNCHANGED vars
    BY <2>1 DEF vars, InputIsARequest
  <2> QED
    BY <2>1, MistakeKeepsRequest, RepairKeepsRequest DEF Next
<1> QED
  BY <1>1, <1>2, PTL DEF Spec

\* JSON mode accepts what the contract allows, and nothing else; both entries of
\* the validator agree (ValidateRequest, ValidateSetActionRequest).
THEOREM AlwaysAcceptsTheContract == Spec => []AcceptsTheContract
<1>1. InputIsARequest => AcceptsTheContract
  <2> SUFFICES ASSUME InputIsARequest
               PROVE  AcceptsTheContract
    OBVIOUS
  <2>1. CASE ~IsParsed(input)
    <3>1. \/ Respond(input) = [ok |-> FALSE, type |-> "parse_error", status |-> 1]
          \/ Respond(input) = Terminated
      <4>1. \/ input \in {Unparsable, Unprintable}
            \/ parse(input) = "out_of_range"
        BY <2>1 DEF IsParsed, parse
      <4>2. CASE parse(input) = "out_of_range" \/ input = Unprintable
        BY <4>2 DEF Respond
      <4>3. CASE ~(parse(input) = "out_of_range" \/ input = Unprintable)
        BY <4>1, <4>3 DEF Respond
      <4> QED
        BY <4>2, <4>3
    <3> DEFINE answer == Respond(input)
    <3>2. answer.ok = FALSE /\ answer.status # 0
      BY <3>1 DEF Terminated
    <3> HIDE DEF answer
    <3>3. (answer.status = 0) = FALSE
      BY <3>2
    <3>4. IsParsed(input) = FALSE
      BY <2>1 DEF IsParsed
    <3> QED
      BY <3>2, <3>3, <3>4 DEF AcceptsTheContract, answer
  <2>2. CASE IsParsed(input)
    <3>1. IsRequest(input)
      BY <2>2 DEF InputIsARequest
    <3>2. Conforms(input) \in BOOLEAN
      BY DEF Conforms
    <3> QED
      BY <2>2, <3>1, <3>2, Answer DEF AcceptsTheContract
  <2> QED
    BY <2>1, <2>2
<1> QED
  BY <1>1, InputAlwaysARequest, PTL

\* A rejected request has the defect its error names, at the path it names.
THEOREM ErrorAlwaysNamesADefect == Spec => []ErrorNamesADefect
<1>1. InputIsARequest => ErrorNamesADefect
  <2> SUFFICES ASSUME InputIsARequest, IsParsed(input), ~Respond(input).ok
               PROVE  ErrorNamesADefect
    BY DEF ErrorNamesADefect
  <2> DEFINE error == Respond(input).message
  <2>1. Defect(input, error)
    BY Answer DEF InputIsARequest
  <2>2. DOMAIN Contract = ContractPaths
    BY ContractRows
  <2> HIDE DEF error
  <2>3. CASE error.rule = "missing"
    BY <2>1, <2>2, <2>3 DEF Defect, ErrorNamesADefect, error, Places
  <2>4. CASE error.rule = "type"
    BY <2>1, <2>2, <2>4 DEF Defect, ErrorNamesADefect, error, Places
  <2>5. CASE error.rule = "value"
    BY <2>1, <2>2, <2>5 DEF Defect, ErrorNamesADefect, error, Places
  <2>6. CASE error.rule = "unknown field below"
    BY <2>1, <2>2, <2>6 DEF Defect, ErrorNamesADefect, error, Places
  <2> QED
    BY <2>1, <2>3, <2>4, <2>5, <2>6 DEF Defect
<1> QED
  BY <1>1, InputAlwaysARequest, PTL
=============================================================================
