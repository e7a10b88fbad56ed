------------------------------ MODULE Workflow ------------------------------
(***************************************************************************)
(* Action definitions (internal/workflow): how a document becomes a        *)
(* definition, when a definition is accepted, what is stored of it and     *)
(* what is compiled from it.                                               *)
(*                                                                         *)
(* A document and a definition are records of the fields of type Action.   *)
(* layout stands for what formatting leaves open (white space, the order   *)
(* of keys, YAML or JSON), and instr.layout for the same inside the        *)
(* instructions, which are kept as raw JSON.  A duration is its value and  *)
(* its spelling.  An expression is the type that CEL's checker gives it,   *)
(* "broken" if it does not compile, "" if it is absent.                    *)
(***************************************************************************)
EXTENDS Integers, Sequences, FiniteSets

CONSTANTS
  Names,    \* names that match nameRE
  Queues,   \* names that match queueRE
  Unset     \* an optional field that is absent

Expressions == {"", "broken", "dyn", "bool", "string", "int", "other"}

Duration == [value : Int, spelling : {"standard", "other"}]

Input == [queue : STRING, filter : Expressions, correlate : Expressions]

\* SubprocessInstructions; unknownField: another key is there.
Instructions ==
  [command : Seq(STRING), timeout : Duration \cup {Unset}, unknownField : BOOLEAN,
   layout : {"plain", "other"}]

\* Action, with the layout of its text and what is wrong with that.
Document ==
  [name : STRING, actor : STRING, inputs : Seq(Input), output : STRING,
   instr : Instructions \cup {Unset}, concurrency : Int \cup {Unset},
   maxAttempts : Int \cup {Unset}, joinTimeout : Duration \cup {Unset},
   layout : {"plain", "other"}, form : {"json", "yaml"},
   fault : {"none", "syntax", "unknown field", "trailing content", "empty"}]

ASSUME WorkflowAssumption ==
  Unset \notin Duration \cup Instructions \cup Int

\* The document, and what is wrong with its text: "syntax", "unknown field",
\* "trailing content", "empty".
Decodes(doc, form) ==
  /\ doc.fault = "none"
  /\ doc.form = "yaml" => form = "yaml"

\* instructions are kept as raw JSON, normalised: the layout is lost, the
\* spelling of a duration in it is not.
Normalize(d) ==
  IF d.instr = Unset THEN d ELSE [d EXCEPT !.instr.layout = "plain"]

\* IsJoin: validation has made correlate_on all or nothing.
IsJoin(d) == d.inputs # <<>> /\ d.inputs[1].correlate # ""

Correlated(d) == {i \in DOMAIN d.inputs : d.inputs[i].correlate # ""}

validateInputs(d) ==
  /\ d.inputs # <<>>
  /\ \A i \in DOMAIN d.inputs :
       /\ d.inputs[i].queue \in Queues
       /\ d.inputs[i].queue # d.output
       /\ \A j \in 1..(i - 1) : d.inputs[j].queue # d.inputs[i].queue
  /\ Correlated(d) # {} => Correlated(d) = DOMAIN d.inputs /\ Len(d.inputs) >= 2

validateInstructions(d) ==
  /\ d.instr # Unset
  /\ ~d.instr.unknownField
  /\ d.instr.command # <<>> /\ d.instr.command[1] # ""
  /\ d.instr.timeout # Unset => d.instr.timeout.value > 0

\* compileTyped: what is known not to have one of the wanted types is refused;
\* "dyn" is left to the evaluation.
compileTyped(e, want) == e \in {"", "dyn"} \cup want

Compiles(d) ==
  \A i \in DOMAIN d.inputs :
    /\ compileTyped(d.inputs[i].filter, {"bool"})
    /\ compileTyped(d.inputs[i].correlate, {"string", "int"})

\* The compiled programs, by input position.
Compile(d) ==
  [i \in DOMAIN d.inputs |-> [filter |-> d.inputs[i].filter, correlate |-> d.inputs[i].correlate]]

Validate(d) ==
  /\ d.name \in Names
  /\ d.actor = "subprocess"
  /\ validateInputs(d)
  /\ validateInstructions(d)
  /\ d.output \in Queues \cup {""}
  /\ d.concurrency # Unset => d.concurrency >= 1
  /\ d.maxAttempts # Unset => d.maxAttempts >= 1
  /\ d.joinTimeout # Unset => IsJoin(d) /\ d.joinTimeout.value > 0
  /\ Compiles(d)

\* ParseJSON and ParseYAML: the text decodes, strictly, and the definition is
\* valid.  A document in JSON is one in YAML, not the other way round.
Accepted(doc, form) == Decodes(doc, form) /\ Validate(Normalize(doc))

\* Mutated form: the caller's text is stored.
Canonical_Verbatim(d) == d

\* The stored form: fixed layout, join_timeout in the spelling of
\* Duration.String.
Canonical(d) ==
  [Normalize(d) EXCEPT
     !.layout = "plain", !.form = "json",
     !.joinTimeout = IF @ = Unset THEN Unset ELSE [@ EXCEPT !.spelling = "standard"]]

=============================================================================
