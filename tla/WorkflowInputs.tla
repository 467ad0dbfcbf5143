----------------------------- MODULE WorkflowInputs -----------------------------
(***************************************************************************)
(* The inputs of a workflow in the Studio's panel (WorkflowInspector): the  *)
(* fields its Input node declares, kept as the keys of one JSON object and  *)
(* shown as a list of rows in the order of its keys.  An edit rebuilds the  *)
(* object, and an object has one value for a key and puts a key that is a   *)
(* number before the others.  The text a test run takes as its input is     *)
(* written anew for every new declaration, and can be typed over (TestPanel).*)
(*                                                                         *)
(* A row is known by its name, so a name being typed is another row at      *)
(* every keystroke and the keyboard focus is lost; that, the undo stack     *)
(* (StudioEditor) and the panel's other sections are left out.             *)
(***************************************************************************)
EXTENDS Naturals, Sequences, FiniteSets, SequencesExt

CONSTANTS FieldName,  \* what can be typed as a name
          Number,     \* those that are a number; one at most, see Ordered
          Suggested,  \* "field", "field_2", ..., as many as can be needed
          Declared,   \* the types that can be declared
          MaxFields   \* bound on the fields

ASSUME InputsAssumption ==
    /\ Number \subseteq FieldName /\ IsFiniteSet(Number) /\ Cardinality(Number) <= 1
    /\ Suggested \in Seq(FieldName \ Number) /\ Len(Suggested) > MaxFields /\ MaxFields \in Nat
    /\ \A i, j \in 1..Len(Suggested) : Suggested[i] = Suggested[j] => i = j
    /\ "any" \in Declared

VARIABLES inputNode, \* whether the canvas has an Input node
          schema,    \* its fields, in order
          seeded,    \* the fields the input of a test was last written for
          testInput  \* that input: what it gives to each field, or Typed over

inputVars == <<inputNode, schema, seeded, testInput>>

Field(name, type) == [name |-> name, type |-> type]
Names(fields) == {field.name : field \in ToSet(fields)}
TypeFor(fields, name) == (CHOOSE field \in ToSet(fields) : field.name = name).type

-----------------------------------------------------------------------------
(* The object.                                                             *)

(* next[key] = value: in its place if it is there, last if it is not.      *)
Assign(fields, field) ==
    IF field.name \in Names(fields)
    THEN [i \in 1..Len(fields) |-> IF fields[i].name = field.name THEN field ELSE fields[i]]
    ELSE Append(fields, field)

Ordered(fields) ==
    LET at == SelectInSeq(fields, LAMBDA field : field.name \in Number) IN
    IF at = 0 THEN fields ELSE <<fields[at]>> \o RemoveAt(fields, at)

-----------------------------------------------------------------------------
(* The input of a test run.                                                *)

ExampleOf(type) ==
    CASE type = "number" -> "0" [] type = "boolean" -> "false" [] OTHER -> "empty"

Typed == {"typed"}

(* After a change of the drawing: a declaration other than the one the text *)
(* was written for writes it anew.                                         *)
Seeds(fields) ==
    /\ seeded' = fields
    /\ IF seeded = fields THEN UNCHANGED testInput
       ELSE testInput' = {<<field.name, ExampleOf(field.type)>> : field \in ToSet(fields)}

(* A panel's change of the declaration.                                    *)
Declare(fields) ==
    /\ schema' = fields /\ Seeds(fields)
    /\ UNCHANGED inputNode

TypeTestInput ==
    /\ testInput' = Typed
    /\ UNCHANGED <<inputNode, schema, seeded>>

-----------------------------------------------------------------------------
(* The rows.                                                               *)

Shown == inputNode

(* Mutant: the field is deleted and added again under its new name. *)
RenameField_AtTheEnd(name, typed) ==
    /\ Shown /\ typed # name
    /\ LET others == SelectSeq(schema, LAMBDA field : field.name # name) IN
       Declare(Ordered(Assign(others, Field(typed, TypeFor(schema, name)))))

(* One keystroke in a name.  The object is rebuilt in order; of two fields  *)
(* that come to have one name the later gives its type.                    *)
RenameField(name, typed) ==
    /\ Shown /\ typed # name
    /\ LET Renamed(field) == IF field.name = name THEN Field(typed, field.type) ELSE field IN
       Declare(Ordered(FoldLeft(LAMBDA fields, field : Assign(fields, Renamed(field)),
                                <<>>, schema)))

RetypeField(name, type) ==
    /\ Shown
    /\ Declare(Assign(schema, Field(name, type)))

RemoveField(name) ==
    /\ Shown
    /\ Declare(RemoveAt(schema, SelectInSeq(schema, LAMBDA field : field.name = name)))

(* The first suggestion that is not taken.                                 *)
RequireField ==
    /\ Shown /\ Len(schema) < MaxFields
    /\ LET free == SelectInSeq(Suggested, LAMBDA name : name \notin Names(schema)) IN
       Declare(Ordered(Assign(schema, Field(Suggested[free], "any"))))

(* The Input node itself, on the canvas.  A fresh one declares a loan_id;   *)
(* the one of a blank workflow, and one whose settings as JSON are made to  *)
(* hold no object, declare nothing, and then nothing is written.           *)
RemoveInputNode ==
    /\ inputNode' = FALSE /\ schema' = <<>>
    /\ UNCHANGED <<seeded, testInput>>

AddInputNode ==
    /\ ~inputNode
    /\ inputNode' = TRUE
    /\ LET declared == <<Field("loan_id", "string")>> IN
       schema' = declared /\ Seeds(declared)

DeclareNothing ==
    /\ Shown /\ schema' = <<>>
    /\ UNCHANGED <<inputNode, seeded, testInput>>

InputsInit == inputNode = TRUE /\ schema = <<>> /\ seeded = <<>> /\ testInput = {}

InputsNext ==
    \/ \E name \in Names(schema) :
          \/ \E typed \in FieldName : RenameField(name, typed)
          \/ \E type \in Declared : RetypeField(name, type)
          \/ RemoveField(name)
    \/ RequireField \/ TypeTestInput
    \/ RemoveInputNode \/ AddInputNode \/ DeclareNothing

-----------------------------------------------------------------------------
InOrder(fields, first, second) ==
    \E i, j \in 1..Len(fields) : i < j /\ fields[i].name = first /\ fields[j].name = second

(* A field that is not being edited keeps its name, its type and its place  *)
(* among the others, whatever the panel does to one: a name being typed     *)
(* stays where it is unless it is a number, and the only field it can move  *)
(* or retype is the one whose name it takes, which ends as one with it      *)
(* ("renaming a field does not send it to the bottom of the list", Inputs). *)
KeepTheirPlace(before, after) ==
    LET kept == Names(before) \cap Names(after)
        gone == Names(before) \ Names(after)
        new == Names(after) \ Names(before)
        settled == kept \ Number
    IN  /\ Cardinality(Names(after)) = Len(after)
        /\ Cardinality(gone) <= 1 /\ Cardinality(new) <= 1
        /\ Cardinality({name \in kept : TypeFor(before, name) # TypeFor(after, name)}) <= 1
        /\ \E taken \in SUBSET settled :
              /\ Cardinality(taken) <= 1
              /\ taken # {} => gone # {} /\ new = {}
              /\ \A first, second \in settled \ taken :
                    InOrder(before, first, second) => InOrder(after, first, second)
        /\ \A name \in gone, fresh \in new \ Number, other \in settled :
              InOrder(before, name, other) => InOrder(after, fresh, other)

FieldsKeepTheirPlace ==
    [][inputNode /\ inputNode' /\ seeded' = schema' => KeepTheirPlace(schema, schema')]_inputVars

(* Unless somebody typed over it, the input of a test gives a value to what *)
(* is declared and to nothing else, so that what is tested is what a call   *)
(* by name will have to send; and typing is undone only by a declaration    *)
(* that was not there before.                                              *)
AsksWhatIsDeclared ==
    inputNode /\ schema # <<>> /\ testInput # Typed =>
        /\ {pair[1] : pair \in testInput} = Names(schema)
        /\ \A field \in ToSet(schema) : <<field.name, ExampleOf(field.type)>> \in testInput

TestAsksWhatIsDeclared ==
    /\ []AsksWhatIsDeclared
    /\ [][testInput = Typed /\ testInput' # Typed => schema' # schema]_inputVars

(* A declaration can be typed and tested as it is typed: both of the above  *)
(* (Inputs in WorkflowInspector, the seeding effect of the Studio page).    *)
InputsKeepTheirPlace == FieldsKeepTheirPlace /\ TestAsksWhatIsDeclared
=============================================================================
