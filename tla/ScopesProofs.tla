---------------------------- MODULE ScopesProofs ----------------------------
(***************************************************************************)
(* The parser's names, for every set of names, every nesting and every     *)
(* number of bindings.  First the keys of expanded lets: a key stands for  *)
(* its own value, because a binding is tested before its value is read and *)
(* inserted after it, and the value may hold lets.  Then all the maps      *)
(* against the stack of open constructs.                                   *)
(***************************************************************************)
EXTENDS Scopes, SelectionProofs, SequenceTheorems, FiniteSetTheorems, FunctionTheorems, TLAPS

Typed == /\ keep_let \in BOOLEAN
         /\ let_key_map \in KeyMap
         /\ preserving_let_key_map \in KeyMap
         /\ frames \in Seq(Frame)
         /\ binders \in 0..MaxBinders

(* The map is the union of the keys of the open lets.                      *)
KeysInMap == \A i \in OpenLets : \A s \in NamesIn(i) : let_key_map[s] # None
MapInKeys == \A s \in Name :
    let_key_map[s] # None => \E i \in OpenLets : s \in NamesIn(i)

(* Two open lets have no key in common.                                    *)
KeysApart == \A i, k \in OpenLets : i # k => NamesIn(i) \cap NamesIn(k) = {}

(* The name whose value is being read is not a key of a let around it: it  *)
(* was tested, and only lets inside of the value have been opened since.   *)
NameFree == \A i \in OpenLets : frames[i].stage = "value" =>
    \A s \in frames[i].name : \A k \in OpenLets :
        k <= i => s \notin NamesIn(k)

KeysInv == ~keep_let =>
    /\ BindVarsDiffer
    /\ error = "none" => KeysInMap /\ MapInKeys /\ KeysApart /\ NameFree

-----------------------------------------------------------------------------
(* Types.                                                                  *)
LEMMA TypedInit == Init => Typed
BY ScopesAssumption DEF Init, Typed, KeyMap, NoKeys

\* The innermost construct is a frame.
LEMMA TopTyped ==
    ASSUME Typed, frames # << >>
    PROVE  /\ Len(frames) \in Nat \ {0}
           /\ Len(frames) \in DOMAIN frames
           /\ Top \in Frame
BY DEF Typed, Top

\* Exchanging the innermost frame leaves the others.
LEMMA ChangedTyped ==
    ASSUME Typed, frames # << >>, NEW f \in Frame
    PROVE  /\ WithTop(f) \in Seq(Frame)
           /\ Len(WithTop(f)) = Len(frames)
           /\ \A i \in DOMAIN frames :
                 WithTop(f)[i] = IF i = Len(frames) THEN f ELSE frames[i]
BY TopTyped DEF Typed, WithTop

\* Taking off the innermost frame leaves the others.
LEMMA PoppedTyped ==
    ASSUME Typed, frames # << >>
    PROVE  /\ Popped \in Seq(Frame)
           /\ DOMAIN Popped = (DOMAIN frames) \ {Len(frames)}
           /\ \A i \in DOMAIN Popped : Popped[i] = frames[i]
BY TopTyped DEF Typed, Popped

\* A construct that is opened is a frame.
LEMMA OpenedTyped ==
    ASSUME NEW c \in Constructs, NEW s \in Stages
    PROVE  Opened(c, s) \in Frame
BY DEF Opened, Frame

\* A frame at another stage is a frame.
LEMMA StageTyped ==
    ASSUME Typed, frames # << >>, NEW s \in Stages
    PROVE  [Top EXCEPT !.stage = s] \in Frame
BY TopTyped DEF Frame

\* A frame with one more key has the keys it had.
LEMMA KeyTyped ==
    ASSUME NEW f \in Frame, NEW s \in Name, NEW v \in Binder, NEW w \in Binder
    PROVE  /\ WithKey(f, s, v, w) \in Frame
           /\ DOMAIN WithKey(f, s, v, w).keys = 1..Len(f.keys) + 1
           /\ \A j \in 1..Len(f.keys) : WithKey(f, s, v, w).keys[j] = f.keys[j]
           /\ WithKey(f, s, v, w).keys[Len(f.keys) + 1]
                 = [name |-> s, value |-> v, var |-> w]
           /\ WithKey(f, s, v, w).construct = f.construct
           /\ WithKey(f, s, v, w).stage = f.stage
<1> DEFINE key == [name |-> s, value |-> v, var |-> w]
<1>1. f.keys \in Seq(Key) /\ key \in Key
  BY DEF Frame, Key
<1>2. /\ Append(f.keys, key) \in Seq(Key)
      /\ DOMAIN Append(f.keys, key) = 1..Len(f.keys) + 1
      /\ \A j \in 1..Len(f.keys) : Append(f.keys, key)[j] = f.keys[j]
      /\ Append(f.keys, key)[Len(f.keys) + 1] = key
  BY <1>1
<1>3. WithKey(f, s, v, w) \in Frame
  BY <1>2 DEF Frame, WithKey
<1>4. /\ WithKey(f, s, v, w).keys = Append(f.keys, key)
      /\ WithKey(f, s, v, w).construct = f.construct
      /\ WithKey(f, s, v, w).stage = f.stage
  BY DEF Frame, WithKey
<1> HIDE DEF key
<1>5. QED  BY <1>2, <1>3, <1>4 DEF key
\* Going to another stage changes nothing else of the frames.
LEMMA StageKeeps ==
    ASSUME Typed, frames # << >>, NEW s \in Stages
    PROVE  /\ ToStage(s) \in Seq(Frame)
           /\ Len(ToStage(s)) = Len(frames)
           /\ \A i \in DOMAIN frames :
                 /\ ToStage(s)[i].construct = frames[i].construct
                 /\ ToStage(s)[i].keys = frames[i].keys
                 /\ ToStage(s)[i].name = frames[i].name
                 /\ ToStage(s)[i].stage = IF i = Len(frames) THEN s
                                          ELSE frames[i].stage
<1> DEFINE f == [Top EXCEPT !.stage = s]
<1>1. f \in Frame
  BY StageTyped
<1>2. /\ f.construct = Top.construct /\ f.keys = Top.keys
      /\ f.name = Top.name /\ f.stage = s
  BY TopTyped DEF Frame
<1>3. ToStage(s) = WithTop(f)
  BY DEF ToStage
<1> HIDE DEF f
<1> QED  BY <1>1, <1>2, <1>3, ChangedTyped DEF Top

\* Entering a value changes nothing of the frames but that nobody waits for a name.
LEMMA EnteredKeeps ==
    ASSUME Typed, frames # << >>
    PROVE  /\ Entered \in Seq(Frame)
           /\ Len(Entered) = Len(frames)
           /\ \A i \in DOMAIN frames :
                 /\ Entered[i].construct = frames[i].construct
                 /\ Entered[i].keys = frames[i].keys
                 /\ Entered[i].name = frames[i].name
                 /\ Entered[i].stage = "value" => frames[i].stage = "value"
<1>1. CASE Top.stage = "body"
  <2>1. Entered = ToStage("operands") /\ "operands" \in Stages
    BY <1>1 DEF Entered, Stages
  <2> QED  BY <2>1, StageKeeps
<1>2. CASE Top.stage # "body"
  BY <1>2 DEF Entered, Typed
<1> QED  BY <1>1, <1>2

-----------------------------------------------------------------------------
(* Every step keeps the types.                                             *)
LEMMA TypedStep == Typed /\ [Next]_vars => Typed'
<1> SUFFICES ASSUME Typed, [Next]_vars
             PROVE  Typed'
  OBVIOUS
<1> USE DEF Inner, CanOpen, Toplevel, letVars, quantVars, declVars
<1>1. ASSUME NEW s \in Name, DeclareVar(s) \/ DeclareFun(s)
      PROVE  Typed'
  BY <1>1, ScopesAssumption DEF Typed, DeclareVar, DeclareFun, Bind, Fresh
<1>2. ASSUME NEW s \in Name, NEW c \in {"define-fun", "define-fun-rec"},
             OpenDefine(c, s)
      PROVE  Typed'
  <2>1. CASE Fail("defined before")
    BY <1>2, <2>1 DEF Typed, OpenDefine, Fail
  <2>2. CASE ~Fail("defined before")
    <3>1. /\ frames' = <<[Opened(c, "list") EXCEPT !.name = {s}]>>
          /\ UNCHANGED <<keep_let, letVars, binders>>
      BY <1>2, <2>2 DEF OpenDefine
    <3>2. Opened(c, "list") \in Frame
      BY OpenedTyped DEF Constructs, Stages
    <3>3. [Opened(c, "list") EXCEPT !.name = {s}] \in Frame
      BY <3>2 DEF Frame
    <3> QED  BY <3>1, <3>3 DEF Typed
  <2> QED  BY <2>1, <2>2
<1>3. ASSUME OpenAssert
      PROVE  Typed'
  <2>1. Opened("assert", "operands") \in Frame
    BY OpenedTyped DEF Constructs, Stages
  <2> QED  BY <1>3, <2>1 DEF Typed, OpenAssert
<1>4. ASSUME CloseAssert \/ CloseDefine \/ CloseQuantifier
      PROVE  Typed'
  <2>1. frames # << >> /\ frames' = Popped
    BY <1>4 DEF CloseAssert, CloseDefine, CloseQuantifier
  <2>2. UNCHANGED <<keep_let, let_key_map, preserving_let_key_map>>
    BY <1>4 DEF CloseAssert, CloseDefine, CloseQuantifier
  <2>3. binders' \in 0..MaxBinders
    BY <1>4, ScopesAssumption
       DEF Typed, CloseAssert, CloseDefine, CloseQuantifier, Bind, Fresh
  <2> QED  BY <2>1, <2>2, <2>3, PoppedTyped DEF Typed
<1>5. ASSUME EndParameters \/ EndVariables \/ EndBindings
      PROVE  Typed'
  <2>1. PICK st \in Stages : frames # << >> /\ frames' = ToStage(st)
    BY <1>5 DEF EndParameters, EndVariables, EndBindings, Stages
  <2>2. UNCHANGED <<keep_let, let_key_map, preserving_let_key_map>>
    BY <1>5 DEF EndParameters, EndVariables, EndBindings
  <2>3. binders' \in 0..MaxBinders
    BY <1>5, ScopesAssumption
       DEF Typed, EndParameters, EndVariables, EndBindings, Bind, Fresh
  <2> QED  BY <2>1, <2>2, <2>3, StageKeeps DEF Typed
<1>6. ASSUME NEW s \in Name, Parameter(s) \/ QuantVar(s)
      PROVE  Typed'
  <2>1. CASE Parameter(s) /\ Fail("same parameter")
    BY <2>1 DEF Typed, Parameter, Fail
  <2>2. CASE ~(Parameter(s) /\ Fail("same parameter"))
    <3>1. /\ frames # << >> /\ Bind
          /\ frames' = WithTop(WithKey(Top, s, Fresh, Fresh))
          /\ UNCHANGED <<keep_let, let_key_map, preserving_let_key_map>>
      BY <1>6, <2>2 DEF Parameter, QuantVar
    <3>2. Fresh \in Binder /\ binders' \in 0..MaxBinders
      BY <3>1, ScopesAssumption DEF Typed, Bind, Fresh, Binder
    <3>3. WithKey(Top, s, Fresh, Fresh) \in Frame
      BY <3>1, <3>2, KeyTyped, TopTyped
    <3> QED  BY <3>1, <3>2, <3>3, ChangedTyped DEF Typed
  <2> QED  BY <2>1, <2>2
<1>7. ASSUME OpenQuantifier \/ OpenLet \/ ChainLet
      PROVE  Typed'
  <2>1. /\ frames # << >>
        /\ \E g \in {Entered, ToStage("done")}, f \in Frame :
              frames' = Append(g, f)
    <3>1. /\ Opened("quantifier", "list") \in Frame
          /\ Opened("let", "list") \in Frame
      BY OpenedTyped DEF Constructs, Stages
    <3>2. [Opened("let", "list") EXCEPT !.chained = TRUE] \in Frame
      BY <3>1 DEF Frame
    <3> QED  BY <1>7, <3>1, <3>2 DEF OpenQuantifier, OpenLet, ChainLet
  <2>2. frames' \in Seq(Frame)
    BY <2>1, EnteredKeeps, StageKeeps DEF Stages
  <2>3. preserving_let_key_map' \in KeyMap
    BY <1>7 DEF Typed, OpenQuantifier, OpenLet, ChainLet, KeyMap, NoKeys
  <2>4. UNCHANGED <<keep_let, let_key_map, binders>>
    BY <1>7 DEF OpenQuantifier, OpenLet, ChainLet
  <2> QED  BY <2>2, <2>3, <2>4 DEF Typed
<1>8. ASSUME NEW s \in Name, BindingName(s)
      PROVE  Typed'
  <2>1. frames # << >> /\ UNCHANGED <<keep_let, binders>>
    BY <1>8 DEF BindingName, Fail
  <2>2. let_key_map' \in KeyMap /\ preserving_let_key_map' \in KeyMap
    BY <1>8 DEF Typed, BindingName, KeyMap, Without
  <2>3. [Top EXCEPT !.stage = "value", !.name = {s}] \in Frame
    BY <2>1, TopTyped DEF Frame, Stages
  <2>4. frames' \in Seq(Frame)
    BY <1>8, <2>1, <2>3, ChangedTyped DEF Typed, BindingName, Fail
  <2> QED  BY <2>1, <2>2, <2>4 DEF Typed
<1>9. ASSUME BindingValue
      PROVE  Typed'
  <2>1. PICK s \in Top.name :
           /\ preserving_let_key_map' =
                 IF keep_let THEN Inserted(preserving_let_key_map, s)
                 ELSE preserving_let_key_map
           /\ let_key_map' = IF keep_let THEN let_key_map
                             ELSE Inserted(let_key_map, s)
           /\ frames' = WithTop([WithKey(Top, s, Fresh, Inserted(LetMap, s)[s])
                                    EXCEPT !.stage = "list", !.name = {}])
    BY <1>9 DEF BindingValue
  <2>2. frames # << >> /\ Bind /\ keep_let' = keep_let
    BY <1>9 DEF BindingValue
  <2>3. s \in Name
    BY <2>2, TopTyped DEF Frame
  <2>4. Fresh \in Binder /\ binders' \in 0..MaxBinders
    BY <2>2, ScopesAssumption DEF Typed, Bind, Fresh, Binder
  <2>5. let_key_map' \in KeyMap /\ preserving_let_key_map' \in KeyMap
    BY <2>1, <2>4 DEF Typed, KeyMap, Inserted
  <2>6. Inserted(LetMap, s)[s] \in Binder
    BY <2>3, <2>4 DEF Typed, KeyMap, Inserted, LetMap
  <2>7. WithKey(Top, s, Fresh, Inserted(LetMap, s)[s]) \in Frame
    BY <2>2, <2>3, <2>4, <2>6, TopTyped, KeyTyped
  <2>8. [WithKey(Top, s, Fresh, Inserted(LetMap, s)[s])
            EXCEPT !.stage = "list", !.name = {}] \in Frame
    BY <2>7 DEF Frame, Stages
  <2> QED  BY <2>1, <2>2, <2>4, <2>5, <2>8, ChangedTyped DEF Typed
<1>10. ASSUME CloseLet
       PROVE  Typed'
  <2>1. frames' = Popped /\ frames # << >>
    BY <1>10 DEF CloseLet
  <2>2. UNCHANGED <<keep_let, preserving_let_key_map, binders>>
    BY <1>10 DEF CloseLet
  <2>3. let_key_map' \in KeyMap
    BY <1>10 DEF Typed, CloseLet, KeysAfter, Without, KeyMap
  <2> QED  BY <2>1, <2>2, <2>3, PoppedTyped DEF Typed
<1>11. CASE UNCHANGED vars
  BY <1>11 DEF Typed, vars
<1> QED
  BY <1>1, <1>2, <1>3, <1>4, <1>5, <1>6, <1>7, <1>8, <1>9, <1>10, <1>11 DEF Next
-----------------------------------------------------------------------------
(* The invariant. Most steps are neutral: an open let keeps its keys, and  *)
(* what is new is not a let, or is one without keys that waits for none.   *)
Neutral ==
    /\ keep_let' = keep_let
    /\ error' = "none" => error = "none" /\ let_key_map' = let_key_map
    /\ \A i \in DOMAIN frames' :
          \/ /\ i \in DOMAIN frames
             /\ frames'[i].construct = frames[i].construct
             /\ frames'[i].keys = frames[i].keys
             /\ frames'[i].stage = "value" =>
                   /\ frames[i].stage = "value"
                   /\ frames'[i].name = frames[i].name
          \/ frames'[i].construct # "let"
          \/ frames'[i].keys = << >> /\ frames'[i].stage # "value"
    /\ \A i \in OpenLets : /\ i \in DOMAIN frames'
                           /\ frames'[i].construct = "let"
                           /\ frames'[i].keys = frames[i].keys

\* A step that neither binds nor erases a let key keeps the invariant.
LEMMA NeutralStep ==
    ASSUME KeysInv, Neutral
    PROVE  KeysInv'
<1> SUFFICES ASSUME ~keep_let
             PROVE  /\ BindVarsDiffer'
                    /\ error' = "none" =>
                          KeysInMap' /\ MapInKeys' /\ KeysApart' /\ NameFree'
  BY DEF KeysInv, Neutral
<1>1. \A i \in OpenLets' : \A s \in NamesIn(i)' :
         i \in OpenLets /\ s \in NamesIn(i) /\ frames'[i].keys = frames[i].keys
  BY DEF Neutral, OpenLets, LetAt, NamesIn
<1>2. \A i \in OpenLets : i \in OpenLets' /\ NamesIn(i)' = NamesIn(i)
  BY DEF Neutral, OpenLets, LetAt, NamesIn
<1>3. BindVarsDiffer'
  <2> SUFFICES ASSUME NEW i \in OpenLets', NEW j \in DOMAIN frames'[i].keys
               PROVE  frames'[i].keys[j].var = frames'[i].keys[j].value
    BY DEF BindVarsDiffer
  <2>1. i \in OpenLets /\ frames'[i].keys = frames[i].keys
    BY DEF Neutral, OpenLets, LetAt
  <2> QED  BY <2>1 DEF KeysInv, BindVarsDiffer
<1>4. ASSUME error' = "none"
      PROVE  KeysInMap' /\ MapInKeys' /\ KeysApart' /\ NameFree'
  <2>1. /\ let_key_map' = let_key_map
        /\ KeysInMap /\ MapInKeys /\ KeysApart /\ NameFree
    BY <1>4 DEF Neutral, KeysInv
  <2>2. KeysInMap'
    BY <1>1, <2>1 DEF KeysInMap
  <2>3. MapInKeys'
    BY <1>2, <2>1 DEF MapInKeys
  <2>4. KeysApart'
    BY <1>1, <2>1 DEF KeysApart
  <2>5. NameFree'
    <3> SUFFICES ASSUME NEW i \in OpenLets', frames'[i].stage = "value",
                        NEW s \in frames'[i].name,
                        NEW k \in OpenLets', k <= i, s \in NamesIn(k)'
                 PROVE  FALSE
      BY DEF NameFree
    <3>1. /\ i \in OpenLets /\ frames[i].stage = "value"
          /\ s \in frames[i].name
      BY DEF Neutral, OpenLets, LetAt
    <3>2. k \in OpenLets /\ s \in NamesIn(k)
      BY <1>1
    <3> QED  BY <2>1, <3>1, <3>2 DEF NameFree
  <2> QED  BY <2>2, <2>3, <2>4, <2>5
<1> QED  BY <1>3, <1>4

\* All steps but those of a let's bindings and end are of that sort.
LEMMA NeutralSteps ==
    ASSUME Typed, [Next]_vars,
           ~ \E s \in Name : BindingName(s), ~BindingValue, ~CloseLet
    PROVE  Neutral
<1> USE DEF Inner, CanOpen, Toplevel, letVars, quantVars, declVars
<1>1. CASE /\ frames' = frames /\ keep_let' = keep_let
           /\ error' = "none" => error = "none" /\ let_key_map' = let_key_map
  BY <1>1 DEF Neutral, OpenLets, LetAt
<1>2. ASSUME NEW s \in Name, DeclareVar(s) \/ DeclareFun(s)
      PROVE  Neutral
  BY <1>1, <1>2 DEF DeclareVar, DeclareFun
<1>3. ASSUME NEW s \in Name, NEW c \in {"define-fun", "define-fun-rec"},
             OpenDefine(c, s)
      PROVE  Neutral
  <2>1. CASE Fail("defined before")
    BY <1>1, <2>1, <1>3 DEF OpenDefine, Fail
  <2>2. CASE ~Fail("defined before")
    <3>1. /\ frames = << >>
          /\ frames' = <<[Opened(c, "list") EXCEPT !.name = {s}]>>
          /\ UNCHANGED <<keep_let, letVars, error>>
      BY <1>3, <2>2 DEF OpenDefine
    <3>2. [Opened(c, "list") EXCEPT !.name = {s}].construct # "let"
      BY DEF Opened
    <3>3. DOMAIN frames = {} /\ \A i \in DOMAIN frames' :
             frames'[i] = [Opened(c, "list") EXCEPT !.name = {s}]
      <4> DEFINE f == [Opened(c, "list") EXCEPT !.name = {s}]
      <4>1. frames' = <<f>>
        BY <3>1
      <4> HIDE DEF f
      <4>2. Len(frames) = 0 /\ DOMAIN frames = 1..Len(frames)
        BY <3>1 DEF Typed
      <4>3. DOMAIN frames' = {1} /\ frames'[1] = f
        BY <4>1
      <4> QED  BY <4>2, <4>3 DEF f
    <3> QED  BY <3>1, <3>2, <3>3 DEF Neutral, OpenLets, LetAt
  <2> QED  BY <2>1, <2>2
<1>4. ASSUME OpenAssert
      PROVE  Neutral
  BY <1>4 DEF OpenAssert, Opened, Neutral, OpenLets, LetAt
<1>5. ASSUME CloseAssert \/ CloseDefine \/ CloseQuantifier
      PROVE  Neutral
  <2>1. /\ frames # << >> /\ frames' = Popped /\ Top.construct # "let"
        /\ UNCHANGED <<keep_let, let_key_map, error>>
    BY <1>5 DEF CloseAssert, CloseDefine, CloseQuantifier
  <2> QED  BY <2>1, PoppedTyped DEF Neutral, OpenLets, LetAt, Top
<1>6. ASSUME EndParameters \/ EndVariables \/ EndBindings
      PROVE  Neutral
  <2>1. PICK st \in Stages : /\ st # "value"
                             /\ frames # << >> /\ frames' = ToStage(st)
    BY <1>6 DEF EndParameters, EndVariables, EndBindings, Stages
  <2>2. UNCHANGED <<keep_let, let_key_map, error>>
    BY <1>6 DEF EndParameters, EndVariables, EndBindings
  <2>3. DOMAIN frames' = DOMAIN frames
    BY <2>1, StageKeeps DEF Typed
  <2> QED  BY <2>1, <2>2, <2>3, StageKeeps DEF Neutral, OpenLets, LetAt
<1>7. ASSUME NEW s \in Name, Parameter(s) \/ QuantVar(s)
      PROVE  Neutral
  <2>1. CASE Parameter(s) /\ Fail("same parameter")
    BY <1>1, <2>1 DEF Parameter, Fail
  <2>2. CASE ~(Parameter(s) /\ Fail("same parameter"))
    <3>1. /\ frames # << >> /\ Bind /\ Top.construct # "let"
          /\ frames' = WithTop(WithKey(Top, s, Fresh, Fresh))
          /\ UNCHANGED <<keep_let, let_key_map, error>>
      BY <1>7, <2>2 DEF Parameter, QuantVar
    <3>2. Fresh \in Binder
      BY <3>1, ScopesAssumption DEF Typed, Bind, Fresh, Binder
    <3>3. Top \in Frame
      BY <3>1, TopTyped
    <3>5. /\ WithKey(Top, s, Fresh, Fresh) \in Frame
          /\ WithKey(Top, s, Fresh, Fresh).construct = Top.construct
      <4> HIDE DEF Inner, CanOpen, Toplevel
      <4> QED  BY <3>2, <3>3, KeyTyped
    <3>4. /\ DOMAIN frames' = DOMAIN frames
          /\ \A i \in DOMAIN frames : i # Len(frames) => frames'[i] = frames[i]
          /\ frames'[Len(frames)].construct = Top.construct
      BY <3>1, <3>5, ChangedTyped, TopTyped DEF Typed
    <3> QED  BY <3>1, <3>4 DEF Neutral, OpenLets, LetAt, Top
  <2> QED  BY <2>1, <2>2
<1>8. ASSUME OpenQuantifier \/ OpenLet \/ ChainLet
      PROVE  Neutral
  <2>1. PICK g \in {Entered, ToStage("done")}, f \in Frame :
           /\ frames' = Append(g, f)
           /\ f.keys = << >> /\ f.stage # "value"
    <3>1. /\ Opened("quantifier", "list") \in Frame
          /\ Opened("let", "list") \in Frame
      BY OpenedTyped DEF Constructs, Stages
    <3>2. [Opened("let", "list") EXCEPT !.chained = TRUE] \in Frame
      BY <3>1 DEF Frame
    <3>3. /\ Opened("quantifier", "list").keys = << >>
          /\ Opened("quantifier", "list").stage = "list"
          /\ Opened("let", "list").keys = << >>
          /\ Opened("let", "list").stage = "list"
          /\ [Opened("let", "list") EXCEPT !.chained = TRUE].keys = << >>
          /\ [Opened("let", "list") EXCEPT !.chained = TRUE].stage = "list"
      BY DEF Opened
    <3> QED
      BY <1>8, <3>1, <3>2, <3>3 DEF OpenQuantifier, OpenLet, ChainLet
  <2>2. frames # << >> /\ UNCHANGED <<keep_let, let_key_map, error>>
    BY <1>8 DEF OpenQuantifier, OpenLet, ChainLet
  <2>3. /\ g \in Seq(Frame) /\ Len(g) = Len(frames)
        /\ \A i \in DOMAIN frames :
              /\ g[i].construct = frames[i].construct
              /\ g[i].keys = frames[i].keys
              /\ g[i].name = frames[i].name
              /\ g[i].stage = "value" => frames[i].stage = "value"
    BY <2>2, EnteredKeeps, StageKeeps DEF Stages
  <2>4. /\ DOMAIN frames' = 1..Len(frames) + 1
        /\ \A i \in DOMAIN frames : frames'[i] = g[i]
        /\ frames'[Len(frames) + 1] = f
    BY <2>1, <2>3 DEF Typed
  <2>5. /\ DOMAIN frames = 1..Len(frames) /\ Len(frames) \in Nat
        /\ \A i \in DOMAIN frames' : i \in DOMAIN frames \/ i = Len(frames) + 1
        /\ DOMAIN frames \subseteq DOMAIN frames'
    BY <2>4 DEF Typed
  <2> QED  BY <2>1, <2>2, <2>3, <2>4, <2>5 DEF Neutral, OpenLets, LetAt
<1>9. CASE UNCHANGED vars
  BY <1>1, <1>9 DEF vars
<1> QED  BY <1>2, <1>3, <1>4, <1>5, <1>6, <1>7, <1>8, <1>9 DEF Next
(* The name of a binding is tested against the map, so against all keys of *)
(* all open lets.                                                          *)
LEMMA NameStep ==
    ASSUME Typed, KeysInv, NEW s \in Name, BindingName(s)
    PROVE  KeysInv'
<1>1. CASE Fail("duplicate binding")
  <2>1. /\ frames' = frames /\ keep_let' = keep_let
        /\ error' # "none"
    BY <1>1 DEF Fail
  <2> QED  BY <2>1 DEF KeysInv, BindVarsDiffer, OpenLets, LetAt
<1>2. CASE ~Fail("duplicate binding")
  <2> DEFINE f == [Top EXCEPT !.stage = "value", !.name = {s}]
  <2>1. /\ error = "none" /\ frames # << >>
        /\ Top.construct = "let" /\ LetMap[s] = None
        /\ frames' = WithTop(f)
        /\ UNCHANGED <<keep_let, let_key_map, error>>
    BY <1>2 DEF BindingName, Inner
  <2>2. /\ f \in Frame
        /\ f.construct = "let" /\ f.keys = Top.keys
        /\ f.stage = "value" /\ f.name = {s}
    BY <2>1, TopTyped DEF Frame, Stages
  <2> HIDE DEF f
  <2>3. /\ DOMAIN frames' = DOMAIN frames
        /\ Len(frames) \in DOMAIN frames
        /\ \A i \in DOMAIN frames : i # Len(frames) => frames'[i] = frames[i]
        /\ frames'[Len(frames)] = f
    BY <2>1, <2>2, ChangedTyped, TopTyped DEF Typed
  <2>4. /\ OpenLets' = OpenLets
        /\ \A i \in DOMAIN frames : frames'[i].keys = frames[i].keys
        /\ \A i \in DOMAIN frames : NamesIn(i)' = NamesIn(i)
    BY <2>1, <2>2, <2>3 DEF OpenLets, LetAt, Top, NamesIn
  <2> SUFFICES ASSUME ~keep_let
               PROVE  /\ BindVarsDiffer'
                      /\ KeysInMap' /\ MapInKeys' /\ KeysApart' /\ NameFree'
    BY <2>1 DEF KeysInv
  <2>5. BindVarsDiffer /\ KeysInMap /\ MapInKeys /\ KeysApart /\ NameFree
    BY <2>1 DEF KeysInv
  <2>6. BindVarsDiffer'
    BY <2>4, <2>5 DEF BindVarsDiffer, OpenLets
  <2>7. KeysInMap' /\ MapInKeys' /\ KeysApart'
    BY <2>1, <2>4, <2>5 DEF KeysInMap, MapInKeys, KeysApart, OpenLets
  <2>8. NameFree'
    <3>1. ASSUME NEW k \in OpenLets
          PROVE  s \notin NamesIn(k)
      BY <2>1, <2>5 DEF KeysInMap, LetMap
    <3>2. ASSUME NEW i \in OpenLets, frames'[i].stage = "value",
                 NEW t \in frames'[i].name, NEW k \in OpenLets, k <= i
          PROVE  t \notin NamesIn(k)
      <4>1. CASE i = Len(frames)
        BY <2>2, <2>3, <3>1, <3>2, <4>1
      <4>2. CASE i # Len(frames)
        BY <2>3, <2>5, <3>2, <4>2 DEF NameFree, OpenLets
      <4> QED  BY <4>1, <4>2
    <3> QED  BY <2>4, <3>2 DEF NameFree, OpenLets
  <2> QED  BY <2>6, <2>7, <2>8
<1> QED  BY <1>1, <1>2

(* When the value has been read its name is free again, so the binding is  *)
(* entered and stands for its own value.                                   *)
LEMMA ValueStep ==
    ASSUME Typed, KeysInv, BindingValue
    PROVE  KeysInv'
<1> SUFFICES ASSUME ~keep_let
             PROVE  /\ BindVarsDiffer'
                    /\ KeysInMap' /\ MapInKeys' /\ KeysApart' /\ NameFree'
  BY DEF KeysInv, BindingValue
<1>0. PICK n \in Nat : n = Len(frames) /\ frames # << >>
  BY TopTyped DEF BindingValue, Inner
<1>1. PICK s \in Top.name :
         /\ let_key_map' = Inserted(let_key_map, s)
         /\ frames' = WithTop([WithKey(Top, s, Fresh, Inserted(let_key_map, s)[s])
                                  EXCEPT !.stage = "list", !.name = {}])
  BY DEF BindingValue, LetMap
<1>2. /\ error = "none" /\ frames # << >> /\ Bind
      /\ Top.construct = "let" /\ Top.stage = "value"
  BY DEF BindingValue, Inner
<1>3. /\ n \in OpenLets /\ Top \in Frame /\ s \in Name
      /\ DOMAIN frames = 1..n
  BY <1>0, <1>2, TopTyped DEF OpenLets, LetAt, Top, Frame, Typed
<1>4. BindVarsDiffer /\ KeysInMap /\ MapInKeys /\ KeysApart /\ NameFree
  BY <1>2 DEF KeysInv
<1>5. \A k \in OpenLets : s \notin NamesIn(k)
  BY <1>0, <1>2, <1>3, <1>4 DEF NameFree, OpenLets, Top
<1>6. let_key_map[s] = None
  BY <1>3, <1>4, <1>5 DEF MapInKeys
<1>7. Fresh \in Binder /\ Fresh # None
  BY <1>2, ScopesAssumption DEF Typed, Bind, Fresh, Binder, None
<1>8. /\ let_key_map' = [let_key_map EXCEPT ![s] = Fresh]
      /\ Inserted(let_key_map, s)[s] = Fresh
  BY <1>1, <1>3, <1>6 DEF Inserted, Typed, KeyMap
<1> DEFINE f == [WithKey(Top, s, Fresh, Fresh)
                    EXCEPT !.stage = "list", !.name = {}]
<1>9. /\ WithKey(Top, s, Fresh, Fresh) \in Frame
      /\ WithKey(Top, s, Fresh, Fresh).construct = "let"
  BY <1>2, <1>3, <1>7, KeyTyped
<1>10. /\ f \in Frame /\ f.construct = "let" /\ f.stage = "list"
       /\ f.keys = WithKey(Top, s, Fresh, Fresh).keys
  BY <1>9 DEF Frame, Stages
<1>11. frames' = WithTop(f)
  BY <1>1, <1>8
<1>12. /\ Len(Top.keys) \in Nat /\ DOMAIN Top.keys = 1..Len(Top.keys)
       /\ DOMAIN f.keys = 1..Len(Top.keys) + 1
       /\ \A j \in DOMAIN Top.keys : f.keys[j] = Top.keys[j]
       /\ f.keys[Len(Top.keys) + 1]
             = [name |-> s, value |-> Fresh, var |-> Fresh]
  <2>1. Top.keys \in Seq(Key)
    BY <1>3 DEF Frame
  <2>2. Len(Top.keys) \in Nat /\ DOMAIN Top.keys = 1..Len(Top.keys)
    BY <2>1
  <2> HIDE DEF f
  <2> QED  BY <1>3, <1>7, <1>10, <2>2, KeyTyped
<1> HIDE DEF f
<1>13. /\ DOMAIN frames' = DOMAIN frames
       /\ \A i \in DOMAIN frames : i # n => frames'[i] = frames[i]
       /\ frames'[n] = f
  BY <1>0, <1>2, <1>3, <1>10, <1>11, ChangedTyped DEF Typed, OpenLets
<1>14. OpenLets' = OpenLets
  BY <1>3, <1>10, <1>13 DEF OpenLets, LetAt
<1>15. /\ \A i \in OpenLets : i # n => NamesIn(i)' = NamesIn(i)
       /\ NamesIn(n)' = NamesIn(n) \cup {s}
  <2>1. \A i \in OpenLets : i # n => NamesIn(i)' = NamesIn(i)
    BY <1>13 DEF NamesIn, OpenLets
  <2>2. NamesIn(n)' = {f.keys[j].name : j \in DOMAIN f.keys}
    BY <1>13 DEF NamesIn
  <2>3. NamesIn(n) = {Top.keys[j].name : j \in DOMAIN Top.keys}
    BY <1>0 DEF NamesIn, Top
  <2>4. {f.keys[j].name : j \in DOMAIN f.keys}
           = {Top.keys[j].name : j \in DOMAIN Top.keys} \cup {s}
    BY <1>12
  <2> QED  BY <2>1, <2>2, <2>3, <2>4
<1>16. BindVarsDiffer'
  <2> SUFFICES ASSUME NEW i \in OpenLets, NEW j \in DOMAIN frames'[i].keys
               PROVE  frames'[i].keys[j].var = frames'[i].keys[j].value
    BY <1>14 DEF BindVarsDiffer
  <2>1. CASE i # n
    BY <1>4, <1>13, <2>1 DEF BindVarsDiffer, OpenLets
  <2>2. CASE i = n
    <3>1. \A l \in DOMAIN Top.keys : Top.keys[l].var = Top.keys[l].value
      BY <1>0, <1>3, <1>4 DEF BindVarsDiffer, Top
    <3>2. j \in DOMAIN f.keys
      BY <1>13, <2>2
    <3>3. f.keys[j].var = f.keys[j].value
      BY <1>12, <3>1, <3>2
    <3> QED  BY <1>13, <2>2, <3>3
  <2> QED  BY <2>1, <2>2
<1>17. KeysInMap'
  BY <1>3, <1>4, <1>7, <1>8, <1>14, <1>15 DEF KeysInMap, Typed, KeyMap
<1>18. MapInKeys'
  BY <1>3, <1>4, <1>8, <1>14, <1>15 DEF MapInKeys, Typed, KeyMap
<1>19. KeysApart'
  BY <1>4, <1>5, <1>14, <1>15 DEF KeysApart
<1>20. NameFree'
  <2> SUFFICES ASSUME NEW i \in OpenLets, frames'[i].stage = "value",
                      NEW t \in frames'[i].name, NEW k \in OpenLets, k <= i
               PROVE  t \notin NamesIn(k)'
    BY <1>14 DEF NameFree
  <2>1. i # n
    BY <1>10, <1>13
  <2>2. i < n /\ k # n
    BY <1>3, <2>1 DEF OpenLets
  <2> QED  BY <1>4, <1>13, <1>15, <2>1, <2>2 DEF NameFree, OpenLets
<1> QED  BY <1>16, <1>17, <1>18, <1>19, <1>20

(* Erasing the keys of the innermost let leaves those of the others, as    *)
(* they have none in common.                                               *)
LEMMA CloseStep ==
    ASSUME Typed, KeysInv, CloseLet
    PROVE  KeysInv'
<1> SUFFICES ASSUME ~keep_let
             PROVE  /\ BindVarsDiffer'
                    /\ KeysInMap' /\ MapInKeys' /\ KeysApart' /\ NameFree'
  BY DEF KeysInv, CloseLet
<1> DEFINE n == Len(frames)
<1>1. /\ error = "none" /\ frames # << >> /\ Top.construct = "let"
      /\ frames' = Popped
      /\ let_key_map' = Without(let_key_map, NamesIn(n))
  BY DEF CloseLet, Inner, KeysAfter
<1>2. BindVarsDiffer /\ KeysInMap /\ MapInKeys /\ KeysApart /\ NameFree
  BY <1>1 DEF KeysInv
<1>3. n \in OpenLets
  BY <1>1, TopTyped DEF OpenLets, LetAt, Top
<1>4. /\ DOMAIN frames' = (DOMAIN frames) \ {n}
      /\ \A i \in DOMAIN frames' : frames'[i] = frames[i]
  BY <1>1, PoppedTyped
<1>5. /\ OpenLets' = OpenLets \ {n}
      /\ \A i \in OpenLets' : NamesIn(i)' = NamesIn(i)
      /\ \A i \in OpenLets' : frames'[i] = frames[i]
  BY <1>4 DEF OpenLets, LetAt, NamesIn
<1>6. \A i \in OpenLets' : \A s \in NamesIn(i) : s \notin NamesIn(n)
  BY <1>2, <1>3, <1>5 DEF KeysApart
<1>7. \A i \in OpenLets : NamesIn(i) \subseteq Name
  <2> SUFFICES ASSUME NEW i \in OpenLets, NEW j \in DOMAIN frames[i].keys
               PROVE  frames[i].keys[j].name \in Name
    BY DEF NamesIn
  <2>1. frames[i] \in Frame
    BY DEF OpenLets, Typed
  <2>2. frames[i].keys \in Seq(Key)
    BY <2>1 DEF Frame
  <2>3. frames[i].keys[j] \in Key
    BY <2>2
  <2> QED  BY <2>3 DEF Key
<1>8. BindVarsDiffer'
  BY <1>2, <1>5 DEF BindVarsDiffer
<1>9. KeysInMap'
  BY <1>1, <1>2, <1>5, <1>6, <1>7 DEF KeysInMap, Without
<1>10. MapInKeys'
  BY <1>1, <1>2, <1>5 DEF MapInKeys, Without
<1>11. KeysApart'
  BY <1>2, <1>5 DEF KeysApart
<1>12. NameFree'
  BY <1>2, <1>5 DEF NameFree
<1> QED  BY <1>8, <1>9, <1>10, <1>11, <1>12

-----------------------------------------------------------------------------
\* Nothing is open: the invariant holds.
LEMMA KeysInit == Init => KeysInv
<1> SUFFICES ASSUME Init
             PROVE  OpenLets = {} /\ MapInKeys
  BY DEF KeysInv, BindVarsDiffer, KeysInMap, KeysApart, NameFree
<1> QED  BY DEF Init, OpenLets, MapInKeys, NoKeys

\* Every step keeps the invariant of let keys.
LEMMA KeysStep == Typed /\ KeysInv /\ [Next]_vars => KeysInv'
<1> SUFFICES ASSUME Typed, KeysInv, [Next]_vars
             PROVE  KeysInv'
  OBVIOUS
<1>1. CASE \E s \in Name : BindingName(s)
  BY <1>1, NameStep
<1>2. CASE BindingValue
  BY <1>2, ValueStep
<1>3. CASE CloseLet
  BY <1>3, CloseStep
<1>4. CASE ~ (\E s \in Name : BindingName(s)) /\ ~BindingValue /\ ~CloseLet
  BY <1>4, NeutralSteps, NeutralStep
<1> QED  BY <1>1, <1>2, <1>3, <1>4

\* The keys of expanded lets that are open are the map, no two lets share one, and a
\* name being bound is not among them.
THEOREM KeysInvariant == Spec => [](Typed /\ KeysInv)
<1>1. Init => Typed /\ KeysInv
  BY TypedInit, KeysInit
<1>2. Typed /\ KeysInv /\ [Next]_vars => (Typed /\ KeysInv)'
  BY TypedStep, KeysStep
<1> QED  BY <1>1, <1>2, PTL DEF Spec

(* However lets are nested in the values and bodies of others, a key of an *)
(* expanded let stands for the value the script gave it.                   *)
THEOREM ExpandedKeysKeepValues == Spec => []ExpandedKeysDiffer
<1>1. KeysInv => ExpandedKeysDiffer
  BY DEF KeysInv, ExpandedKeysDiffer
<1> QED  BY <1>1, KeysInvariant, PTL

(* Nothing is left in the map of expanded lets by a closed let, and none   *)
(* erases the key of another.                                              *)
THEOREM LetMapCorrect == Spec => []LetMapMirrorsLets
<1>1. KeysInv => LetMapMirrorsLets
  BY DEF KeysInv, KeysInMap, MapInKeys, LetMapMirrorsLets
<1> QED  BY <1>1, KeysInvariant, PTL

(***************************************************************************)
(* The maps against the stack of open constructs.                          *)
(***************************************************************************)
Commands == {"assert", "define-fun", "define-fun-rec"}

(* The stack: a command is at its bottom and nowhere else, and what is     *)
(* around the innermost construct has been read up to a term.              *)
CommandFirst == \A i \in DOMAIN frames :
    /\ i = 1 <=> frames[i].construct \in Commands
    /\ frames[i].construct = "assert" => frames[i].keys = << >>
PastLists == \A i \in DOMAIN frames :
    i # Len(frames) => frames[i].stage # "list"
ChainsOfLets == \A i \in DOMAIN frames :
    frames[i].chained => LetAt(i) /\ i - 1 \in OpenLets
LetStages == {"value", "body", "done"}
StagesFit == \A i \in DOMAIN frames :
    frames[i].stage \in LetStages => LetAt(i)
StackInv == CommandFirst /\ PastLists /\ ChainsOfLets /\ StagesFit

(* The counters and flags.                                                 *)
Unchained   == {i \in OpenLets : ~frames[i].chained}
Quantifiers == {i \in DOMAIN frames : QuantAt(i)}

CountsInv == /\ let_nesting_depth = Cardinality(Unchained)
             /\ quant_nesting_depth = Cardinality(Quantifiers)
             /\ in_quantifier_scope <=> Quantifiers # {}
ModeInv ==
    IF OpenLets # {} THEN current_let_mode # "LM_NON_LET"
    ELSE current_let_mode = "LM_NON_LET" \/ preserving_let_key_map = NoKeys

(* Parameters are in the map under the value their key has.                *)
ParamsInv ==
    /\ \A i \in DOMAIN frames : frames[i].construct \in Commands =>
          \A j \in DOMAIN frames[i].keys :
             fun_var_map[frames[i].keys[j].name] = frames[i].keys[j].value
    /\ \A s \in Name : fun_var_map[s] # None =>
          \E i \in DOMAIN frames : /\ frames[i].construct \in Commands
                                   /\ s \in NamesIn(i)

(* The stack of a name in the map of quantifiers: its variables in the     *)
(* order of the script, which is the order in which they were bound.       *)
Elements(q) == {q[k] : k \in DOMAIN q}
Rising(q)   == \A k, l \in DOMAIN q : k < l => q[k] < q[l]
QuantInv ==
    /\ \A s \in Name :
          /\ Rising(quant_var_map[s])
          /\ Elements(quant_var_map[s]) = QuantKeys(s)
    /\ \A i, k \in Quantifiers :
          \A j \in DOMAIN frames[i].keys, l \in DOMAIN frames[k].keys :
             i < k \/ (i = k /\ j < l) =>
                frames[i].keys[j].value < frames[k].keys[l].value

LetValuesInv == ~keep_let =>
    \A i \in OpenLets : \A j \in DOMAIN frames[i].keys :
        let_key_map[frames[i].keys[j].name] = frames[i].keys[j].value

(* No two maps have a binder in common.                                    *)
In(map)    == {map[s] : s \in Name} \ {None}
QuantBound == UNION {Elements(quant_var_map[s]) : s \in Name}
BoundApart ==
    /\ In(LetMap) \cap (In(fun_key_map) \cup In(fun_var_map) \cup QuantBound
                           \cup In(var_names)) = {}
    /\ In(fun_key_map) \cap (In(fun_var_map) \cup QuantBound) = {}
    /\ In(fun_var_map) \cap QuantBound = {}
BoundBefore == (In(LetMap) \cup In(fun_key_map) \cup In(fun_var_map)
                   \cup QuantBound \cup In(var_names)) \subseteq 1..binders

MapsInv == /\ BoundApart /\ BoundBefore
           /\ error = "none" => /\ StackInv /\ CountsInv /\ ModeInv
                                /\ ParamsInv /\ QuantInv /\ LetValuesInv

-----------------------------------------------------------------------------
(***************************************************************************)
(* What the steps do to the stack. Every step does one of four things.     *)
(***************************************************************************)
Kept(i) == /\ frames'[i].construct = frames[i].construct
           /\ frames'[i].keys = frames[i].keys
           /\ frames'[i].chained = frames[i].chained
           /\ frames'[i].stage \in LetStages => LetAt(i)

KeptBelow == \A i \in DOMAIN frames :
    i # Len(frames) => frames'[i] = frames[i]

Retagged == /\ Len(frames') = Len(frames) /\ DOMAIN frames' = DOMAIN frames
            /\ \A i \in DOMAIN frames : Kept(i)
            /\ KeptBelow

Pushed(f) == /\ Len(frames') = Len(frames) + 1
             /\ DOMAIN frames' = DOMAIN frames \cup {Len(frames) + 1}
             /\ \A i \in DOMAIN frames : Kept(i) /\ frames'[i].stage # "list"
             /\ frames'[Len(frames) + 1] = f
             /\ f.keys = << >> /\ f.stage \notin LetStages

PoppedOff == /\ frames # << >>
             /\ Len(frames') = Len(frames) - 1
             /\ DOMAIN frames' = DOMAIN frames \ {Len(frames)}
             /\ \A i \in DOMAIN frames' : frames'[i] = frames[i]

Keyed(s, v, w) ==
    /\ frames # << >> /\ s \in Name /\ v \in Binder /\ w \in Binder
    /\ Len(frames') = Len(frames) /\ DOMAIN frames' = DOMAIN frames
    /\ KeptBelow
    /\ frames'[Len(frames)].construct = Top.construct
    /\ frames'[Len(frames)].chained = Top.chained
    /\ frames'[Len(frames)].keys
          = Append(Top.keys, [name |-> s, value |-> v, var |-> w])
    /\ frames'[Len(frames)].stage = "list"

\* The stack has a number of frames.
LEMMA SizeTyped ==
    ASSUME Typed
    PROVE  /\ Len(frames) \in Nat
           /\ DOMAIN frames = 1..Len(frames)
           /\ frames # << >> => Len(frames) >= 1
           /\ \A i \in DOMAIN frames : /\ frames[i] \in Frame
                                       /\ frames[i].keys \in Seq(Key)
<1>1. /\ Len(frames) \in Nat
      /\ DOMAIN frames = 1..Len(frames)
      /\ frames # << >> => Len(frames) >= 1
  BY DEF Typed
<1>2. \A i \in DOMAIN frames : frames[i] \in Frame
  BY DEF Typed
<1>3. \A f \in Frame : f.keys \in Seq(Key)
  BY DEF Frame
<1> QED  BY <1>1, <1>2, <1>3

\* Leaving the frames alone keeps their keys.
LEMMA SameRetags ==
    ASSUME StackInv, frames' = frames
    PROVE  Retagged
BY DEF Retagged, Kept, KeptBelow, StackInv, StagesFit

\* So does changing the innermost frame without its keys.
LEMMA FrameRetags ==
    ASSUME Typed, StackInv, frames # << >>, NEW f \in Frame,
           frames' = WithTop(f),
           f.construct = Top.construct, f.keys = Top.keys,
           f.chained = Top.chained, f.stage \in LetStages => f.construct = "let"
    PROVE  Retagged
BY SizeTyped, ChangedTyped, TopTyped
   DEF Retagged, Kept, KeptBelow, Top, StackInv, StagesFit, LetAt

\* So does going to another stage.
LEMMA StageRetags ==
    ASSUME Typed, StackInv, frames # << >>, NEW s \in Stages,
           frames' = ToStage(s), s \in LetStages => Top.construct = "let"
    PROVE  Retagged
<1> DEFINE f == [Top EXCEPT !.stage = s]
<1>1. f \in Frame /\ frames' = WithTop(f)
  BY StageTyped DEF ToStage
<1>2. /\ f.construct = Top.construct /\ f.keys = Top.keys
      /\ f.chained = Top.chained /\ f.stage = s
  BY TopTyped DEF Frame
<1> HIDE DEF f
<1> QED  BY <1>1, <1>2, FrameRetags

\* Taking off the innermost frame, as a shape of steps.
LEMMA PopPops ==
    ASSUME Typed, frames # << >>, frames' = Popped
    PROVE  PoppedOff
<1>1. Len(frames) \in Nat /\ Len(frames) >= 1
  BY TopTyped
<1>2. Len(frames') = Len(frames) - 1
  <2>1. /\ Popped \in Seq(Frame)
        /\ DOMAIN Popped = 1..Len(frames) - 1
    BY <1>1, PoppedTyped, SizeTyped
  <2> QED  BY <1>1, <2>1
<1> QED  BY <1>2, PoppedTyped DEF PoppedOff

\* Adding a key to the innermost frame, as a shape of steps.
LEMMA KeyKeys ==
    ASSUME Typed, frames # << >>, NEW s \in Name, NEW v \in Binder,
           NEW w \in Binder, NEW f \in Frame, frames' = WithTop(f),
           f.construct = Top.construct, f.chained = Top.chained,
           f.stage = "list",
           f.keys = Append(Top.keys, [name |-> s, value |-> v, var |-> w])
    PROVE  Keyed(s, v, w)
BY SizeTyped, ChangedTyped, TopTyped DEF Keyed, KeptBelow, Top

\* Opening a frame, as a shape of steps.
LEMMA AppendPushes ==
    ASSUME Typed, frames # << >>, NEW f \in Frame, f.keys = << >>,
           f.stage \notin LetStages, StackInv,
           \/ frames' = Append(Entered, f) /\ Top.stage # "list"
           \/ frames' = Append(ToStage("done"), f) /\ Top.stage = "body"
    PROVE  Pushed(f)
<1>1. PICK st \in Stages : /\ st # "list"
                          /\ \/ /\ frames' = Append(ToStage(st), f)
                                /\ Top.stage = "body"
                             \/ /\ frames' = Append(frames, f)
                                /\ Top.stage # "list"
  BY DEF Entered, Stages
<1>2. CASE frames' = Append(frames, f) /\ Top.stage # "list"
  BY <1>2, SizeTyped
     DEF Pushed, Kept, StackInv, PastLists, StagesFit, Top, Typed
<1>3. CASE frames' = Append(ToStage(st), f) /\ Top.stage = "body"
  <2> DEFINE g == [Top EXCEPT !.stage = st]
  <2>1. g \in Frame /\ ToStage(st) = WithTop(g)
    BY StageTyped DEF ToStage
  <2>2. /\ g.construct = Top.construct /\ g.keys = Top.keys
        /\ g.chained = Top.chained /\ g.stage = st
    BY TopTyped DEF Frame
  <2> HIDE DEF g
  <2>3. /\ WithTop(g) \in Seq(Frame) /\ Len(WithTop(g)) = Len(frames)
        /\ \A i \in DOMAIN frames :
              WithTop(g)[i] = IF i = Len(frames) THEN g ELSE frames[i]
    BY <2>1, ChangedTyped
  <2>4. /\ Len(frames') = Len(frames) + 1
        /\ DOMAIN frames' = DOMAIN frames \cup {Len(frames) + 1}
        /\ frames'[Len(frames) + 1] = f
        /\ \A i \in DOMAIN frames : frames'[i] = WithTop(g)[i]
    BY <1>3, <2>1, <2>3, SizeTyped
  <2>5. \A i \in DOMAIN frames : Kept(i) /\ frames'[i].stage # "list"
    BY <1>1, <1>3, <2>2, <2>3, <2>4
       DEF Kept, StackInv, PastLists, StagesFit, LetStages, LetAt, Top
  <2> QED  BY <2>4, <2>5 DEF Pushed
<1> QED  BY <1>1, <1>2, <1>3

(***************************************************************************)
(* The steps by what they do to the stack.                                 *)
(***************************************************************************)
LEMMA RetagSteps ==
    ASSUME Typed, StackInv, error' = "none",
           \/ \E s \in Name : DeclareVar(s) \/ DeclareFun(s) \/ BindingName(s)
           \/ EndParameters \/ EndVariables \/ EndBindings \/ UNCHANGED vars
    PROVE  Retagged
<1>1. CASE \/ \E s \in Name : DeclareVar(s) \/ DeclareFun(s)
           \/ UNCHANGED vars
  BY <1>1, SameRetags DEF DeclareVar, DeclareFun, vars
<1>2. CASE EndParameters \/ EndVariables \/ EndBindings
  BY <1>2, StageRetags
     DEF EndParameters, EndVariables, EndBindings, Inner, Stages, LetStages
<1>3. ASSUME NEW s \in Name, BindingName(s)
      PROVE  Retagged
  <2> DEFINE f == [Top EXCEPT !.stage = "value", !.name = {s}]
  <2>1. frames # << >> /\ frames' = WithTop(f) /\ Top.construct = "let"
    BY <1>3 DEF BindingName, Fail, Inner
  <2>2. /\ f \in Frame /\ f.construct = Top.construct /\ f.keys = Top.keys
        /\ f.chained = Top.chained
    BY <2>1, TopTyped DEF Frame, Stages
  <2> HIDE DEF f
  <2> QED  BY <2>1, <2>2, FrameRetags
<1> QED  BY <1>1, <1>2, <1>3

\* A command opens the first frame.
LEMMA CommandSteps ==
    ASSUME Typed, StackInv, error' = "none",
           \/ OpenAssert
           \/ \E s \in Name, c \in {"define-fun", "define-fun-rec"} :
                 OpenDefine(c, s)
    PROVE  /\ frames = << >>
           /\ \E f \in Frame : /\ Pushed(f) /\ f.construct \in Commands
                              /\ ~f.chained
<1>1. PICK f \in Frame : /\ frames = << >> /\ frames' = <<f>>
                        /\ f.construct \in Commands /\ ~f.chained
                        /\ f.keys = << >> /\ f.stage \notin LetStages
  <2>1. CASE OpenAssert
    <3>1. /\ Opened("assert", "operands") \in Frame
          /\ Opened("assert", "operands").construct = "assert"
          /\ ~Opened("assert", "operands").chained
          /\ Opened("assert", "operands").keys = << >>
          /\ Opened("assert", "operands").stage = "operands"
      BY OpenedTyped DEF Opened, Constructs, Stages
    <3> QED  BY <2>1, <3>1 DEF OpenAssert, Toplevel, Commands, LetStages
  <2>2. ASSUME NEW s \in Name, NEW c \in {"define-fun", "define-fun-rec"},
               OpenDefine(c, s)
        PROVE  \E f \in Frame : /\ frames = << >> /\ frames' = <<f>>
                               /\ f.construct \in Commands /\ ~f.chained
                               /\ f.keys = << >> /\ f.stage \notin LetStages
    <3> DEFINE f == [Opened(c, "list") EXCEPT !.name = {s}]
    <3>1. frames = << >> /\ frames' = <<f>>
      BY <2>2 DEF OpenDefine, Fail, Toplevel
    <3>2. Opened(c, "list") \in Frame
      BY OpenedTyped DEF Constructs, Stages
    <3>3. /\ f \in Frame /\ f.construct = c /\ ~f.chained
          /\ f.keys = << >> /\ f.stage = "list"
      BY <3>2 DEF Frame, Opened
    <3> HIDE DEF f
    <3> QED  BY <3>1, <3>3 DEF Commands, LetStages
  <2> QED  BY <2>1, <2>2
<1> QED  BY <1>1 DEF Pushed, Kept

\* A quantifier or a let opens a frame on another; a chained let does on a let.
LEMMA InnerSteps ==
    ASSUME Typed, StackInv
    PROVE  /\ OpenQuantifier => \E f \in Frame :
                 /\ Pushed(f) /\ frames # << >>
                 /\ f.construct = "quantifier" /\ ~f.chained
           /\ OpenLet => \E f \in Frame :
                 /\ Pushed(f) /\ frames # << >>
                 /\ f.construct = "let" /\ ~f.chained
           /\ ChainLet => \E f \in Frame :
                 /\ Pushed(f) /\ frames # << >>
                 /\ f.construct = "let" /\ f.chained
                 /\ LetAt(Len(frames))
<1> DEFINE quantifier == Opened("quantifier", "list")
           let == Opened("let", "list")
           chained == [let EXCEPT !.chained = TRUE]
<1>1. /\ quantifier \in Frame /\ quantifier.keys = << >>
      /\ quantifier.stage \notin LetStages
      /\ quantifier.construct = "quantifier" /\ ~quantifier.chained
  BY OpenedTyped DEF Opened, Constructs, Stages, LetStages
<1>2. /\ let \in Frame /\ let.keys = << >> /\ let.stage \notin LetStages
      /\ let.construct = "let" /\ ~let.chained
  BY OpenedTyped DEF Opened, Constructs, Stages, LetStages
<1>3. /\ chained \in Frame /\ chained.keys = << >>
      /\ chained.stage \notin LetStages
      /\ chained.construct = "let" /\ chained.chained
  BY <1>2 DEF Opened, Frame, LetStages
<1>4. /\ OpenQuantifier => frames' = Append(Entered, quantifier)
      /\ OpenLet => frames' = Append(Entered, let)
      /\ ChainLet => /\ frames' = Append(ToStage("done"), chained)
                     /\ Top.stage = "body"
  BY DEF OpenQuantifier, OpenLet, ChainLet
<1>5. OpenQuantifier \/ OpenLet \/ ChainLet =>
         frames # << >> /\ Top.stage # "list"
  BY DEF OpenQuantifier, OpenLet, ChainLet, CanOpen, Inner
<1> HIDE DEF quantifier, let, chained
<1>6. OpenQuantifier => Pushed(quantifier)
  BY <1>1, <1>4, <1>5, AppendPushes
<1>7. OpenLet => Pushed(let)
  BY <1>2, <1>4, <1>5, AppendPushes
<1>8. ChainLet => Pushed(chained)
  BY <1>3, <1>4, <1>5, AppendPushes
<1>9. ChainLet => LetAt(Len(frames))
  BY <1>4, <1>5, TopTyped DEF StackInv, StagesFit, LetStages, Top
<1> QED  BY <1>1, <1>2, <1>3, <1>5, <1>6, <1>7, <1>8, <1>9

\* The ends of constructs take off the innermost frame.
LEMMA CloseSteps ==
    ASSUME Typed, CloseAssert \/ CloseDefine \/ CloseQuantifier \/ CloseLet
    PROVE  PoppedOff
BY PopPops DEF CloseAssert, CloseDefine, CloseQuantifier, CloseLet, Inner

\* A frame with one more key is a frame of the same construct.
LEMMA KeyFrame ==
    ASSUME NEW f \in Frame, NEW s \in Name, NEW v \in Binder, NEW w \in Binder
    PROVE  /\ WithKey(f, s, v, w) \in Frame
           /\ WithKey(f, s, v, w).construct = f.construct
           /\ WithKey(f, s, v, w).stage = f.stage
           /\ WithKey(f, s, v, w).chained = f.chained
           /\ WithKey(f, s, v, w).keys
                 = Append(f.keys, [name |-> s, value |-> v, var |-> w])
<1>1. WithKey(f, s, v, w) \in Frame
  BY KeyTyped
<1>2. /\ WithKey(f, s, v, w).construct = f.construct
      /\ WithKey(f, s, v, w).stage = f.stage
      /\ WithKey(f, s, v, w).chained = f.chained
      /\ WithKey(f, s, v, w).keys
            = Append(f.keys, [name |-> s, value |-> v, var |-> w])
  BY DEF WithKey, Frame
<1> QED  BY <1>1, <1>2

\* A parameter or a quantified variable is a new binder and a key.
LEMMA VariableSteps ==
    ASSUME Typed, error' = "none", NEW s \in Name, Parameter(s) \/ QuantVar(s)
    PROVE  /\ Bind /\ Fresh \in Binder
           /\ Top.construct \in {"define-fun", "define-fun-rec", "quantifier"}
           /\ Keyed(s, Fresh, Fresh)
<1>1. /\ frames # << >> /\ Bind
      /\ Top.construct \in {"define-fun", "define-fun-rec", "quantifier"}
      /\ Top.stage = "list"
      /\ frames' = WithTop(WithKey(Top, s, Fresh, Fresh))
  BY DEF Parameter, QuantVar, Inner, Fail
<1>2. Fresh \in Binder
  BY <1>1, ScopesAssumption DEF Typed, Bind, Fresh, Binder
<1>3. Top \in Frame
  BY <1>1, TopTyped
<1> HIDE DEF Fresh
<1> DEFINE f == WithKey(Top, s, Fresh, Fresh)
<1>4. /\ f \in Frame /\ f.construct = Top.construct /\ f.stage = Top.stage
      /\ f.chained = Top.chained
      /\ f.keys = Append(Top.keys, [name |-> s, value |-> Fresh, var |-> Fresh])
  BY <1>2, <1>3, KeyFrame
<1>5. frames' = WithTop(f)
  BY <1>1
<1> HIDE DEF f
<1> QED  BY <1>1, <1>2, <1>3, <1>4, <1>5, KeyKeys

\* The end of a binding's value is a new binder and a key, and the let map has both.
LEMMA ValueSteps ==
    ASSUME Typed, BindingValue
    PROVE  \E s \in Name, w \in Binder :
              /\ Bind /\ Fresh \in Binder /\ Top.construct = "let"
              /\ s \in Top.name /\ Keyed(s, Fresh, w)
              /\ w = Inserted(LetMap, s)[s]
              /\ preserving_let_key_map' =
                    IF keep_let THEN Inserted(preserving_let_key_map, s)
                    ELSE preserving_let_key_map
              /\ let_key_map' = IF keep_let THEN let_key_map
                                ELSE Inserted(let_key_map, s)
<1>1. PICK s \in Top.name :
         /\ preserving_let_key_map' =
               IF keep_let THEN Inserted(preserving_let_key_map, s)
               ELSE preserving_let_key_map
         /\ let_key_map' = IF keep_let THEN let_key_map
                           ELSE Inserted(let_key_map, s)
         /\ frames' = WithTop([WithKey(Top, s, Fresh, Inserted(LetMap, s)[s])
                                  EXCEPT !.stage = "list", !.name = {}])
  BY DEF BindingValue
<1>2. frames # << >> /\ Bind /\ Top.construct = "let"
  BY DEF BindingValue, Inner
<1>3. s \in Name /\ Top \in Frame
  BY <1>2, TopTyped DEF Frame
<1>4. Fresh \in Binder
  BY <1>2, ScopesAssumption DEF Typed, Bind, Fresh, Binder
<1>5. PICK w \in Binder : w = Inserted(LetMap, s)[s]
  BY <1>3, <1>4 DEF Typed, KeyMap, Inserted, LetMap
<1> DEFINE g == WithKey(Top, s, Fresh, w)
           f == [g EXCEPT !.stage = "list", !.name = {}]
<1>6. /\ g \in Frame /\ g.construct = Top.construct /\ g.chained = Top.chained
      /\ g.keys = Append(Top.keys, [name |-> s, value |-> Fresh, var |-> w])
  BY <1>3, <1>4, KeyFrame
<1>8. frames' = WithTop(f)
  BY <1>1, <1>5
<1> HIDE DEF g
<1>9. /\ f \in Frame /\ f.construct = Top.construct /\ f.stage = "list"
      /\ f.chained = Top.chained
      /\ f.keys = Append(Top.keys, [name |-> s, value |-> Fresh, var |-> w])
  BY <1>6 DEF Frame, Stages
<1> HIDE DEF f
<1>10. Keyed(s, Fresh, w)
  BY <1>2, <1>3, <1>4, <1>8, <1>9, KeyKeys
<1> QED  BY <1>1, <1>2, <1>3, <1>4, <1>5, <1>10

-----------------------------------------------------------------------------
(***************************************************************************)
(* What each kind of step does to the sets of open constructs.             *)
(***************************************************************************)
LEMMA RetagView ==
    ASSUME Retagged
    PROVE  /\ OpenLets' = OpenLets /\ Unchained' = Unchained
           /\ Quantifiers' = Quantifiers
           /\ \A i \in DOMAIN frames : NamesIn(i)' = NamesIn(i)
BY DEF Retagged, Kept, OpenLets, Unchained, Quantifiers, LetAt, QuantAt, NamesIn

\* What is open once a frame is opened.
LEMMA PushView ==
    ASSUME Typed, NEW f \in Frame, Pushed(f), NEW n, n = Len(frames) + 1
    PROVE  /\ n \notin DOMAIN frames
           /\ OpenLets' = OpenLets \cup {i \in {n} : f.construct = "let"}
           /\ Unchained' = Unchained \cup
                     {i \in {n} : f.construct = "let" /\ ~f.chained}
           /\ Quantifiers' = Quantifiers \cup
                     {i \in {n} : f.construct = "quantifier"}
           /\ \A i \in DOMAIN frames : NamesIn(i)' = NamesIn(i)
           /\ NamesIn(n)' = {}
<1>1. n \notin DOMAIN frames
  BY SizeTyped
<1>2. DOMAIN frames' = DOMAIN frames \cup {n} /\ frames'[n] = f
  BY DEF Pushed
<1>3. /\ \A i \in DOMAIN frames : /\ frames'[i].construct = frames[i].construct
                                 /\ frames'[i].chained = frames[i].chained
                                 /\ frames'[i].keys = frames[i].keys
      /\ frames'[n].keys = << >>
  BY DEF Pushed, Kept
<1>4. OpenLets' = OpenLets \cup {i \in {n} : f.construct = "let"}
  BY <1>1, <1>2, <1>3 DEF OpenLets, LetAt
<1>5. Unchained' = Unchained \cup {i \in {n} : f.construct = "let" /\ ~f.chained}
  BY <1>1, <1>2, <1>3 DEF Unchained, OpenLets, LetAt
<1>6. Quantifiers' = Quantifiers \cup {i \in {n} : f.construct = "quantifier"}
  BY <1>1, <1>2, <1>3 DEF Quantifiers, QuantAt
<1>7. \A i \in DOMAIN frames : NamesIn(i)' = NamesIn(i)
  BY <1>3 DEF NamesIn
<1>8. NamesIn(n)' = {}
  BY <1>3 DEF NamesIn
<1> QED  BY <1>1, <1>4, <1>5, <1>6, <1>7, <1>8

\* What is open once a frame is taken off.
LEMMA PopView ==
    ASSUME Typed, PoppedOff, NEW n, n = Len(frames)
    PROVE  /\ n \in DOMAIN frames /\ Top = frames[n]
           /\ OpenLets' = OpenLets \ {n}
           /\ Unchained' = Unchained \ {n}
           /\ Quantifiers' = Quantifiers \ {n}
           /\ \A i \in DOMAIN frames' : NamesIn(i)' = NamesIn(i)
<1>1. n \in DOMAIN frames /\ Top = frames[n]
  BY SizeTyped DEF PoppedOff, Top
<1>2. /\ DOMAIN frames' = DOMAIN frames \ {n}
      /\ \A i \in DOMAIN frames' : frames'[i] = frames[i]
  BY DEF PoppedOff
<1> QED
  BY <1>1, <1>2
     DEF OpenLets, Unchained, Quantifiers, LetAt, QuantAt, NamesIn

\* What is open once a key is added: the same.
LEMMA KeyView ==
    ASSUME Typed, NEW s, NEW v, NEW w, Keyed(s, v, w), NEW n, n = Len(frames)
    PROVE  /\ n \in DOMAIN frames /\ Top = frames[n] /\ Top \in Frame
           /\ OpenLets' = OpenLets /\ Unchained' = Unchained
           /\ Quantifiers' = Quantifiers
           /\ \A i \in DOMAIN frames : i # n =>
                     NamesIn(i)' = NamesIn(i) /\ frames'[i].keys = frames[i].keys
           /\ NamesIn(n)' = NamesIn(n) \cup {s}
           /\ Len(Top.keys) \in Nat
           /\ DOMAIN Top.keys = 1..Len(Top.keys)
           /\ DOMAIN frames'[n].keys = 1..Len(Top.keys) + 1
           /\ \A j \in DOMAIN Top.keys : frames'[n].keys[j] = Top.keys[j]
           /\ frames'[n].keys[Len(Top.keys) + 1]
                     = [name |-> s, value |-> v, var |-> w]
<1> DEFINE key == [name |-> s, value |-> v, var |-> w]
<1>1. n \in DOMAIN frames /\ Top = frames[n] /\ Top \in Frame
  BY SizeTyped, TopTyped DEF Keyed, Top
<1>2. Top.keys \in Seq(Key) /\ key \in Key
  BY <1>1 DEF Frame, Keyed, Key
<1>3. frames'[n].keys = Append(Top.keys, key)
  BY DEF Keyed
<1>4. /\ DOMAIN frames' = DOMAIN frames
      /\ \A i \in DOMAIN frames : i # n => frames'[i] = frames[i]
      /\ frames'[n].construct = Top.construct /\ frames'[n].chained = Top.chained
  BY DEF Keyed, KeptBelow
<1>5. key.name = s
  OBVIOUS
<1> HIDE DEF key
<1>6. /\ Len(Top.keys) \in Nat /\ DOMAIN Top.keys = 1..Len(Top.keys)
      /\ DOMAIN frames'[n].keys = 1..Len(Top.keys) + 1
      /\ \A j \in DOMAIN Top.keys : frames'[n].keys[j] = Top.keys[j]
      /\ frames'[n].keys[Len(Top.keys) + 1] = key
  BY <1>2, <1>3
<1>7. /\ OpenLets' = OpenLets /\ Unchained' = Unchained
      /\ Quantifiers' = Quantifiers
  BY <1>1, <1>4 DEF OpenLets, Unchained, Quantifiers, LetAt, QuantAt
<1>8. \A i \in DOMAIN frames : i # n =>
         NamesIn(i)' = NamesIn(i) /\ frames'[i].keys = frames[i].keys
  BY <1>4 DEF NamesIn
<1>9. NamesIn(n)' = NamesIn(n) \cup {s}
  <2>1. NamesIn(n)' = {frames'[n].keys[j].name : j \in DOMAIN frames'[n].keys}
    BY DEF NamesIn
  <2>2. NamesIn(n) = {Top.keys[j].name : j \in DOMAIN Top.keys}
    BY <1>1 DEF NamesIn
  <2>3. {frames'[n].keys[j].name : j \in DOMAIN frames'[n].keys}
           = {Top.keys[j].name : j \in DOMAIN Top.keys} \cup {s}
    BY <1>5, <1>6
  <2> QED  BY <2>1, <2>2, <2>3
<1> QED  BY <1>1, <1>6, <1>7, <1>8, <1>9 DEF key

-----------------------------------------------------------------------------
(***************************************************************************)
(* The stack keeps its form.                                               *)
(***************************************************************************)
LEMMA StackPushed ==
    ASSUME Typed, StackInv, NEW f \in Frame, Pushed(f),
           (f.construct \in Commands) <=> frames = << >>,
           f.chained => f.construct = "let" /\ LetAt(Len(frames))
                           /\ frames # << >>
    PROVE  StackInv'
<1>0. PICK n : n = Len(frames) + 1
  OBVIOUS
<1>1. /\ DOMAIN frames' = DOMAIN frames \cup {n}
      /\ frames'[n] = f /\ f.keys = << >> /\ f.stage \notin LetStages
      /\ \A i \in DOMAIN frames : Kept(i) /\ frames'[i].stage # "list"
      /\ Len(frames') = n
  BY <1>0 DEF Pushed
<1>2. /\ OpenLets' = OpenLets \cup {i \in {n} : f.construct = "let"}
      /\ DOMAIN frames = 1..n - 1 /\ n \in Nat /\ n >= 1
      /\ frames = << >> <=> n = 1
  BY <1>0, PushView, SizeTyped
<1>3. CommandFirst'
  BY <1>1, <1>2 DEF StackInv, CommandFirst, Kept
<1>4. PastLists'
  BY <1>1, <1>2 DEF PastLists
<1>5. ChainsOfLets'
  <2> SUFFICES ASSUME NEW i \in DOMAIN frames', frames'[i].chained
               PROVE  frames'[i].construct = "let" /\ i - 1 \in OpenLets'
    BY DEF ChainsOfLets, LetAt
  <2>1. CASE i \in DOMAIN frames
    BY <1>1, <1>2, <2>1 DEF StackInv, ChainsOfLets, LetAt, Kept
  <2>2. CASE i = n
    <3>1. /\ f.construct = "let" /\ frames # << >>
          /\ LetAt(n - 1)
      BY <1>0, <1>1, <2>2, <1>2
    <3> QED  BY <1>1, <1>2, <2>2, <3>1 DEF OpenLets
  <2> QED  BY <1>1, <2>1, <2>2
<1>6. StagesFit'
  BY <1>1, <1>2 DEF StackInv, StagesFit, Kept, LetAt
<1> QED  BY <1>3, <1>4, <1>5, <1>6 DEF StackInv

\* The three other shapes of steps keep the form of the stack.
LEMMA StackOthers ==
    ASSUME Typed, StackInv,
           \/ Retagged \/ PoppedOff
           \/ /\ \E s, v, w : Keyed(s, v, w)
              /\ Top.construct # "assert"
    PROVE  StackInv'
<1>1. CASE Retagged
  BY <1>1, RetagView
     DEF StackInv, CommandFirst, PastLists, ChainsOfLets, StagesFit, Retagged,
         Kept, KeptBelow, LetAt
<1>2. CASE PoppedOff
  <2>1. OpenLets' = OpenLets \ {Len(frames)} /\ DOMAIN frames = 1..Len(frames)
        /\ Len(frames) \in Nat
    BY <1>2, PopView, SizeTyped
  <2>2. CommandFirst' /\ StagesFit'
    BY <1>2 DEF PoppedOff, StackInv, CommandFirst, StagesFit, LetAt
  <2>3. PastLists'
    BY <1>2, <2>1 DEF PoppedOff, StackInv, PastLists
  <2>4. ChainsOfLets'
    BY <1>2, <2>1 DEF PoppedOff, StackInv, ChainsOfLets, LetAt
  <2> QED  BY <2>2, <2>3, <2>4 DEF StackInv
<1>3. ASSUME NEW s, NEW v, NEW w, Keyed(s, v, w), Top.construct # "assert"
      PROVE  StackInv'
  <2>0. PICK n : n = Len(frames)
    OBVIOUS
  <2>1. /\ n \in DOMAIN frames /\ Top = frames[n]
        /\ OpenLets' = OpenLets
    BY <1>3, <2>0, KeyView
  <2>2. /\ DOMAIN frames' = DOMAIN frames /\ Len(frames') = n
        /\ \A i \in DOMAIN frames : i # n => frames'[i] = frames[i]
        /\ frames'[n].construct = Top.construct
        /\ frames'[n].chained = Top.chained
        /\ frames'[n].stage = "list"
    BY <1>3, <2>0 DEF Keyed, KeptBelow
  <2>3. CommandFirst' /\ PastLists'
    BY <1>3, <2>1, <2>2 DEF StackInv, CommandFirst, PastLists
  <2>4. ChainsOfLets'
    BY <2>1, <2>2 DEF StackInv, ChainsOfLets, LetAt
  <2>5. StagesFit'
    BY <2>1, <2>2 DEF StackInv, StagesFit, LetAt, LetStages
  <2> QED  BY <2>3, <2>4, <2>5 DEF StackInv
<1> QED  BY <1>1, <1>2, <1>3

\* Every step keeps the form of the stack.
LEMMA StackStep ==
    ASSUME Typed, StackInv, [Next]_vars, error' = "none"
    PROVE  StackInv'
<1>1. CASE \/ \E s \in Name : DeclareVar(s) \/ DeclareFun(s) \/ BindingName(s)
           \/ EndParameters \/ EndVariables \/ EndBindings \/ UNCHANGED vars
  BY <1>1, RetagSteps, StackOthers
<1>2. CASE \/ OpenAssert
           \/ \E s \in Name : \/ OpenDefine("define-fun", s)
                             \/ OpenDefine("define-fun-rec", s)
  <2>1. /\ frames = << >>
        /\ \E f \in Frame : /\ Pushed(f) /\ f.construct \in Commands
                           /\ ~f.chained
    BY <1>2, CommandSteps
  <2> QED  BY <2>1, StackPushed
<1>3. CASE OpenQuantifier \/ OpenLet \/ ChainLet
  <2>1. PICK f \in Frame :
           /\ Pushed(f) /\ frames # << >>
           /\ f.construct \in {"quantifier", "let"}
           /\ f.chained => f.construct = "let" /\ LetAt(Len(frames))
    BY <1>3, InnerSteps
  <2>2. f.construct \notin Commands
    BY <2>1 DEF Commands
  <2> QED  BY <2>1, <2>2, StackPushed
<1>4. CASE CloseAssert \/ CloseDefine \/ CloseQuantifier \/ CloseLet
  BY <1>4, CloseSteps, StackOthers
<1>5. ASSUME NEW s \in Name, Parameter(s) \/ QuantVar(s)
      PROVE  StackInv'
  <2>1. Keyed(s, Fresh, Fresh) /\ Top.construct # "assert"
    BY <1>5, VariableSteps
  <2> QED  BY <2>1, StackOthers
<1>6. CASE BindingValue
  <2>1. Top.construct # "assert" /\ \E s, w : Keyed(s, Fresh, w)
    BY <1>6, ValueSteps
  <2> QED  BY <2>1, StackOthers
<1> QED  BY <1>1, <1>2, <1>3, <1>4, <1>5, <1>6 DEF Next

-----------------------------------------------------------------------------
(***************************************************************************)
(* The counters count the open constructs.                                 *)
(***************************************************************************)
LEMMA CountsFinite ==
    ASSUME Typed
    PROVE  /\ IsFiniteSet(Unchained) /\ Cardinality(Unchained) \in Nat
           /\ IsFiniteSet(Quantifiers) /\ Cardinality(Quantifiers) \in Nat
<1>1. IsFiniteSet(DOMAIN frames)
  BY SizeTyped, FS_Interval
<1>2. Unchained \subseteq DOMAIN frames /\ Quantifiers \subseteq DOMAIN frames
  BY DEF Unchained, Quantifiers, OpenLets
<1> QED  BY <1>1, <1>2, FS_Subset, FS_CardinalityType

(* A let that opens or closes by itself moves the one depth, a quantifier  *)
(* the other.                                                              *)
LEMMA CountsPushed ==
    ASSUME Typed, CountsInv, NEW f \in Frame, Pushed(f)
    PROVE  /\ Cardinality(Unchained') = let_nesting_depth +
                 (IF f.construct = "let" /\ ~f.chained THEN 1 ELSE 0)
           /\ Cardinality(Quantifiers') = quant_nesting_depth +
                 (IF f.construct = "quantifier" THEN 1 ELSE 0)
           /\ f.construct = "quantifier" => Quantifiers' # {}
           /\ f.construct # "quantifier" => Quantifiers' = Quantifiers
<1>1. PICK n : n = Len(frames) + 1
  OBVIOUS
<1>2. /\ n \notin DOMAIN frames
      /\ Unchained' = Unchained \cup
             {i \in {n} : f.construct = "let" /\ ~f.chained}
      /\ Quantifiers' = Quantifiers \cup {i \in {n} : f.construct = "quantifier"}
  BY <1>1, PushView
<1>3. n \notin Unchained /\ n \notin Quantifiers
  BY <1>2 DEF Unchained, Quantifiers, OpenLets
<1>4. /\ Cardinality(Unchained \cup {n}) = let_nesting_depth + 1
      /\ Cardinality(Quantifiers \cup {n}) = quant_nesting_depth + 1
      /\ let_nesting_depth \in Nat /\ quant_nesting_depth \in Nat
  BY <1>3, CountsFinite, FS_AddElement DEF CountsInv
<1>5. CASE f.construct = "let" /\ ~f.chained
  <2>1. Unchained' = Unchained \cup {n} /\ Quantifiers' = Quantifiers
    BY <1>2, <1>5
  <2> QED  BY <1>4, <1>5, <2>1 DEF CountsInv
<1>6. CASE f.construct = "quantifier"
  <2>1. Unchained' = Unchained /\ Quantifiers' = Quantifiers \cup {n}
    BY <1>2, <1>6
  <2> QED  BY <1>4, <1>6, <2>1 DEF CountsInv
<1>7. CASE ~(f.construct = "let" /\ ~f.chained) /\ f.construct # "quantifier"
  <2>1. Unchained' = Unchained /\ Quantifiers' = Quantifiers
    BY <1>2, <1>7
  <2> QED  BY <1>4, <1>7, <2>1 DEF CountsInv
<1> QED  BY <1>5, <1>6, <1>7

\* The numbers of lets and quantifiers that are left once a frame is taken off.
LEMMA CountsPopped ==
    ASSUME Typed, CountsInv, PoppedOff
    PROVE  /\ Cardinality(Unchained') = let_nesting_depth -
                 (IF Top.construct = "let" /\ ~Top.chained THEN 1 ELSE 0)
           /\ Cardinality(Quantifiers') = quant_nesting_depth -
                 (IF Top.construct = "quantifier" THEN 1 ELSE 0)
           /\ Top.construct # "quantifier" => Quantifiers' = Quantifiers
           /\ Cardinality(Unchained') \in Nat /\ Cardinality(Quantifiers') \in Nat
           /\ Cardinality(Unchained') = 0 <=> Unchained' = {}
           /\ Cardinality(Quantifiers') = 0 <=> Quantifiers' = {}
<1>1. PICK n : n = Len(frames)
  OBVIOUS
<1>2. /\ n \in DOMAIN frames /\ Top = frames[n]
      /\ Unchained' = Unchained \ {n} /\ Quantifiers' = Quantifiers \ {n}
  BY <1>1, PopView
<1>3. /\ n \in Unchained <=> Top.construct = "let" /\ ~Top.chained
      /\ n \in Quantifiers <=> Top.construct = "quantifier"
  BY <1>2 DEF Unchained, Quantifiers, OpenLets, LetAt, QuantAt
<1>4. /\ IsFiniteSet(Unchained \ {n}) /\ IsFiniteSet(Quantifiers \ {n})
      /\ Cardinality(Unchained \ {n}) =
            IF n \in Unchained THEN Cardinality(Unchained) - 1
            ELSE Cardinality(Unchained)
      /\ Cardinality(Quantifiers \ {n}) =
            IF n \in Quantifiers THEN Cardinality(Quantifiers) - 1
            ELSE Cardinality(Quantifiers)
  BY CountsFinite, FS_RemoveElement
<1>5. /\ Cardinality(Unchained') \in Nat /\ Cardinality(Quantifiers') \in Nat
      /\ Cardinality(Unchained') = 0 <=> Unchained' = {}
      /\ Cardinality(Quantifiers') = 0 <=> Quantifiers' = {}
  BY <1>2, <1>4, FS_CardinalityType, FS_EmptySet
<1>6. /\ let_nesting_depth = Cardinality(Unchained)
      /\ quant_nesting_depth = Cardinality(Quantifiers)
      /\ Cardinality(Unchained) \in Nat /\ Cardinality(Quantifiers) \in Nat
  BY CountsFinite DEF CountsInv
<1>7. Top.construct # "quantifier" => Quantifiers' = Quantifiers
  BY <1>2, <1>3
<1>8. /\ Cardinality(Unchained') = let_nesting_depth -
            (IF Top.construct = "let" /\ ~Top.chained THEN 1 ELSE 0)
      /\ Cardinality(Quantifiers') = quant_nesting_depth -
            (IF Top.construct = "quantifier" THEN 1 ELSE 0)
  BY <1>2, <1>3, <1>4, <1>6
<1> QED  BY <1>5, <1>7, <1>8

Counters == <<let_nesting_depth, quant_nesting_depth, in_quantifier_scope>>

\* The depths are right if nothing that is counted changes.
LEMMA CountsSame ==
    ASSUME CountsInv, UNCHANGED Counters,
           Cardinality(Unchained') = let_nesting_depth, Quantifiers' = Quantifiers
    PROVE  CountsInv'
BY DEF CountsInv, Counters

\* Every step keeps the depths right.
LEMMA CountsStep ==
    ASSUME Typed, StackInv, CountsInv, [Next]_vars, error' = "none"
    PROVE  CountsInv'
<1> USE DEF letVars, quantVars, declVars, Counters
<1>1. CASE \/ \E s \in Name : DeclareVar(s) \/ DeclareFun(s) \/ BindingName(s)
           \/ EndParameters \/ EndVariables \/ EndBindings \/ UNCHANGED vars
  <2>1. Unchained' = Unchained /\ Quantifiers' = Quantifiers
    BY <1>1, RetagSteps, RetagView
  <2>2. UNCHANGED Counters
    BY <1>1 DEF DeclareVar, DeclareFun, BindingName, EndParameters,
                EndVariables, EndBindings, Fail, vars
  <2> QED  BY <2>1, <2>2 DEF CountsInv
<1>2. CASE \/ OpenAssert
           \/ \E s \in Name : \/ OpenDefine("define-fun", s)
                             \/ OpenDefine("define-fun-rec", s)
  <2>1. PICK f \in Frame : Pushed(f) /\ f.construct \in Commands
    BY <1>2, CommandSteps
  <2>2. f.construct # "let" /\ f.construct # "quantifier"
    BY <2>1 DEF Commands
  <2>3. UNCHANGED Counters
    BY <1>2 DEF OpenAssert, OpenDefine, Fail
  <2>4. Cardinality(Unchained') = let_nesting_depth + 0 /\ Quantifiers' = Quantifiers
    BY <2>1, <2>2, CountsPushed
  <2>5. let_nesting_depth \in Nat
    BY CountsFinite DEF CountsInv
  <2> QED  BY <2>3, <2>4, <2>5, CountsSame
<1>3. CASE OpenQuantifier \/ OpenLet \/ ChainLet
  <2>1. let_nesting_depth \in Nat /\ quant_nesting_depth \in Nat
    BY CountsFinite DEF CountsInv
  <2>2. CASE OpenQuantifier
    <3>1. PICK f \in Frame : Pushed(f) /\ f.construct = "quantifier"
      BY <2>2, InnerSteps
    <3>2. /\ Cardinality(Unchained') = let_nesting_depth + 0
          /\ Cardinality(Quantifiers') = quant_nesting_depth + 1
          /\ Quantifiers' # {}
      BY <3>1, CountsPushed
    <3>3. /\ let_nesting_depth' = let_nesting_depth
          /\ quant_nesting_depth' = quant_nesting_depth + 1
          /\ in_quantifier_scope' = TRUE
      BY <2>2 DEF OpenQuantifier
    <3> QED  BY <2>1, <3>2, <3>3 DEF CountsInv
  <2>3. CASE OpenLet
    <3>1. PICK f \in Frame : Pushed(f) /\ f.construct = "let" /\ ~f.chained
      BY <2>3, InnerSteps
    <3>2. /\ Cardinality(Unchained') = let_nesting_depth + 1
          /\ Quantifiers' = Quantifiers
      BY <3>1, CountsPushed
    <3>3. /\ let_nesting_depth' = let_nesting_depth + 1
          /\ UNCHANGED <<quant_nesting_depth, in_quantifier_scope>>
      BY <2>3 DEF OpenLet
    <3> QED  BY <2>1, <3>2, <3>3 DEF CountsInv
  <2>4. CASE ChainLet
    <3>1. PICK f \in Frame : Pushed(f) /\ f.construct = "let" /\ f.chained
      BY <2>4, InnerSteps
    <3>2. /\ Cardinality(Unchained') = let_nesting_depth + 0
          /\ Quantifiers' = Quantifiers
      BY <3>1, CountsPushed
    <3>3. UNCHANGED Counters
      BY <2>4 DEF ChainLet
    <3> QED  BY <2>1, <3>2, <3>3, CountsSame
  <2> QED  BY <1>3, <2>2, <2>3, <2>4
<1>4. CASE CloseAssert \/ CloseDefine \/ CloseQuantifier \/ CloseLet
  <2>1. let_nesting_depth \in Nat /\ quant_nesting_depth \in Nat
    BY CountsFinite DEF CountsInv
  <2>2. PoppedOff
    BY <1>4, CloseSteps
  <2>3. CASE CloseAssert \/ CloseDefine
    <3>1. Top.construct # "let" /\ Top.construct # "quantifier"
      BY <2>3 DEF CloseAssert, CloseDefine, Inner
    <3>2. UNCHANGED Counters
      BY <2>3 DEF CloseAssert, CloseDefine
    <3>3. Cardinality(Unchained') = let_nesting_depth - 0 /\ Quantifiers' = Quantifiers
      BY <2>2, <3>1, CountsPopped
    <3> QED  BY <2>1, <3>2, <3>3, CountsSame
  <2>4. CASE CloseQuantifier
    <3>1. Top.construct = "quantifier" /\ Top.construct # "let"
      BY <2>4 DEF CloseQuantifier, Inner
    <3>2. /\ let_nesting_depth' = let_nesting_depth
          /\ quant_nesting_depth' = quant_nesting_depth - 1
          /\ in_quantifier_scope' = (in_quantifier_scope /\ quant_nesting_depth' # 0)
      BY <2>4 DEF CloseQuantifier
    <3>3. /\ Cardinality(Unchained') = let_nesting_depth - 0
          /\ Cardinality(Quantifiers') = quant_nesting_depth - 1
          /\ Cardinality(Quantifiers') = 0 <=> Quantifiers' = {}
      BY <2>2, <3>1, CountsPopped
    <3>4. in_quantifier_scope
      <4>1. Len(frames) \in Quantifiers
        BY <2>2, <3>1, SizeTyped DEF Quantifiers, QuantAt, Top, PoppedOff
      <4> QED  BY <4>1 DEF CountsInv
    <3>5. in_quantifier_scope' <=> quant_nesting_depth' # 0
      BY <3>2, <3>4, Zenon
    <3>6. /\ let_nesting_depth' = Cardinality(Unchained')
          /\ quant_nesting_depth' = Cardinality(Quantifiers')
      BY <2>1, <3>2, <3>3
    <3> QED  BY <3>3, <3>5, <3>6, Zenon DEF CountsInv
  <2>5. CASE CloseLet
    <3>1. Top.construct = "let" /\ Top.construct # "quantifier"
      BY <2>5 DEF CloseLet, Inner
    <3>2. /\ let_nesting_depth' = let_nesting_depth - (IF Top.chained THEN 0 ELSE 1)
          /\ UNCHANGED <<quant_nesting_depth, in_quantifier_scope>>
      BY <2>5 DEF CloseLet, DepthAfter
    <3>3. /\ Cardinality(Unchained') =
                let_nesting_depth - (IF ~Top.chained THEN 1 ELSE 0)
          /\ Quantifiers' = Quantifiers
      BY <2>2, <3>1, CountsPopped
    <3> QED  BY <2>1, <3>2, <3>3 DEF CountsInv
  <2> QED  BY <1>4, <2>3, <2>4, <2>5
<1>5. ASSUME NEW s \in Name, Parameter(s) \/ QuantVar(s)
      PROVE  CountsInv'
  <2>1. Unchained' = Unchained /\ Quantifiers' = Quantifiers
    BY <1>5, VariableSteps, KeyView
  <2>2. UNCHANGED Counters
    BY <1>5 DEF Parameter, QuantVar, Fail
  <2> QED  BY <2>1, <2>2 DEF CountsInv
<1>6. CASE BindingValue
  <2>1. Unchained' = Unchained /\ Quantifiers' = Quantifiers
    BY <1>6, ValueSteps, KeyView
  <2>2. UNCHANGED Counters
    BY <1>6 DEF BindingValue
  <2> QED  BY <2>1, <2>2 DEF CountsInv
<1> QED  BY <1>1, <1>2, <1>3, <1>4, <1>5, <1>6 DEF Next

-----------------------------------------------------------------------------
(***************************************************************************)
(* Inside of a let the mode says so.                                       *)
(***************************************************************************)
(* The first let of the stack is not chained, so a chain is never counted  *)
(* out while a part of it is open.                                         *)
LEMMA LetsHaveFirst ==
    ASSUME Typed, PoppedOff, StackInv', OpenLets' # {}
    PROVE  Unchained' # {}
<1>1. OpenLets' \subseteq DOMAIN frames' /\ DOMAIN frames' \subseteq Nat
  BY SizeTyped DEF OpenLets, PoppedOff
<1>2. PICK p \in OpenLets' : \A q \in OpenLets' : p <= q
  BY <1>1, SetHasFirst
<1>3. p - 1 \notin OpenLets' /\ p \in DOMAIN frames'
  BY <1>1, <1>2
<1>4. ~frames'[p].chained
  BY <1>3 DEF StackInv, ChainsOfLets
<1> QED  BY <1>2, <1>4 DEF Unchained

\* Every step keeps the mode of open lets right.
LEMMA ModeStep ==
    ASSUME Typed, StackInv, CountsInv, ModeInv, [Next]_vars, error' = "none"
    PROVE  ModeInv'
<1> USE DEF letVars, quantVars, declVars
<1>0. ASSUME OpenLets' = OpenLets,
             UNCHANGED <<current_let_mode, preserving_let_key_map>>
      PROVE  ModeInv'
  BY <1>0 DEF ModeInv, NoKeys
<1>1. CASE \/ \E s \in Name : DeclareVar(s) \/ DeclareFun(s) \/ BindingName(s)
           \/ EndParameters \/ EndVariables \/ EndBindings \/ UNCHANGED vars
  <2>1. OpenLets' = OpenLets
    BY <1>1, RetagSteps, RetagView
  <2>2. UNCHANGED <<current_let_mode, preserving_let_key_map>>
    BY <1>1 DEF DeclareVar, DeclareFun, BindingName, EndParameters,
                EndVariables, EndBindings, Fail, vars
  <2> QED  BY <1>0, <2>1, <2>2
<1>2. CASE \/ OpenAssert
           \/ \E s \in Name : \/ OpenDefine("define-fun", s)
                             \/ OpenDefine("define-fun-rec", s)
  <2>1. PICK f \in Frame : Pushed(f) /\ f.construct \in Commands
    BY <1>2, CommandSteps
  <2>2. OpenLets' = OpenLets
    BY <2>1, PushView DEF Commands
  <2>3. UNCHANGED <<current_let_mode, preserving_let_key_map>>
    BY <1>2 DEF OpenAssert, OpenDefine
  <2> QED  BY <1>0, <2>2, <2>3
<1>3. CASE OpenQuantifier
  <2>1. PICK f \in Frame : Pushed(f) /\ f.construct = "quantifier"
    BY <1>3, InnerSteps
  <2>2. OpenLets' = OpenLets
    BY <2>1, PushView
  <2> QED  BY <1>0, <1>3, <2>2 DEF OpenQuantifier
<1>4. CASE OpenLet
  <2>1. PICK f \in Frame : Pushed(f) /\ f.construct = "let"
    BY <1>4, InnerSteps
  <2>2. OpenLets' # {}
    BY <2>1, PushView
  <2>3. let_nesting_depth # 0 => OpenLets # {}
    BY FS_EmptySet DEF CountsInv, Unchained
  <2>4. current_let_mode' # "LM_NON_LET"
    BY <1>4, <2>3 DEF OpenLet, ModeInv
  <2> QED  BY <2>2, <2>4 DEF ModeInv
<1>5. CASE ChainLet
  <2>1. PICK f \in Frame : /\ Pushed(f) /\ f.construct = "let"
                          /\ frames # << >> /\ LetAt(Len(frames))
    BY <1>5, InnerSteps
  <2>2. OpenLets' # {} /\ OpenLets # {}
    BY <2>1, PushView, SizeTyped DEF OpenLets
  <2>3. current_let_mode' = current_let_mode
    BY <1>5 DEF ChainLet
  <2> QED  BY <2>2, <2>3 DEF ModeInv
<1>6. CASE CloseAssert \/ CloseDefine \/ CloseQuantifier
  <2>1. Len(frames) \notin OpenLets
    BY <1>6 DEF CloseAssert, CloseDefine, CloseQuantifier, Inner, OpenLets,
                LetAt, Top
  <2>2. PoppedOff
    BY <1>6, CloseSteps
  <2>3. PICK n : n = Len(frames)
    OBVIOUS
  <2>4. OpenLets' = OpenLets \ {n}
    BY <2>2, <2>3, PopView
  <2>5. OpenLets' = OpenLets
    BY <2>1, <2>3, <2>4
  <2> QED  BY <1>0, <1>6, <2>5 DEF CloseAssert, CloseDefine, CloseQuantifier
<1>7. CASE CloseLet
  <2>1. PoppedOff /\ StackInv' /\ CountsInv'
    BY <1>7, CloseSteps, StackStep, CountsStep
  <2>2. Cardinality(Unchained') = 0 <=> Unchained' = {}
    BY <2>1, CountsPopped
  <2>3. let_nesting_depth' = 0 <=> OpenLets' = {}
    BY <2>1, <2>2, LetsHaveFirst DEF CountsInv, Unchained
  <2>4. OpenLets # {}
    BY <1>7, <2>1, TopTyped DEF CloseLet, Inner, OpenLets, LetAt, Top
  <2>5. current_let_mode' = IF let_nesting_depth' = 0 THEN "LM_NON_LET"
                            ELSE current_let_mode
    BY <1>7 DEF CloseLet, ModeAfter
  <2> QED  BY <2>3, <2>4, <2>5 DEF ModeInv
<1>8. ASSUME NEW s \in Name, Parameter(s) \/ QuantVar(s)
      PROVE  ModeInv'
  <2>1. OpenLets' = OpenLets
    BY <1>8, VariableSteps, KeyView
  <2> QED  BY <1>0, <1>8, <2>1 DEF Parameter, QuantVar
<1>9. CASE BindingValue
  <2>1. PICK s \in Name, w \in Binder : Keyed(s, Fresh, w) /\ Top.construct = "let"
    BY <1>9, ValueSteps
  <2>2. OpenLets' = OpenLets /\ Len(frames) \in OpenLets
    BY <2>1, KeyView DEF OpenLets, LetAt
  <2>3. current_let_mode' = current_let_mode
    BY <1>9 DEF BindingValue
  <2> QED  BY <2>2, <2>3 DEF ModeInv
<1> QED
  BY <1>1, <1>2, <1>3, <1>4, <1>5, <1>6, <1>7, <1>8, <1>9 DEF Next

-----------------------------------------------------------------------------
(***************************************************************************)
(* The types of what Typed leaves out.                                     *)
(***************************************************************************)
Errors == {"none", "defined before", "same parameter", "duplicate binding"}

MapsTyped ==
    /\ fun_var_map \in KeyMap /\ fun_key_map \in KeyMap /\ var_names \in KeyMap
    /\ quant_var_map \in [Name -> Seq(Binder)]
    /\ let_nesting_depth \in Nat /\ quant_nesting_depth \in Nat
    /\ current_let_mode \in LetModes /\ in_quantifier_scope \in BOOLEAN
    /\ error \in Errors

\* The beginning of a sequence is one.
LEMMA CutTyped ==
    ASSUME NEW S, NEW q \in Seq(S), NEW c \in Nat
    PROVE  SubSeq(q, 1, Len(q) - c) \in Seq(S)
<1>1. CASE c <= Len(q)
  BY <1>1
<1>2. CASE c > Len(q)
  BY <1>2
<1> QED  BY <1>1, <1>2

\* A frame has finitely many keys of one name.
LEMMA KeysNamedFinite ==
    ASSUME NEW f \in Frame, NEW s
    PROVE  LET J == {j \in DOMAIN f.keys : f.keys[j].name = s}
           IN  IsFiniteSet(J) /\ Cardinality(J) \in Nat
<1>1. f.keys \in Seq(Key)
  BY DEF Frame
<1>2. DOMAIN f.keys = 1..Len(f.keys) /\ Len(f.keys) \in Nat
  BY <1>1
<1>3. IsFiniteSet(DOMAIN f.keys)
  BY <1>2, FS_Interval
<1> QED  BY <1>3, FS_Subset, FS_CardinalityType

\* Every step keeps the types of the maps.
LEMMA MapsTypedStep ==
    ASSUME Typed, MapsTyped, error = "none" => CountsInv, [Next]_vars
    PROVE  MapsTyped'
<1> USE DEF letVars, quantVars, declVars, Inner, CanOpen, Toplevel
<1>1. CASE UNCHANGED vars
  BY <1>1 DEF vars, MapsTyped
<1>2. ASSUME Bind
      PROVE  Fresh \in Binder
  BY <1>2, ScopesAssumption DEF Typed, Bind, Fresh, Binder
<1>3. ASSUME NEW s \in Name, DeclareVar(s) \/ DeclareFun(s)
      PROVE  MapsTyped'
  BY <1>2, <1>3 DEF MapsTyped, DeclareVar, DeclareFun, KeyMap
<1>4. CASE \/ OpenAssert \/ CloseAssert
           \/ \E s \in Name : \/ OpenDefine("define-fun", s)
                             \/ OpenDefine("define-fun-rec", s)
  BY <1>4 DEF MapsTyped, OpenAssert, CloseAssert, OpenDefine, Fail, Errors
<1>5. ASSUME NEW s \in Name, Parameter(s)
      PROVE  MapsTyped'
  BY <1>2, <1>5 DEF MapsTyped, Parameter, Fail, Errors, KeyMap
<1>6. CASE EndParameters
  BY <1>2, <1>6 DEF MapsTyped, EndParameters, KeyMap
<1>7. CASE CloseDefine
  BY <1>2, <1>7 DEF MapsTyped, CloseDefine, KeyMap, Without
<1>8. CASE OpenQuantifier \/ EndVariables \/ EndBindings \/ ChainLet
  <2>1. CASE OpenQuantifier
    BY <2>1 DEF MapsTyped, OpenQuantifier
  <2>2. CASE EndVariables \/ EndBindings
    BY <2>2 DEF MapsTyped, EndVariables, EndBindings
  <2>3. CASE ChainLet
    BY <2>3 DEF MapsTyped, ChainLet
  <2> QED  BY <1>8, <2>1, <2>2, <2>3
<1>9. ASSUME NEW s \in Name, QuantVar(s)
      PROVE  MapsTyped'
  <2>1. Fresh \in Binder /\ quant_var_map[s] \in Seq(Binder)
    BY <1>2, <1>9 DEF QuantVar, MapsTyped
  <2>2. Append(quant_var_map[s], Fresh) \in Seq(Binder)
    BY <2>1
  <2>3. quant_var_map' = [quant_var_map EXCEPT ![s] = Append(@, Fresh)]
    BY <1>9 DEF QuantVar
  <2>4. quant_var_map' \in [Name -> Seq(Binder)]
    BY <2>2, <2>3 DEF MapsTyped
  <2> QED  BY <1>9, <2>4 DEF MapsTyped, QuantVar
<1>10. CASE CloseQuantifier
  <2>1. PoppedOff /\ CountsInv /\ Top.construct = "quantifier"
    BY <1>10, CloseSteps DEF CloseQuantifier
  <2>2. quant_nesting_depth' = quant_nesting_depth - 1
    BY <1>10 DEF CloseQuantifier
  <2>3. quant_nesting_depth' \in Nat
    BY <2>1, <2>2, CountsPopped
  <2>4. ASSUME NEW s \in Name
        PROVE  QuantPopped(s) \in Seq(Binder)
    <3>1. Top \in Frame
      BY <1>10, TopTyped DEF CloseQuantifier
    <3> DEFINE J == {j \in DOMAIN Top.keys : Top.keys[j].name = s}
    <3>2. Cardinality(J) \in Nat
      BY <3>1, KeysNamedFinite
    <3>3. quant_var_map[s] \in Seq(Binder)
      BY DEF MapsTyped
    <3> QED  BY <3>2, <3>3, CutTyped DEF QuantPopped
  <2>5. quant_var_map' \in [Name -> Seq(Binder)]
    BY <1>10, <2>4 DEF CloseQuantifier
  <2>6. in_quantifier_scope' \in BOOLEAN
    BY <1>10 DEF CloseQuantifier
  <2> QED  BY <1>10, <2>3, <2>5, <2>6 DEF MapsTyped, CloseQuantifier
<1>11. CASE OpenLet
  <2>1. current_let_mode' \in LetModes
    BY <1>11 DEF OpenLet, LetModes, MapsTyped
  <2> QED  BY <1>11, <2>1 DEF MapsTyped, OpenLet
<1>12. ASSUME NEW s \in Name, BindingName(s)
       PROVE  MapsTyped'
  BY <1>12 DEF MapsTyped, BindingName, Fail, Errors
<1>13. CASE BindingValue
  BY <1>13 DEF MapsTyped, BindingValue
<1>14. CASE CloseLet
  <2>1. PoppedOff /\ CountsInv /\ Top.construct = "let"
    BY <1>14, CloseSteps DEF CloseLet
  <2>2. let_nesting_depth' = let_nesting_depth - (IF Top.chained THEN 0 ELSE 1)
    BY <1>14 DEF CloseLet, DepthAfter
  <2>3. let_nesting_depth' \in Nat
    BY <2>1, <2>2, CountsPopped
  <2>4. current_let_mode' \in LetModes
    BY <1>14 DEF CloseLet, ModeAfter, LetModes, MapsTyped
  <2> QED  BY <1>14, <2>3, <2>4 DEF MapsTyped, CloseLet
<1> QED
  BY <1>1, <1>3, <1>4, <1>5, <1>6, <1>7, <1>8, <1>9, <1>10, <1>11, <1>12, <1>13,
     <1>14 DEF Next

-----------------------------------------------------------------------------
(***************************************************************************)
(* Most steps neither add to nor take from the keys of a sort of           *)
(* construct.                                                              *)
(***************************************************************************)
KeepsKeys(C) ==
    /\ \A i \in DOMAIN frames' : frames'[i].construct \in C =>
          \/ frames'[i].keys = << >>
          \/ /\ i \in DOMAIN frames
             /\ frames[i].construct = frames'[i].construct
             /\ frames[i].keys = frames'[i].keys
    /\ \A i \in DOMAIN frames : frames[i].construct \in C =>
          \/ frames[i].keys = << >>
          \/ /\ i \in DOMAIN frames'
             /\ frames'[i].construct = frames[i].construct
             /\ frames'[i].keys = frames[i].keys

\* The shapes of steps that leave the keys of some constructs alone.
LEMMA ShapesKeepKeys ==
    ASSUME Typed, NEW C,
           \/ Retagged \/ \E f \in Frame : Pushed(f)
           \/ PoppedOff /\ (Top.construct \notin C \/ Top.keys = << >>)
           \/ Top.construct \notin C /\ \E s, v, w : Keyed(s, v, w)
    PROVE  KeepsKeys(C)
<1>1. CASE Retagged
  BY <1>1 DEF Retagged, Kept, KeepsKeys
<1>2. ASSUME NEW f \in Frame, Pushed(f)
      PROVE  KeepsKeys(C)
  BY <1>2 DEF Pushed, Kept, KeepsKeys
<1>3. CASE PoppedOff /\ (Top.construct \notin C \/ Top.keys = << >>)
  BY <1>3 DEF PoppedOff, KeepsKeys, Top
<1>4. ASSUME NEW s, NEW v, NEW w, Keyed(s, v, w), Top.construct \notin C
      PROVE  KeepsKeys(C)
  BY <1>4 DEF Keyed, KeptBelow, KeepsKeys, Top
<1> QED  BY <1>1, <1>2, <1>3, <1>4

\* Only steps of its own construct change a map and the keys it is made of.
LEMMA StepKeepsKeys ==
    ASSUME Typed, StackInv, [Next]_vars, error' = "none"
    PROVE  /\ \/ CloseDefine \/ \E s \in Name : Parameter(s)
              \/ KeepsKeys(Commands) /\ fun_var_map' = fun_var_map
           /\ \/ CloseQuantifier \/ \E s \in Name : QuantVar(s)
              \/ KeepsKeys({"quantifier"}) /\ quant_var_map' = quant_var_map
           /\ \/ CloseLet \/ BindingValue
              \/ KeepsKeys({"let"}) /\ let_key_map' = let_key_map
<1> USE DEF letVars, quantVars, declVars
<1> DEFINE Maps == <<fun_var_map, quant_var_map, let_key_map>>
<1>0. ASSUME UNCHANGED Maps, \A C : KeepsKeys(C)
      PROVE  /\ KeepsKeys(Commands) /\ fun_var_map' = fun_var_map
             /\ KeepsKeys({"quantifier"}) /\ quant_var_map' = quant_var_map
             /\ KeepsKeys({"let"}) /\ let_key_map' = let_key_map
  BY <1>0
<1>1. CASE \/ \E s \in Name : DeclareVar(s) \/ DeclareFun(s) \/ BindingName(s)
           \/ EndParameters \/ EndVariables \/ EndBindings \/ UNCHANGED vars
  <2>1. \A C : KeepsKeys(C)
    BY <1>1, RetagSteps, ShapesKeepKeys
  <2>2. UNCHANGED Maps
    BY <1>1 DEF DeclareVar, DeclareFun, BindingName, EndParameters,
                EndVariables, EndBindings, Fail, vars
  <2> QED  BY <1>0, <2>1, <2>2
<1>2. CASE \/ OpenAssert
           \/ \E s \in Name : \/ OpenDefine("define-fun", s)
                             \/ OpenDefine("define-fun-rec", s)
  <2>1. \A C : KeepsKeys(C)
    BY <1>2, CommandSteps, ShapesKeepKeys
  <2>2. UNCHANGED Maps
    BY <1>2 DEF OpenAssert, OpenDefine, Fail
  <2> QED  BY <1>0, <2>1, <2>2
<1>3. CASE OpenQuantifier \/ OpenLet \/ ChainLet
  <2>1. \A C : KeepsKeys(C)
    BY <1>3, InnerSteps, ShapesKeepKeys
  <2>2. UNCHANGED Maps
    BY <1>3 DEF OpenQuantifier, OpenLet, ChainLet
  <2> QED  BY <1>0, <2>1, <2>2
<1>4. CASE CloseAssert
  <2>1. PoppedOff /\ Top.keys = << >>
    BY <1>4, CloseSteps, TopTyped
       DEF CloseAssert, Inner, StackInv, CommandFirst, Top
  <2>2. \A C : KeepsKeys(C)
    BY <2>1, ShapesKeepKeys
  <2>3. UNCHANGED Maps
    BY <1>4 DEF CloseAssert
  <2> QED  BY <1>0, <2>2, <2>3
<1>5. ASSUME CloseDefine \/ \E s \in Name : Parameter(s)
      PROVE  /\ KeepsKeys({"quantifier"}) /\ quant_var_map' = quant_var_map
             /\ KeepsKeys({"let"}) /\ let_key_map' = let_key_map
  <2>1. Top.construct \notin {"quantifier"} /\ Top.construct \notin {"let"}
    BY <1>5 DEF CloseDefine, Parameter, Inner
  <2>2. PoppedOff \/ \E s : Keyed(s, Fresh, Fresh)
    BY <1>5, CloseSteps, VariableSteps
  <2>3. KeepsKeys({"quantifier"}) /\ KeepsKeys({"let"})
    BY <2>1, <2>2, ShapesKeepKeys
  <2> QED  BY <1>5, <2>3 DEF CloseDefine, Parameter, Fail
<1>6. ASSUME CloseQuantifier \/ \E s \in Name : QuantVar(s)
      PROVE  /\ KeepsKeys(Commands) /\ fun_var_map' = fun_var_map
             /\ KeepsKeys({"let"}) /\ let_key_map' = let_key_map
  <2>1. Top.construct \notin Commands /\ Top.construct \notin {"let"}
    BY <1>6 DEF CloseQuantifier, QuantVar, Inner, Commands
  <2>2. PoppedOff \/ \E s : Keyed(s, Fresh, Fresh)
    BY <1>6, CloseSteps, VariableSteps
  <2>3. KeepsKeys(Commands) /\ KeepsKeys({"let"})
    BY <2>1, <2>2, ShapesKeepKeys
  <2> QED  BY <1>6, <2>3 DEF CloseQuantifier, QuantVar
<1>7. ASSUME CloseLet \/ BindingValue
      PROVE  /\ KeepsKeys(Commands) /\ fun_var_map' = fun_var_map
             /\ KeepsKeys({"quantifier"}) /\ quant_var_map' = quant_var_map
  <2>1. Top.construct \notin Commands /\ Top.construct \notin {"quantifier"}
    BY <1>7 DEF CloseLet, BindingValue, Inner, Commands
  <2>2. PoppedOff \/ \E s, w : Keyed(s, Fresh, w)
    BY <1>7, CloseSteps, ValueSteps
  <2>3. KeepsKeys(Commands) /\ KeepsKeys({"quantifier"})
    BY <2>1, <2>2, ShapesKeepKeys
  <2> QED  BY <1>7, <2>3 DEF CloseLet, BindingValue
<1> HIDE DEF Maps
<1> QED  BY <1>0, <1>1, <1>2, <1>3, <1>4, <1>5, <1>6, <1>7 DEF Next

-----------------------------------------------------------------------------
(***************************************************************************)
(* Parameters.                                                             *)
(***************************************************************************)
LEMMA KeyIsTyped ==
    ASSUME Typed, NEW i \in DOMAIN frames, NEW j \in DOMAIN frames[i].keys
    PROVE  /\ frames[i].keys[j].name \in Name
           /\ frames[i].keys[j].value \in Binder
           /\ frames[i].keys[j].name \in NamesIn(i)
<1>1. frames[i].keys \in Seq(Key)
  BY SizeTyped
<1>2. frames[i].keys[j] \in Key
  BY <1>1
<1> QED  BY <1>2 DEF Key, NamesIn

\* Parameters stay right if neither they nor the map change.
LEMMA ParamsSame ==
    ASSUME Typed, ParamsInv, KeepsKeys(Commands), fun_var_map' = fun_var_map
    PROVE  ParamsInv'
<1>1. ASSUME NEW i \in DOMAIN frames', frames'[i].construct \in Commands,
             NEW j \in DOMAIN frames'[i].keys
      PROVE  fun_var_map'[frames'[i].keys[j].name] = frames'[i].keys[j].value
  <2>1. frames'[i].keys # << >>
    BY <1>1
  <2>2. /\ i \in DOMAIN frames /\ frames[i].construct \in Commands
        /\ frames[i].keys = frames'[i].keys
    BY <1>1, <2>1 DEF KeepsKeys
  <2> QED  BY <1>1, <2>2 DEF ParamsInv
<1>2. ASSUME NEW s \in Name, fun_var_map'[s] # None
      PROVE  \E i \in DOMAIN frames' : /\ frames'[i].construct \in Commands
                                       /\ s \in NamesIn(i)'
  <2>1. PICK i \in DOMAIN frames : /\ frames[i].construct \in Commands
                                  /\ s \in NamesIn(i)
    BY <1>2 DEF ParamsInv
  <2>2. frames[i].keys # << >>
    BY <2>1 DEF NamesIn
  <2>3. /\ i \in DOMAIN frames' /\ frames'[i].construct \in Commands
        /\ frames'[i].keys = frames[i].keys
    BY <2>1, <2>2 DEF KeepsKeys
  <2> QED  BY <2>1, <2>3 DEF NamesIn
<1> QED  BY <1>1, <1>2 DEF ParamsInv

\* Every step keeps the map of parameters right.
LEMMA ParamsStep ==
    ASSUME Typed, MapsTyped, StackInv, ParamsInv, [Next]_vars, error' = "none"
    PROVE  ParamsInv'
<1>1. CASE KeepsKeys(Commands) /\ fun_var_map' = fun_var_map
  BY <1>1, ParamsSame
<1>2. ASSUME NEW s \in Name, Parameter(s)
      PROVE  ParamsInv'
  <2>1. /\ Keyed(s, Fresh, Fresh) /\ Fresh \in Binder
        /\ Top.construct \in {"define-fun", "define-fun-rec"}
        /\ fun_var_map[s] = None
        /\ fun_var_map' = [fun_var_map EXCEPT ![s] = Fresh]
    BY <1>2, VariableSteps DEF Parameter, Fail, Inner
  <2>2. PICK n : n = Len(frames)
    OBVIOUS
  <2>3. /\ n \in DOMAIN frames /\ Top = frames[n]
        /\ \A i \in DOMAIN frames : i # n =>
              NamesIn(i)' = NamesIn(i) /\ frames'[i].keys = frames[i].keys
        /\ NamesIn(n)' = NamesIn(n) \cup {s}
        /\ DOMAIN Top.keys = 1..Len(Top.keys) /\ Len(Top.keys) \in Nat
        /\ DOMAIN frames'[n].keys = 1..Len(Top.keys) + 1
        /\ \A j \in DOMAIN Top.keys : frames'[n].keys[j] = Top.keys[j]
        /\ frames'[n].keys[Len(Top.keys) + 1]
              = [name |-> s, value |-> Fresh, var |-> Fresh]
    BY <2>1, <2>2, KeyView
  <2>4. /\ DOMAIN frames' = DOMAIN frames
        /\ \A i \in DOMAIN frames : frames'[i].construct = frames[i].construct
    BY <2>1, <2>2, <2>3 DEF Keyed, KeptBelow
  <2>5. \A t \in Name : fun_var_map'[t] = IF t = s THEN Fresh ELSE fun_var_map[t]
    BY <2>1 DEF MapsTyped, KeyMap
  <2>6. ASSUME NEW i \in DOMAIN frames, frames[i].construct \in Commands,
               NEW j \in DOMAIN frames[i].keys
        PROVE  fun_var_map'[frames[i].keys[j].name] = frames[i].keys[j].value
    <3>1. fun_var_map[frames[i].keys[j].name] = frames[i].keys[j].value
      BY <2>6 DEF ParamsInv
    <3>2. frames[i].keys[j].value # None /\ frames[i].keys[j].name \in Name
      BY KeyIsTyped DEF Binder, None
    <3> QED  BY <2>1, <2>5, <3>1, <3>2
  <2>7. ASSUME NEW i \in DOMAIN frames', frames'[i].construct \in Commands,
               NEW j \in DOMAIN frames'[i].keys
        PROVE  fun_var_map'[frames'[i].keys[j].name] = frames'[i].keys[j].value
    <3>1. i \in DOMAIN frames /\ frames[i].construct \in Commands
      BY <2>4, <2>7
    <3>2. CASE i # n
      BY <2>3, <2>6, <2>7, <3>1, <3>2
    <3>3. CASE i = n /\ j \in DOMAIN Top.keys
      BY <2>3, <2>6, <3>1, <3>3
    <3>4. CASE i = n /\ j = Len(Top.keys) + 1
      <4>1. /\ frames'[i].keys[j].name = s /\ frames'[i].keys[j].value = Fresh
        BY <2>3, <3>4
      <4> QED  BY <2>5, <4>1
    <3> QED  BY <2>3, <2>7, <3>2, <3>3, <3>4
  <2>8. ASSUME NEW t \in Name, fun_var_map'[t] # None
        PROVE  \E i \in DOMAIN frames' : /\ frames'[i].construct \in Commands
                                         /\ t \in NamesIn(i)'
    <3>1. CASE t = s
      BY <2>1, <2>3, <2>4, <3>1 DEF Commands
    <3>2. CASE t # s
      <4>1. PICK i \in DOMAIN frames : /\ frames[i].construct \in Commands
                                      /\ t \in NamesIn(i)
        BY <2>5, <2>8, <3>2 DEF ParamsInv
      <4> QED  BY <2>3, <2>4, <4>1
    <3> QED  BY <3>1, <3>2
  <2> QED  BY <2>7, <2>8 DEF ParamsInv
<1>3. CASE CloseDefine
  <2>1. /\ PoppedOff /\ Top.construct \in Commands
        /\ fun_var_map' = Without(fun_var_map, NamesIn(Len(frames)))
    BY <1>3, CloseSteps DEF CloseDefine, Inner, Commands
  <2>2. Len(frames) = 1 /\ DOMAIN frames = {1}
    BY <2>1, SizeTyped, PopView DEF StackInv, CommandFirst
  <2>3. DOMAIN frames' = {}
    BY <2>1, <2>2 DEF PoppedOff
  <2>4. \A s \in Name : fun_var_map'[s] = None
    BY <2>1, <2>2 DEF Without, ParamsInv
  <2> QED  BY <2>3, <2>4 DEF ParamsInv
<1> QED  BY <1>1, <1>2, <1>3, StepKeepsKeys

-----------------------------------------------------------------------------
(***************************************************************************)
(* Expanded lets.                                                          *)
(***************************************************************************)
LEMMA LetValuesStep ==
    ASSUME Typed, StackInv, KeysInv, LetValuesInv, [Next]_vars, error' = "none"
    PROVE  LetValuesInv'
<1> SUFFICES ASSUME ~keep_let', NEW i \in OpenLets', NEW j \in DOMAIN frames'[i].keys
             PROVE  let_key_map'[frames'[i].keys[j].name] = frames'[i].keys[j].value
  BY DEF LetValuesInv
<1>0. ~keep_let
  BY DEF Next, vars, DeclareVar, DeclareFun, Parameter, QuantVar, BindingName,
         OpenDefine, OpenAssert, CloseAssert, EndParameters, CloseDefine,
         OpenQuantifier, EndVariables, CloseQuantifier, OpenLet, ChainLet,
         BindingValue, EndBindings, CloseLet, Fail
<1>1. CASE KeepsKeys({"let"}) /\ let_key_map' = let_key_map
  <2>1. frames'[i].construct = "let" /\ frames'[i].keys # << >>
    BY DEF OpenLets, LetAt
  <2>2. i \in OpenLets /\ frames[i].keys = frames'[i].keys
    BY <1>1, <2>1 DEF KeepsKeys, OpenLets, LetAt
  <2> QED  BY <1>0, <1>1, <2>2 DEF LetValuesInv
<1>2. CASE BindingValue
  <2>1. PICK s \in Name, w \in Binder :
           /\ Keyed(s, Fresh, w) /\ Fresh \in Binder /\ Top.construct = "let"
           /\ let_key_map' = Inserted(let_key_map, s)
           /\ w = Inserted(let_key_map, s)[s]
    BY <1>0, <1>2, ValueSteps DEF LetMap
  <2>2. PICK n : n = Len(frames)
    OBVIOUS
  <2>3. /\ n \in DOMAIN frames /\ Top = frames[n]
        /\ OpenLets' = OpenLets
        /\ \A k \in DOMAIN frames : k # n => frames'[k].keys = frames[k].keys
        /\ DOMAIN Top.keys = 1..Len(Top.keys) /\ Len(Top.keys) \in Nat
        /\ DOMAIN frames'[n].keys = 1..Len(Top.keys) + 1
        /\ \A l \in DOMAIN Top.keys : frames'[n].keys[l] = Top.keys[l]
        /\ frames'[n].keys[Len(Top.keys) + 1]
              = [name |-> s, value |-> Fresh, var |-> w]
    BY <2>1, <2>2, KeyView
  <2>4. n \in OpenLets
    BY <2>1, <2>3 DEF OpenLets, LetAt
  <2>5. ASSUME NEW k \in OpenLets, NEW l \in DOMAIN frames[k].keys
        PROVE  let_key_map'[frames[k].keys[l].name] = frames[k].keys[l].value
    <3>1. let_key_map[frames[k].keys[l].name] = frames[k].keys[l].value
      BY <1>0 DEF LetValuesInv
    <3>2. frames[k].keys[l].value # None /\ frames[k].keys[l].name \in Name
      BY KeyIsTyped DEF OpenLets, Binder, None
    <3> QED  BY <2>1, <3>1, <3>2 DEF Inserted, Typed, KeyMap
  <2>6. CASE i # n
    BY <2>3, <2>5, <2>6 DEF OpenLets
  <2>7. CASE i = n /\ j \in DOMAIN Top.keys
    BY <2>3, <2>4, <2>5, <2>7
  <2>8. CASE i = n /\ j = Len(Top.keys) + 1
    <3>1. frames'[n].keys[j].name = s /\ frames'[n].keys[j].value = Fresh
          /\ frames'[n].keys[j].var = w
      BY <2>3, <2>8
    <3>2. BindVarsDiffer'
      BY <1>0, KeysStep DEF KeysInv
    <3>3. w = Fresh
      BY <2>8, <3>1, <3>2 DEF BindVarsDiffer
    <3> QED  BY <2>1, <2>8, <3>1, <3>3
  <2> QED  BY <2>3, <2>6, <2>7, <2>8
<1>3. CASE CloseLet
  <2>1. /\ PoppedOff /\ Top.construct = "let" /\ error = "none"
        /\ let_key_map' = Without(let_key_map, NamesIn(Len(frames)))
    BY <1>0, <1>3, CloseSteps DEF CloseLet, Inner, KeysAfter
  <2>2. PICK n : n = Len(frames)
    OBVIOUS
  <2>3. /\ n \in OpenLets /\ i \in OpenLets /\ i # n
        /\ frames'[i] = frames[i]
    BY <2>1, <2>2, PopView DEF PoppedOff, OpenLets, LetAt
  <2>4. frames[i].keys[j].name \in NamesIn(i) /\ frames[i].keys[j].name \in Name
    BY <2>3, KeyIsTyped DEF OpenLets
  <2>5. frames[i].keys[j].name \notin NamesIn(n)
    BY <1>0, <2>1, <2>3, <2>4 DEF KeysInv, KeysApart
  <2> QED  BY <1>0, <2>1, <2>2, <2>3, <2>4, <2>5 DEF LetValuesInv, Without
<1> QED  BY <1>1, <1>2, <1>3, StepKeepsKeys

-----------------------------------------------------------------------------
(***************************************************************************)
(* A stack that rises is cut where its greatest elements begin.            *)
(***************************************************************************)
LEMMA LastPlaces ==
    ASSUME NEW n \in Nat, NEW P \in SUBSET (1..n),
           \A p \in P : \A q \in 1..n : p <= q => q \in P
    PROVE  /\ Cardinality(P) \in 0..n
           /\ \A q \in 1..n : q \in P <=> n - Cardinality(P) < q
<1>1. CASE P = {}
  BY <1>1, FS_EmptySet
<1>2. CASE P # {}
  <2>1. P \in SUBSET Nat
    OBVIOUS
  <2>2. PICK m \in P : \A q \in P : m <= q
    BY <1>2, <2>1, SetHasFirst
  <2>3. P = m..n /\ m \in 1..n
    <3>1. m \in 1..n /\ P \subseteq 1..n
      OBVIOUS
    <3>2. \A q \in 1..n : q \in P <=> m <= q
      BY <2>2
    <3>3. ASSUME NEW q \in P  PROVE q \in m..n
      BY <3>1, <3>2
    <3>4. ASSUME NEW q \in m..n  PROVE q \in P
      <4>1. q \in 1..n /\ m <= q
        BY <3>1
      <4> QED  BY <3>2, <4>1
    <3> QED  BY <3>1, <3>3, <3>4
  <2>4. Cardinality(P) = n - m + 1
    BY <2>3, FS_Interval
  <2> QED  BY <2>3, <2>4
<1> QED  BY <1>1, <1>2

\* The beginning of a sequence has the elements it had.
LEMMA CutFacts ==
    ASSUME NEW S, NEW q \in Seq(S), NEW c \in 0..Len(q)
    PROVE  /\ DOMAIN SubSeq(q, 1, Len(q) - c) = 1..Len(q) - c
           /\ \A k \in 1..Len(q) - c : SubSeq(q, 1, Len(q) - c)[k] = q[k]
<1>1. Len(q) \in Nat /\ DOMAIN q = 1..Len(q)
  OBVIOUS
<1>2. Len(q) - c \in 0..Len(q)
  BY <1>1
<1> DEFINE m == Len(q) - c
<1> HIDE DEF m
<1>3. DOMAIN SubSeq(q, 1, m) = 1..m /\ \A k \in 1..m : SubSeq(q, 1, m)[k] = q[k]
  BY <1>1, <1>2 DEF m
<1> QED  BY <1>3 DEF m

\* Taking the largest elements off the end of a rising sequence leaves the others.
LEMMA CutAtLast ==
    ASSUME NEW q \in Seq(Nat), Rising(q), NEW T \in SUBSET Elements(q),
           \A a \in Elements(q) \ T : \A b \in T : a < b
    PROVE  /\ Cardinality(T) \in 0..Len(q)
           /\ Elements(SubSeq(q, 1, Len(q) - Cardinality(T))) = Elements(q) \ T
           /\ Rising(SubSeq(q, 1, Len(q) - Cardinality(T)))
<1>1. PICK n \in Nat : /\ n = Len(q) /\ DOMAIN q = 1..n
                      /\ \A p \in 1..n : q[p] \in Nat
  OBVIOUS
<1>2. PICK P \in SUBSET (1..n) : \A p \in 1..n : p \in P <=> q[p] \in T
  <2> DEFINE P == {p \in 1..n : q[p] \in T}
  <2> P \in SUBSET (1..n) /\ \A p \in 1..n : p \in P <=> q[p] \in T
    OBVIOUS
  <2> QED  OBVIOUS
<1>3. /\ Cardinality(P) \in 0..n
      /\ \A p \in 1..n : p \in P <=> n - Cardinality(P) < p
  <2>1. ASSUME NEW p \in P, NEW r \in 1..n, p <= r
        PROVE  r \in P
    <3>1. p \in 1..n
      OBVIOUS
    <3>2. q[p] <= q[r]
      BY <1>1, <2>1, <3>1 DEF Rising
    <3>3. q[p] \in T /\ q[r] \in Elements(q)
      BY <1>1, <1>2, <3>1 DEF Elements
    <3>4. q[r] \in T
      BY <1>1, <3>1, <3>2, <3>3
    <3> QED  BY <1>2, <3>4
  <2> QED  BY <2>1, LastPlaces
<1>4. Cardinality(T) = Cardinality(P)
  <2> DEFINE f == [p \in P |-> q[p]]
  <2>1. f \in Bijection(P, T)
    <3>1. f \in [P -> T]
      BY <1>2
    <3>2. \A a, b \in P : f[a] = f[b] => a = b
      BY <1>1 DEF Rising
    <3>3. \A b \in T : \E a \in P : f[a] = b
      BY <1>1, <1>2 DEF Elements
    <3> QED  BY <3>1, <3>2, <3>3, Fun_IsBij
  <2>2. IsFiniteSet(1..n)
    BY FS_Interval
  <2>3. IsFiniteSet(P)
    BY <2>2, FS_Subset
  <2> QED  BY <2>1, <2>3, FS_Bijection DEF ExistsBijection
<1>5. PICK c \in 0..n : c = Cardinality(P)
  BY <1>3
<1>6. PICK r : r = SubSeq(q, 1, n - c)
  OBVIOUS
<1>7. DOMAIN r = 1..n - c /\ \A k \in 1..n - c : r[k] = q[k]
  BY <1>1, <1>5, <1>6, CutFacts
<1>8. \A k \in 1..n : k \in 1..n - c <=> q[k] \notin T
  BY <1>2, <1>3, <1>5
<1>9. Elements(r) = Elements(q) \ T
  <2>1. ASSUME NEW a \in Elements(r)
        PROVE  a \in Elements(q) \ T
    <3>1. PICK k \in 1..n - c : a = r[k]
      BY <1>7 DEF Elements
    <3>2. k \in 1..n
      BY <1>5
    <3> QED  BY <1>1, <1>7, <1>8, <3>1, <3>2 DEF Elements
  <2>2. ASSUME NEW a \in Elements(q) \ T
        PROVE  a \in Elements(r)
    <3>1. PICK k \in 1..n : a = q[k]
      BY <1>1 DEF Elements
    <3> QED  BY <1>7, <1>8, <3>1 DEF Elements
  <2> QED  BY <2>1, <2>2
<1>10. Rising(r)
  BY <1>1, <1>7 DEF Rising
<1>11. r = SubSeq(q, 1, Len(q) - Cardinality(T)) /\ Cardinality(T) \in 0..Len(q)
  BY <1>1, <1>4, <1>5, <1>6
<1> QED  BY <1>9, <1>10, <1>11

-----------------------------------------------------------------------------
(***************************************************************************)
(* Quantifiers.                                                            *)
(***************************************************************************)
LEMMA QuantKeysHave ==
    ASSUME Typed, NEW s, NEW v
    PROVE  v \in QuantKeys(s) <=>
              \E i \in Quantifiers : \E j \in DOMAIN frames[i].keys :
                 frames[i].keys[j].name = s /\ frames[i].keys[j].value = v
<1>1. ASSUME NEW i \in Quantifiers, NEW j \in DOMAIN frames[i].keys
      PROVE  frames[i].keys[j].value \in Binder
  BY KeyIsTyped DEF Quantifiers
<1> QED  BY <1>1 DEF QuantKeys, Quantifiers

\* The stacks of quantified names stay right if neither they nor the keys change.
LEMMA QuantSame ==
    ASSUME Typed, QuantInv, KeepsKeys({"quantifier"}),
           quant_var_map' = quant_var_map
    PROVE  QuantInv'
<1>1. ASSUME NEW i \in Quantifiers', NEW j \in DOMAIN frames'[i].keys
      PROVE  i \in Quantifiers /\ frames[i].keys = frames'[i].keys
  <2>1. frames'[i].keys # << >> /\ frames'[i].construct = "quantifier"
    BY DEF Quantifiers, QuantAt
  <2> QED  BY <2>1 DEF KeepsKeys, Quantifiers, QuantAt
<1>2. ASSUME NEW i \in Quantifiers, NEW j \in DOMAIN frames[i].keys
      PROVE  i \in Quantifiers' /\ frames[i].keys = frames'[i].keys
  <2>1. frames[i].keys # << >> /\ frames[i].construct = "quantifier"
    BY DEF Quantifiers, QuantAt
  <2> QED  BY <2>1 DEF KeepsKeys, Quantifiers, QuantAt
<1>3. ASSUME NEW s \in Name
      PROVE  QuantKeys(s)' = QuantKeys(s)
  <2>1. ASSUME NEW v \in Binder
        PROVE  (\E i \in Quantifiers' : \E j \in DOMAIN frames'[i].keys :
                   frames'[i].keys[j].name = s /\ frames'[i].keys[j].value = v)
               <=> (\E i \in Quantifiers : \E j \in DOMAIN frames[i].keys :
                   frames[i].keys[j].name = s /\ frames[i].keys[j].value = v)
    BY <1>1, <1>2
  <2> QED  BY <2>1 DEF QuantKeys, Quantifiers
<1> QED  BY <1>1, <1>3 DEF QuantInv

\* What a quantifier bound is a binder given already.
LEMMA QuantValueBound ==
    ASSUME Typed, QuantInv, BoundBefore,
           NEW i \in Quantifiers, NEW j \in DOMAIN frames[i].keys
    PROVE  frames[i].keys[j].value \in 1..binders
<1>1. /\ frames[i].keys[j].name \in Name
      /\ frames[i].keys[j].value \in QuantKeys(frames[i].keys[j].name)
  BY KeyIsTyped, QuantKeysHave DEF Quantifiers
<1>2. frames[i].keys[j].value \in QuantBound
  BY <1>1 DEF QuantInv, QuantBound
<1> QED  BY <1>2 DEF BoundBefore

\* A quantified variable is pushed on the stack of its name.
LEMMA QuantVarStep ==
    ASSUME Typed, MapsTyped, QuantInv, BoundBefore, error' = "none",
           NEW s \in Name, QuantVar(s)
    PROVE  QuantInv'
<1>1. /\ Keyed(s, Fresh, Fresh) /\ Fresh \in Binder
      /\ Top.construct = "quantifier"
      /\ quant_var_map' = [quant_var_map EXCEPT ![s] = Append(@, Fresh)]
  BY VariableSteps DEF QuantVar, Inner
<1>2. PICK n : n = Len(frames)
  OBVIOUS
<1>3. PICK m \in Nat : m = Len(Top.keys) + 1
  BY <1>1, TopTyped DEF Frame, Keyed
<1>4. /\ n \in DOMAIN frames /\ Top = frames[n]
      /\ Quantifiers' = Quantifiers
      /\ \A i \in DOMAIN frames : i # n => frames'[i].keys = frames[i].keys
      /\ DOMAIN frames[n].keys = 1..m - 1
      /\ DOMAIN frames'[n].keys = 1..m
      /\ \A j \in DOMAIN frames[n].keys : frames'[n].keys[j] = frames[n].keys[j]
      /\ frames'[n].keys[m] = [name |-> s, value |-> Fresh, var |-> Fresh]
  BY <1>1, <1>2, <1>3, KeyView
<1>5. n \in Quantifiers /\ \A i \in Quantifiers : i \in Nat /\ i <= n
  BY <1>1, <1>2, <1>4, SizeTyped DEF Quantifiers, QuantAt
<1>6. ASSUME NEW i \in Quantifiers, NEW j \in DOMAIN frames'[i].keys
      PROVE  \/ j \in DOMAIN frames[i].keys /\ frames'[i].keys[j] = frames[i].keys[j]
             \/ /\ i = n /\ j = m
                /\ frames'[i].keys[j].name = s /\ frames'[i].keys[j].value = Fresh
  BY <1>3, <1>4 DEF Quantifiers
<1>7. ASSUME NEW i \in Quantifiers, NEW j \in DOMAIN frames[i].keys
      PROVE  j \in DOMAIN frames'[i].keys /\ frames'[i].keys[j] = frames[i].keys[j]
  BY <1>3, <1>4 DEF Quantifiers
<1>8. ASSUME NEW i \in Quantifiers, NEW j \in DOMAIN frames[i].keys
      PROVE  frames[i].keys[j].value \in Nat /\ frames[i].keys[j].value < Fresh
  BY QuantValueBound DEF Fresh, Typed
<1>9. ASSUME NEW t \in Name
      PROVE  QuantKeys(t)' = QuantKeys(t) \cup (IF t = s THEN {Fresh} ELSE {})
  <2>1. ASSUME NEW v \in Binder
        PROVE  (\E i \in Quantifiers' : \E j \in DOMAIN frames'[i].keys :
                   frames'[i].keys[j].name = t /\ frames'[i].keys[j].value = v)
               <=> \/ (\E i \in Quantifiers : \E j \in DOMAIN frames[i].keys :
                          frames[i].keys[j].name = t /\ frames[i].keys[j].value = v)
                   \/ t = s /\ v = Fresh
    <3>1. n \in Quantifiers' /\ m \in DOMAIN frames'[n].keys
          /\ frames'[n].keys[m].name = s /\ frames'[n].keys[m].value = Fresh
      BY <1>3, <1>4, <1>5
    <3> QED  BY <1>4, <1>6, <1>7, <3>1
  <2> QED  BY <1>1, <2>1 DEF QuantKeys, Quantifiers
<1>10. ASSUME NEW t \in Name
       PROVE  /\ Rising(quant_var_map'[t])
              /\ Elements(quant_var_map'[t]) = QuantKeys(t)'
  <2>1. /\ Rising(quant_var_map[t]) /\ quant_var_map[t] \in Seq(Binder)
        /\ Elements(quant_var_map[t]) = QuantKeys(t)
    BY DEF QuantInv, MapsTyped
  <2>2. CASE t # s
    BY <1>1, <1>9, <2>1, <2>2 DEF MapsTyped
  <2>3. CASE t = s
    <3> DEFINE q == quant_var_map[s]
    <3>1. quant_var_map'[s] = Append(q, Fresh)
      BY <1>1 DEF MapsTyped
    <3>2. \A v \in Elements(q) : v \in Nat /\ v < Fresh
      BY <1>8, <2>1, <2>3, QuantKeysHave
    <3> HIDE DEF q, Fresh
    <3>3. /\ DOMAIN Append(q, Fresh) = 1..Len(q) + 1
          /\ Append(q, Fresh)[Len(q) + 1] = Fresh
          /\ \A k \in 1..Len(q) : Append(q, Fresh)[k] = q[k]
          /\ DOMAIN q = 1..Len(q) /\ Len(q) \in Nat
      BY <1>1, <2>1, <2>3 DEF q
    <3>4. \A k \in 1..Len(q) : q[k] < Fresh
      BY <3>2, <3>3 DEF Elements
    <3>5. Rising(Append(q, Fresh))
      BY <2>1, <2>3, <3>3, <3>4 DEF Rising, q
    <3>6. Elements(Append(q, Fresh)) = Elements(q) \cup {Fresh}
      BY <3>3 DEF Elements
    <3> QED  BY <1>9, <2>1, <2>3, <3>1, <3>5, <3>6 DEF q
  <2> QED  BY <2>2, <2>3
<1>11. ASSUME NEW i \in Quantifiers', NEW k \in Quantifiers',
              NEW j \in DOMAIN frames'[i].keys, NEW l \in DOMAIN frames'[k].keys,
              i < k \/ (i = k /\ j < l)
       PROVE  frames'[i].keys[j].value < frames'[k].keys[l].value
  <2>1. i \in Quantifiers /\ k \in Quantifiers
    BY <1>4
  <2>2. ~(i = n /\ j = m)
    BY <1>4, <1>5, <1>11, <2>1
  <2>3. j \in DOMAIN frames[i].keys /\ frames'[i].keys[j] = frames[i].keys[j]
    BY <1>6, <2>1, <2>2
  <2>4. CASE l \in DOMAIN frames[k].keys /\ frames'[k].keys[l] = frames[k].keys[l]
    BY <1>11, <2>1, <2>3, <2>4 DEF QuantInv
  <2>5. CASE frames'[k].keys[l].value = Fresh
    BY <1>8, <2>1, <2>3, <2>5
  <2> QED  BY <1>6, <2>1, <2>4, <2>5
<1> QED  BY <1>10, <1>11 DEF QuantInv

(* The variables of the innermost quantifier are the greatest in the       *)
(* stacks of their names, so popping as many takes just these.             *)
LEMMA CloseQuantifierStep ==
    ASSUME Typed, MapsTyped, QuantInv, CloseQuantifier
    PROVE  QuantInv'
<1>1. /\ PoppedOff /\ Top.construct = "quantifier"
      /\ quant_var_map' = [s \in Name |-> QuantPopped(s)]
  BY CloseSteps DEF CloseQuantifier, Inner
<1>2. PICK n : n = Len(frames)
  OBVIOUS
<1>3. /\ n \in DOMAIN frames /\ Top = frames[n] /\ Top \in Frame
      /\ Quantifiers' = Quantifiers \ {n}
  BY <1>1, <1>2, PopView, SizeTyped
<1>4. n \in Quantifiers /\ \A i \in Quantifiers' : i \in Nat /\ i < n
  BY <1>1, <1>2, <1>3, SizeTyped DEF Quantifiers, QuantAt
<1>5. \A i \in Quantifiers' : i \in Quantifiers /\ frames'[i] = frames[i]
  BY <1>1, <1>3 DEF PoppedOff, Quantifiers
<1>6. ASSUME NEW t \in Name
      PROVE  /\ Rising(quant_var_map'[t])
             /\ Elements(quant_var_map'[t]) = QuantKeys(t)'
  <2> DEFINE J == {j \in DOMAIN Top.keys : Top.keys[j].name = t}
             T == {Top.keys[j].value : j \in J}
             q == quant_var_map[t]
             f == [j \in J |-> Top.keys[j].value]
  <2>1. q \in Seq(Nat) /\ Rising(q) /\ Elements(q) = QuantKeys(t)
    <3>1. q \in Seq(Binder) /\ Binder \subseteq Nat
      BY DEF MapsTyped, Binder
    <3>2. q \in Seq(Nat)
      BY <3>1, SeqMonotonic
    <3> QED  BY <3>2 DEF QuantInv
  <2>2. ASSUME NEW j \in J
        PROVE  Top.keys[j].value \in Nat
    BY <1>3, KeyIsTyped DEF Binder
  <2>3. Cardinality(T) = Cardinality(J)
    <3>1. f \in [J -> T]
      OBVIOUS
    <3>2. ASSUME NEW a \in J, NEW b \in J, f[a] = f[b]
          PROVE  a = b
      <4>1. a \in Nat /\ b \in Nat
        BY <1>3 DEF Frame
      <4>2. a < b => Top.keys[a].value < Top.keys[b].value
        BY <1>3, <1>4 DEF QuantInv
      <4>3. b < a => Top.keys[b].value < Top.keys[a].value
        BY <1>3, <1>4 DEF QuantInv
      <4>4. Top.keys[a].value = Top.keys[b].value
        BY <3>2
      <4>5. Top.keys[a].value \in Nat /\ Top.keys[b].value \in Nat
        BY <2>2
      <4> HIDE DEF J, f
      <4> QED  BY <4>1, <4>2, <4>3, <4>4, <4>5
    <3>3. \A b \in T : \E a \in J : f[a] = b
      OBVIOUS
    <3>4. f \in Bijection(J, T)
      <4> HIDE DEF J, T, f
      <4> QED  BY <3>1, <3>2, <3>3, Fun_IsBij
    <3>5. IsFiniteSet(J)
      BY <1>3, KeysNamedFinite
    <3> HIDE DEF J, T, f
    <3> QED  BY <3>4, <3>5, FS_Bijection DEF ExistsBijection
  <2>4. ASSUME NEW v
        PROVE  v \in T <=> \E j \in DOMAIN frames[n].keys :
                   frames[n].keys[j].name = t /\ frames[n].keys[j].value = v
    BY <1>3
  <2> HIDE DEF T, J, f
  <2>5. T \subseteq Elements(q)
    BY <1>4, <2>1, <2>4, QuantKeysHave
  <2>6. ASSUME NEW i \in Quantifiers', NEW j \in DOMAIN frames[i].keys, NEW b \in T
        PROVE  frames[i].keys[j].value < b /\ frames[i].keys[j].value \in Nat
               /\ b \in Nat
    <3>1. PICK l \in DOMAIN frames[n].keys : frames[n].keys[l].value = b
      BY <2>4
    <3>2. i < n /\ i \in Quantifiers
      BY <1>4, <1>5
    <3>3. frames[i].keys[j].value < frames[n].keys[l].value
      BY <1>4, <3>2 DEF QuantInv
    <3>4. frames[i].keys[j].value \in Nat /\ frames[n].keys[l].value \in Nat
      BY <1>3, <3>2, KeyIsTyped DEF Quantifiers, Binder
    <3> QED  BY <3>1, <3>3, <3>4
  <2>7. ASSUME NEW a \in Elements(q) \ T, NEW b \in T
        PROVE  a < b
    <3>1. PICK i \in Quantifiers : \E j \in DOMAIN frames[i].keys :
             frames[i].keys[j].name = t /\ frames[i].keys[j].value = a
      BY <2>1, QuantKeysHave
    <3>2. i # n
      BY <2>4, <3>1
    <3>3. i \in Quantifiers'
      BY <1>3, <3>2
    <3> QED  BY <2>6, <3>1, <3>3
  <2>8. /\ Elements(SubSeq(q, 1, Len(q) - Cardinality(T))) = Elements(q) \ T
        /\ Rising(SubSeq(q, 1, Len(q) - Cardinality(T)))
    <3> HIDE DEF q
    <3> QED  BY <2>1, <2>5, <2>7, CutAtLast
  <2>9. quant_var_map'[t] = SubSeq(q, 1, Len(q) - Cardinality(T))
    BY <1>1, <2>3 DEF QuantPopped, J
  <2>10. ASSUME NEW v \in Binder
         PROVE  (\E i \in Quantifiers' : \E j \in DOMAIN frames'[i].keys :
                    frames'[i].keys[j].name = t /\ frames'[i].keys[j].value = v)
                <=> v \in QuantKeys(t) \ T
    <3>1. ASSUME NEW i \in Quantifiers', NEW j \in DOMAIN frames'[i].keys,
                 frames'[i].keys[j].name = t, frames'[i].keys[j].value = v
          PROVE  v \in QuantKeys(t) \ T
      <4>1. i \in Quantifiers /\ frames'[i] = frames[i]
        BY <1>5
      <4>2. v \in QuantKeys(t)
        BY <3>1, <4>1, QuantKeysHave
      <4>3. v \notin T
        BY <2>6, <3>1, <4>1
      <4> QED  BY <4>2, <4>3
    <3>2. ASSUME v \in QuantKeys(t) \ T
          PROVE  \E i \in Quantifiers' : \E j \in DOMAIN frames'[i].keys :
                    frames'[i].keys[j].name = t /\ frames'[i].keys[j].value = v
      <4>1. PICK i \in Quantifiers : \E j \in DOMAIN frames[i].keys :
               frames[i].keys[j].name = t /\ frames[i].keys[j].value = v
        BY <3>2, QuantKeysHave
      <4>2. i # n
        BY <2>4, <3>2, <4>1
      <4>3. i \in Quantifiers' /\ frames'[i] = frames[i]
        BY <1>3, <1>5, <4>2
      <4> QED  BY <4>1, <4>3
    <3> QED  BY <3>1, <3>2
  <2>11. QuantKeys(t)' = QuantKeys(t) \ T
    <3>1. QuantKeys(t) \subseteq Binder
      BY DEF QuantKeys
    <3>2. QuantKeys(t)' = {v \in Binder : \E i \in Quantifiers' :
                              \E j \in DOMAIN frames'[i].keys :
                                 /\ frames'[i].keys[j].name = t
                                 /\ frames'[i].keys[j].value = v}
      BY DEF QuantKeys, Quantifiers
    <3> QED  BY <2>10, <3>1, <3>2
  <2> QED  BY <2>1, <2>8, <2>9, <2>11
<1>7. \A i, k \in Quantifiers' :
         \A j \in DOMAIN frames'[i].keys, l \in DOMAIN frames'[k].keys :
            i < k \/ (i = k /\ j < l) =>
               frames'[i].keys[j].value < frames'[k].keys[l].value
  BY <1>5 DEF QuantInv
<1> QED  BY <1>6, <1>7 DEF QuantInv

\* Every step keeps the stacks of quantified names right.
LEMMA QuantStep ==
    ASSUME Typed, MapsTyped, StackInv, QuantInv, BoundBefore, [Next]_vars,
           error' = "none"
    PROVE  QuantInv'
BY StepKeepsKeys, QuantSame, QuantVarStep, CloseQuantifierStep

-----------------------------------------------------------------------------
(***************************************************************************)
(* No two maps have a binder in common: a step erases, or puts one binder  *)
(* that was never used in one of the maps.                                 *)
(***************************************************************************)
Fewer(k) == /\ k = 1 => In(LetMap)' \subseteq In(LetMap)
            /\ k = 2 => In(fun_key_map)' \subseteq In(fun_key_map)
            /\ k = 3 => In(fun_var_map)' \subseteq In(fun_var_map)
            /\ k = 4 => QuantBound' \subseteq QuantBound
            /\ k = 5 => In(var_names)' \subseteq In(var_names)

OneMore(k) ==
    /\ k = 1 => In(LetMap)' \subseteq In(LetMap) \cup {Fresh}
    /\ k = 2 => In(fun_key_map)' \subseteq In(fun_key_map) \cup {Fresh}
    /\ k = 3 => In(fun_var_map)' \subseteq In(fun_var_map) \cup {Fresh}
    /\ k = 4 => QuantBound' \subseteq QuantBound \cup {Fresh}
    /\ k = 5 => In(var_names)' \subseteq In(var_names) \cup {Fresh}

\* Disjoint sets stay so when only one of them gets what is new to both.
LEMMA StillApart ==
    ASSUME NEW A, NEW C, NEW A2, NEW C2, NEW B, NEW N,
           A \cap C = {}, A \subseteq B, C \subseteq B, N \cap B = {},
           A2 \subseteq A \cup N, C2 \subseteq C \cup N,
           A2 \subseteq A \/ C2 \subseteq C
    PROVE  A2 \cap C2 = {}
OBVIOUS

\* That no two maps hold one binder, pair by pair.
LEMMA PairsApart ==
    BoundApart <=>
       /\ In(LetMap) \cap In(fun_key_map) = {}
       /\ In(LetMap) \cap In(fun_var_map) = {}
       /\ In(LetMap) \cap QuantBound = {}
       /\ In(LetMap) \cap In(var_names) = {}
       /\ In(fun_key_map) \cap In(fun_var_map) = {}
       /\ In(fun_key_map) \cap QuantBound = {}
       /\ In(fun_var_map) \cap QuantBound = {}
BY DEF BoundApart

\* Maps stay apart when at most one of them gets a binder, which is new.
LEMMA ApartGrows ==
    ASSUME Typed, BoundApart, BoundBefore, NEW g \in 1..5,
           \/ binders' = Fresh /\ OneMore(g)
           \/ binders' = binders /\ Fewer(g),
           \A k \in 1..5 : k # g => Fewer(k)
    PROVE  BoundApart' /\ BoundBefore'
<1>1. /\ g # 1 => In(LetMap)' \subseteq In(LetMap)
      /\ g # 2 => In(fun_key_map)' \subseteq In(fun_key_map)
      /\ g # 3 => In(fun_var_map)' \subseteq In(fun_var_map)
      /\ g # 4 => QuantBound' \subseteq QuantBound
      /\ g # 5 => In(var_names)' \subseteq In(var_names)
  BY DEF Fewer
<1>2. PICK new \in {{}, {Fresh}} :
         /\ \/ binders' = binders /\ new = {}
            \/ binders' = Fresh
         /\ g = 1 => In(LetMap)' \subseteq In(LetMap) \cup new
         /\ g = 2 => In(fun_key_map)' \subseteq In(fun_key_map) \cup new
         /\ g = 3 => In(fun_var_map)' \subseteq In(fun_var_map) \cup new
         /\ g = 4 => QuantBound' \subseteq QuantBound \cup new
         /\ g = 5 => In(var_names)' \subseteq In(var_names) \cup new
  <2>1. CASE binders' = Fresh /\ OneMore(g)
    BY <2>1 DEF OneMore
  <2>2. CASE binders' = binders /\ Fewer(g)
    BY <2>2 DEF Fewer
  <2> QED  BY <2>1, <2>2
<1>3. /\ binders \in Nat /\ Fresh = binders + 1
      /\ Fresh \notin 1..binders /\ 1..binders \subseteq 1..Fresh
      /\ Fresh \in 1..Fresh
  BY ScopesAssumption DEF Typed, Fresh
<1>4. /\ new \cap 1..binders = {} /\ new \subseteq 1..binders'
      /\ 1..binders \subseteq 1..binders'
  BY <1>2, <1>3
<1> HIDE DEF Fresh
<1>5. PICK N, B : /\ N = new /\ B = 1..binders /\ N \cap B = {}
                 /\ N \subseteq 1..binders' /\ B \subseteq 1..binders'
  BY <1>4
<1>6. /\ In(LetMap)' \subseteq In(LetMap) \cup N
      /\ In(fun_key_map)' \subseteq In(fun_key_map) \cup N
      /\ In(fun_var_map)' \subseteq In(fun_var_map) \cup N
      /\ QuantBound' \subseteq QuantBound \cup N
      /\ In(var_names)' \subseteq In(var_names) \cup N
  BY <1>1, <1>2, <1>5
<1>7. /\ In(LetMap) \subseteq B /\ In(fun_key_map) \subseteq B
      /\ In(fun_var_map) \subseteq B /\ QuantBound \subseteq B
      /\ In(var_names) \subseteq B
  BY <1>5 DEF BoundBefore
<1>8. BoundBefore'
  BY <1>5, <1>6, <1>7 DEF BoundBefore
<1>9. /\ (In(LetMap)' \cap In(fun_key_map)') = {}
      /\ (In(LetMap)' \cap In(fun_var_map)') = {}
      /\ (In(LetMap)' \cap QuantBound') = {}
      /\ (In(LetMap)' \cap In(var_names)') = {}
      /\ (In(fun_key_map)' \cap In(fun_var_map)') = {}
      /\ (In(fun_key_map)' \cap QuantBound') = {}
      /\ (In(fun_var_map)' \cap QuantBound') = {}
  <2>1. In(LetMap)' \cap In(fun_key_map)' = {}
    BY <1>1, <1>5, <1>6, <1>7, PairsApart, StillApart
  <2>2. In(LetMap)' \cap In(fun_var_map)' = {}
    BY <1>1, <1>5, <1>6, <1>7, PairsApart, StillApart
  <2>3. In(LetMap)' \cap QuantBound' = {}
    <3> SUFFICES ASSUME NEW x \in In(LetMap)', x \in QuantBound'
                 PROVE  FALSE
      OBVIOUS
    <3>1. In(LetMap)' \subseteq In(LetMap) \/ QuantBound' \subseteq QuantBound
      BY <1>1
    <3>2. In(LetMap) \cap QuantBound = {}
      BY PairsApart
    <3>3. x \in In(LetMap) \cup N /\ x \in QuantBound \cup N
      BY <1>6
    <3> QED  BY <1>5, <1>7, <3>1, <3>2, <3>3
  <2>4. In(LetMap)' \cap In(var_names)' = {}
    BY <1>1, <1>5, <1>6, <1>7, PairsApart, StillApart
  <2>5. In(fun_key_map)' \cap In(fun_var_map)' = {}
    BY <1>1, <1>5, <1>6, <1>7, PairsApart, StillApart
  <2>6. In(fun_key_map)' \cap QuantBound' = {}
    <3> SUFFICES ASSUME NEW x \in In(fun_key_map)', x \in QuantBound'
                 PROVE  FALSE
      OBVIOUS
    <3>1. In(fun_key_map)' \subseteq In(fun_key_map) \/ QuantBound' \subseteq QuantBound
      BY <1>1
    <3>2. In(fun_key_map) \cap QuantBound = {}
      BY PairsApart
    <3>3. x \in In(fun_key_map) \cup N /\ x \in QuantBound \cup N
      BY <1>6
    <3> QED  BY <1>5, <1>7, <3>1, <3>2, <3>3
  <2>7. In(fun_var_map)' \cap QuantBound' = {}
    <3> SUFFICES ASSUME NEW x \in In(fun_var_map)', x \in QuantBound'
                 PROVE  FALSE
      OBVIOUS
    <3>1. In(fun_var_map)' \subseteq In(fun_var_map) \/ QuantBound' \subseteq QuantBound
      BY <1>1
    <3>2. In(fun_var_map) \cap QuantBound = {}
      BY PairsApart
    <3>3. x \in In(fun_var_map) \cup N /\ x \in QuantBound \cup N
      BY <1>6
    <3> QED  BY <1>5, <1>7, <3>1, <3>2, <3>3
  <2> QED  BY <2>1, <2>2, <2>3, <2>4, <2>5, <2>6, <2>7
<1>10. BoundApart'
  BY <1>9 DEF BoundApart
<1> QED  BY <1>8, <1>10

\* What the stacks of quantified names hold after their steps.
LEMMA QuantBoundSteps ==
    ASSUME Typed, MapsTyped
    PROVE  /\ \A s \in Name : QuantVar(s) =>
                 QuantBound' \subseteq QuantBound \cup {Fresh}
           /\ CloseQuantifier => QuantBound' \subseteq QuantBound
<1>1. ASSUME NEW s \in Name, QuantVar(s)
      PROVE  QuantBound' \subseteq QuantBound \cup {Fresh}
  <2> SUFFICES ASSUME NEW x \in QuantBound', x # Fresh
               PROVE  x \in QuantBound
    OBVIOUS
  <2>1. PICK t \in Name : \E k \in DOMAIN quant_var_map'[t] :
                             x = quant_var_map'[t][k]
    BY DEF QuantBound, Elements
  <2>2. PICK k \in DOMAIN quant_var_map'[t] : x = quant_var_map'[t][k]
    BY <2>1
  <2>3. quant_var_map' = [quant_var_map EXCEPT ![s] = Append(@, Fresh)]
    BY <1>1 DEF QuantVar
  <2>4. quant_var_map \in [Name -> Seq(Binder)]
    BY DEF MapsTyped
  <2> HIDE DEF Fresh
  <2>5. k \in DOMAIN quant_var_map[t] /\ x = quant_var_map[t][k]
    <3>1. CASE t # s
      BY <2>2, <2>3, <2>4, <3>1
    <3>2. CASE t = s
      <4>1. quant_var_map'[t] = Append(quant_var_map[t], Fresh)
        BY <2>3, <2>4, <3>2
      <4>2. PICK q \in Seq(Binder) : q = quant_var_map[t]
        BY <2>4
      <4> QED  BY <2>2, <4>1, <4>2
    <3> QED  BY <3>1, <3>2
  <2> QED  BY <2>5 DEF QuantBound, Elements
<1>2. ASSUME CloseQuantifier
      PROVE  QuantBound' \subseteq QuantBound
  <2> SUFFICES ASSUME NEW x \in QuantBound'
               PROVE  x \in QuantBound
    OBVIOUS
  <2>1. PICK t \in Name : \E k \in DOMAIN quant_var_map'[t] :
                             x = quant_var_map'[t][k]
    BY DEF QuantBound, Elements
  <2>2. PICK k \in DOMAIN quant_var_map'[t] : x = quant_var_map'[t][k]
    BY <2>1
  <2>3. PICK q \in Seq(Binder) : q = quant_var_map[t]
    BY DEF MapsTyped
  <2>4. PICK f \in Frame : f = Top
    BY <1>2, TopTyped DEF CloseQuantifier, Inner
  <2>5. PICK c \in Nat :
           c = Cardinality({j \in DOMAIN f.keys : f.keys[j].name = t})
    BY KeysNamedFinite
  <2>6. quant_var_map'[t] = SubSeq(q, 1, Len(q) - c)
    BY <1>2, <2>3, <2>4, <2>5 DEF CloseQuantifier, QuantPopped
  <2>7. k \in DOMAIN q /\ x = q[k]
    BY <2>2, <2>3, <2>5, <2>6
  <2> QED  BY <2>3, <2>7 DEF QuantBound, Elements
<1> QED  BY <1>1, <1>2

\* Every step keeps the maps apart, and their binders given already.
LEMMA BoundStep ==
    ASSUME Typed, MapsTyped, BoundApart, BoundBefore, [Next]_vars
    PROVE  BoundApart' /\ BoundBefore'
<1> USE DEF letVars, quantVars, declVars
<1> DEFINE SameBut(g) ==
       /\ g # 1 => UNCHANGED <<keep_let, let_key_map, preserving_let_key_map>>
       /\ g # 2 => fun_key_map' = fun_key_map
       /\ g # 3 => fun_var_map' = fun_var_map
       /\ g # 4 => quant_var_map' = quant_var_map
       /\ g # 5 => var_names' = var_names
<1>1. ASSUME NEW g \in 1..5, SameBut(g), NEW k \in 1..5, k # g
      PROVE  Fewer(k)
  BY <1>1 DEF Fewer, LetMap, In, QuantBound
<1>2. ASSUME NEW g \in 1..5, SameBut(g),
             \/ binders' = Fresh /\ OneMore(g)
             \/ binders' = binders /\ Fewer(g)
      PROVE  BoundApart' /\ BoundBefore'
  BY <1>1, <1>2, ApartGrows
<1>3. /\ let_key_map \in KeyMap /\ preserving_let_key_map \in KeyMap
      /\ fun_key_map \in KeyMap /\ fun_var_map \in KeyMap
      /\ var_names \in KeyMap
  BY DEF Typed, MapsTyped
<1>4. CASE \/ OpenAssert \/ CloseAssert \/ OpenQuantifier \/ EndVariables
           \/ ChainLet \/ EndBindings \/ UNCHANGED vars
           \/ \E s \in Name : \/ OpenDefine("define-fun", s)
                             \/ OpenDefine("define-fun-rec", s)
  <2>1. SameBut(1) /\ SameBut(2) /\ binders' = binders
    BY <1>4 DEF OpenAssert, CloseAssert, OpenQuantifier, EndVariables, ChainLet,
                EndBindings, vars, OpenDefine, Fail
  <2>2. Fewer(1)
    BY <1>1, <2>1
  <2> QED  BY <1>2, <2>1, <2>2
<1>5. ASSUME NEW s \in Name, DeclareVar(s)
      PROVE  BoundApart' /\ BoundBefore'
  <2>1. SameBut(5) /\ binders' = Fresh
    BY <1>5 DEF DeclareVar, Bind
  <2>2. OneMore(5)
    BY <1>3, <1>5 DEF OneMore, DeclareVar, In, KeyMap
  <2> QED  BY <1>2, <2>1, <2>2
<1>6. ASSUME NEW s \in Name, DeclareFun(s)
      PROVE  BoundApart' /\ BoundBefore'
  <2>1. SameBut(2) /\ binders' = Fresh
    BY <1>6 DEF DeclareFun, Bind
  <2>2. OneMore(2)
    BY <1>3, <1>6 DEF OneMore, DeclareFun, In, KeyMap
  <2> QED  BY <1>2, <2>1, <2>2
<1>7. ASSUME NEW s \in Name, Parameter(s)
      PROVE  BoundApart' /\ BoundBefore'
  <2>1. CASE Fail("same parameter")
    <3>1. SameBut(1) /\ SameBut(2) /\ binders' = binders
      BY <1>7, <2>1 DEF Parameter, Fail
    <3>2. Fewer(1)
      BY <1>1, <3>1
    <3> QED  BY <1>2, <3>1, <3>2
  <2>2. CASE ~Fail("same parameter")
    <3>1. SameBut(3) /\ binders' = Fresh
      BY <1>7, <2>2 DEF Parameter, Bind
    <3>2. fun_var_map' = [fun_var_map EXCEPT ![s] = Fresh]
      BY <1>7, <2>2 DEF Parameter
    <3>3. OneMore(3)
      BY <1>3, <3>2 DEF OneMore, In, KeyMap
    <3> QED  BY <1>2, <3>1, <3>3
  <2> QED  BY <2>1, <2>2
<1>8. CASE EndParameters
  <2>1. SameBut(2)
    BY <1>8 DEF EndParameters
  <2>2. \/ binders' = Fresh /\ OneMore(2)
        \/ binders' = binders /\ Fewer(2)
    <3>1. CASE Bind
      <4>1. \/ fun_key_map' = fun_key_map
            \/ fun_key_map' = [s \in Name |-> IF s \in Top.name THEN Fresh
                                              ELSE fun_key_map[s]]
        BY <1>8 DEF EndParameters
      <4>2. In(fun_key_map)' \subseteq In(fun_key_map) \cup {Fresh}
        BY <1>3, <4>1 DEF In, KeyMap
      <4> QED  BY <3>1, <4>2 DEF OneMore, Bind
    <3>2. CASE UNCHANGED <<fun_key_map, binders>>
      BY <3>2 DEF Fewer, In
    <3> QED  BY <1>8, <3>1, <3>2 DEF EndParameters
  <2> QED  BY <1>2, <2>1, <2>2
<1>9. CASE CloseDefine
  <2>1. fun_var_map' = Without(fun_var_map, NamesIn(Len(frames)))
    BY <1>9 DEF CloseDefine
  <2>2. In(fun_var_map)' \subseteq In(fun_var_map)
    BY <1>3, <2>1 DEF In, Without, KeyMap
  <2>3. /\ Fewer(1) /\ Fewer(3) /\ Fewer(4) /\ Fewer(5)
        /\ UNCHANGED <<keep_let, let_key_map, preserving_let_key_map>>
    BY <1>9, <2>2 DEF CloseDefine, Fewer, LetMap, In, QuantBound
  <2>4. \/ binders' = Fresh /\ OneMore(2)
        \/ binders' = binders /\ Fewer(2)
    <3>1. CASE Bind
      <4>1. fun_key_map' = [s \in Name |-> IF s \in Top.name THEN Fresh
                                           ELSE fun_key_map[s]]
            \/ fun_key_map' = fun_key_map
        BY <1>9 DEF CloseDefine
      <4>2. In(fun_key_map)' \subseteq In(fun_key_map) \cup {Fresh}
        BY <1>3, <4>1 DEF In, KeyMap
      <4> QED  BY <3>1, <4>2 DEF OneMore, Bind
    <3>2. CASE UNCHANGED <<fun_key_map, binders>>
      BY <3>2 DEF Fewer, In
    <3> QED  BY <1>9, <3>1, <3>2 DEF CloseDefine
  <2>5. \A k \in 1..5 : k # 2 => Fewer(k)
    BY <2>3
  <2> QED  BY <2>4, <2>5, ApartGrows
<1>10. ASSUME NEW s \in Name, QuantVar(s)
       PROVE  BoundApart' /\ BoundBefore'
  <2>1. SameBut(4) /\ binders' = Fresh
    BY <1>10 DEF QuantVar, Bind
  <2>2. OneMore(4)
    BY <1>10, QuantBoundSteps DEF OneMore
  <2> QED  BY <1>2, <2>1, <2>2
<1>11. CASE CloseQuantifier
  <2>1. SameBut(4) /\ binders' = binders
    BY <1>11 DEF CloseQuantifier
  <2>2. Fewer(4)
    BY <1>11, QuantBoundSteps DEF Fewer
  <2> QED  BY <1>2, <2>1, <2>2
<1>12. ASSUME OpenLet \/ CloseLet \/ \E s \in Name : BindingName(s)
       PROVE  BoundApart' /\ BoundBefore'
  <2>1. SameBut(1) /\ binders' = binders /\ keep_let' = keep_let
    BY <1>12 DEF OpenLet, CloseLet, BindingName, Fail
  <2>2. \/ LetMap' = LetMap \/ LetMap' = NoKeys
        \/ \E N : LetMap' = Without(LetMap, N)
    <3>1. CASE OpenLet
      BY <2>1, <3>1 DEF OpenLet, LetMap
    <3>2. CASE CloseLet
      BY <2>1, <3>2 DEF CloseLet, LetMap, KeysAfter
    <3>3. CASE \E s \in Name : BindingName(s)
      BY <2>1, <3>3 DEF BindingName, LetMap
    <3> QED  BY <1>12, <3>1, <3>2, <3>3
  <2>3. LetMap \in KeyMap
    BY <1>3 DEF LetMap
  <2>4. Fewer(1)
    BY <2>2, <2>3 DEF Fewer, In, KeyMap, Without, NoKeys
  <2> QED  BY <1>2, <2>1, <2>4
<1>13. CASE BindingValue
  <2>1. SameBut(1) /\ binders' = Fresh /\ keep_let' = keep_let
    BY <1>13 DEF BindingValue, Bind
  <2>2. PICK s \in Name : LetMap' = Inserted(LetMap, s)
    <3>1. PICK s \in Name :
             /\ preserving_let_key_map' =
                   IF keep_let THEN Inserted(preserving_let_key_map, s)
                   ELSE preserving_let_key_map
             /\ let_key_map' = IF keep_let THEN let_key_map
                               ELSE Inserted(let_key_map, s)
      BY <1>13, ValueSteps
    <3> QED  BY <2>1, <3>1 DEF LetMap
  <2>3. LetMap \in KeyMap
    BY <1>3 DEF LetMap
  <2>4. OneMore(1)
    BY <2>2, <2>3 DEF OneMore, Inserted, In, KeyMap
  <2> QED  BY <1>2, <2>1, <2>4
<1> QED
  BY <1>4, <1>5, <1>6, <1>7, <1>8, <1>9, <1>10, <1>11, <1>12, <1>13 DEF Next

-----------------------------------------------------------------------------
(***************************************************************************)
(* The whole invariant.                                                    *)
(***************************************************************************)
AllInv == Typed /\ KeysInv /\ MapsTyped /\ MapsInv

\* A parser that has read nothing satisfies the invariant.
LEMMA AllInit ==
    ASSUME Init
    PROVE  AllInv
<1> USE DEF Init
<1>1. Typed
  BY TypedInit
<1>2. frames = << >> /\ DOMAIN frames = {} /\ error = "none"
  OBVIOUS
<1>3. OpenLets = {} /\ Unchained = {} /\ Quantifiers = {}
  BY <1>2 DEF OpenLets, Unchained, Quantifiers
<1>4. KeysInv
  BY <1>2, <1>3 DEF KeysInv, BindVarsDiffer, KeysInMap, MapInKeys, KeysApart,
                    NameFree, NoKeys
<1>5. MapsTyped
  <2>1. NoKeys \in KeyMap
    BY DEF KeyMap, NoKeys
  <2>2. quant_var_map \in [Name -> Seq(Binder)]
    OBVIOUS
  <2>3. in_quantifier_scope \in BOOLEAN
    OBVIOUS
  <2> QED  BY <2>1, <2>2, <2>3 DEF MapsTyped, Errors
<1>6. /\ In(LetMap) = {} /\ In(fun_key_map) = {} /\ In(fun_var_map) = {}
      /\ In(var_names) = {} /\ QuantBound = {}
  BY DEF In, LetMap, NoKeys, QuantBound, Elements
<1>7. BoundApart /\ BoundBefore
  BY <1>6 DEF BoundApart, BoundBefore
<1>8. StackInv
  BY <1>2, <1>3 DEF StackInv, CommandFirst, PastLists, ChainsOfLets, StagesFit
<1>9. CountsInv
  BY <1>3, FS_EmptySet DEF CountsInv
<1>10. ModeInv
  BY <1>3 DEF ModeInv
<1>11. ParamsInv
  BY <1>2 DEF ParamsInv, NoKeys
<1>12. QuantInv
  <2>1. ASSUME NEW s \in Name
        PROVE  /\ Rising(quant_var_map[s])
               /\ Elements(quant_var_map[s]) = QuantKeys(s)
    BY <1>2 DEF Rising, Elements, QuantKeys
  <2> QED  BY <1>3, <2>1 DEF QuantInv
<1>13. LetValuesInv
  BY <1>3 DEF LetValuesInv
<1> QED
  BY <1>1, <1>4, <1>5, <1>7, <1>8, <1>9, <1>10, <1>11, <1>12, <1>13
     DEF AllInv, MapsInv

\* There is no error before a step if there is none after it.
LEMMA ErrorStays ==
    ASSUME [Next]_vars, error' = "none"
    PROVE  error = "none"
<1> USE DEF Inner, CanOpen, Toplevel
<1>1. CASE \E s \in Name : \/ DeclareVar(s) \/ DeclareFun(s) \/ Parameter(s)
                           \/ QuantVar(s) \/ BindingName(s)
                           \/ OpenDefine("define-fun", s)
                           \/ OpenDefine("define-fun-rec", s)
  BY <1>1 DEF DeclareVar, DeclareFun, Parameter, QuantVar, BindingName, OpenDefine
<1>2. CASE \/ OpenAssert \/ CloseAssert \/ EndParameters \/ CloseDefine
           \/ OpenQuantifier \/ EndVariables \/ CloseQuantifier
  BY <1>2 DEF OpenAssert, CloseAssert, EndParameters, CloseDefine,
              OpenQuantifier, EndVariables, CloseQuantifier
<1>3. CASE OpenLet \/ ChainLet \/ BindingValue \/ EndBindings \/ CloseLet
  BY <1>3 DEF OpenLet, ChainLet, BindingValue, EndBindings, CloseLet
<1> QED  BY <1>1, <1>2, <1>3 DEF Next, vars

\* Every step keeps the whole invariant.
LEMMA AllStep ==
    ASSUME AllInv, [Next]_vars
    PROVE  AllInv'
<1>1. Typed /\ KeysInv /\ MapsTyped /\ MapsInv
  BY DEF AllInv
<1>2. Typed'
  BY <1>1, TypedStep
<1>3. KeysInv'
  BY <1>1, KeysStep
<1>4. MapsTyped'
  BY <1>1, MapsTypedStep DEF MapsInv
<1>5. BoundApart' /\ BoundBefore'
  BY <1>1, BoundStep DEF MapsInv
<1>6. ASSUME error' = "none"
      PROVE  /\ StackInv' /\ CountsInv' /\ ModeInv'
             /\ ParamsInv' /\ QuantInv' /\ LetValuesInv'
  <2>1. error = "none"
    BY <1>6, ErrorStays
  <2>2. /\ StackInv /\ CountsInv /\ ModeInv
        /\ ParamsInv /\ QuantInv /\ LetValuesInv /\ BoundBefore
    BY <1>1, <2>1 DEF MapsInv
  <2>3. StackInv'
    BY <1>1, <1>6, <2>2, StackStep
  <2>4. CountsInv'
    BY <1>1, <1>6, <2>2, CountsStep
  <2>5. ModeInv'
    BY <1>1, <1>6, <2>2, ModeStep
  <2>6. ParamsInv'
    BY <1>1, <1>6, <2>2, ParamsStep
  <2>7. QuantInv'
    BY <1>1, <1>6, <2>2, QuantStep
  <2>8. LetValuesInv'
    BY <1>1, <1>6, <2>1, <2>2, LetValuesStep
  <2> QED  BY <2>3, <2>4, <2>5, <2>6, <2>7, <2>8
<1> QED  BY <1>2, <1>3, <1>4, <1>5, <1>6 DEF AllInv, MapsInv

(* The invariant the theorems below rest on, of every script.              *)
THEOREM MapsInvariant == Spec => []AllInv
<1>1. Init => AllInv
  BY AllInit
<1>2. AllInv /\ [Next]_vars => AllInv'
  BY AllStep
<1> QED  BY <1>1, <1>2, PTL DEF Spec

(* Whatever is declared, bound and nested, the parser's maps, flags and    *)
(* counters keep their types: no counter goes below zero.                  *)
THEOREM ScopesTyped == Spec => []ScopesTypeOK
<1>1. AllInv => ScopesTypeOK
  BY DEF AllInv, Typed, MapsTyped, ScopesTypeOK, Errors
<1> QED  BY <1>1, MapsInvariant, PTL

-----------------------------------------------------------------------------
(***************************************************************************)
(* The maps hold what the open constructs bound.                           *)
(***************************************************************************)
LEMMA RisingIsInjective ==
    ASSUME NEW q \in Seq(Nat), Rising(q)
    PROVE  Cardinality(Elements(q)) = Len(q)
<1> DEFINE f == [k \in 1..Len(q) |-> q[k]]
<1>1. DOMAIN q = 1..Len(q) /\ Len(q) \in Nat
  OBVIOUS
<1>2. f \in [1..Len(q) -> Elements(q)]
  BY <1>1 DEF Elements
<1>3. ASSUME NEW a \in 1..Len(q), NEW b \in 1..Len(q), f[a] = f[b]
      PROVE  a = b
  <2>1. q[a] = q[b] /\ q[a] \in Nat /\ q[b] \in Nat
    BY <1>1, <1>3
  <2>2. /\ a < b => q[a] < q[b]
        /\ b < a => q[b] < q[a]
    BY <1>1 DEF Rising
  <2> QED  BY <2>1, <2>2
<1>4. \A x \in Elements(q) : \E k \in 1..Len(q) : f[k] = x
  BY <1>1 DEF Elements
<1> HIDE DEF f
<1>5. f \in Bijection(1..Len(q), Elements(q))
  BY <1>2, <1>3, <1>4, Fun_IsInj, Fun_IsSurj, Fun_IsBij
<1>6. IsFiniteSet(1..Len(q)) /\ Cardinality(1..Len(q)) = Len(q)
  BY <1>1, FS_Interval
<1>7. ExistsBijection(1..Len(q), Elements(q))
  BY <1>5 DEF ExistsBijection
<1> QED  BY <1>6, <1>7, FS_Bijection

\* The map has a parameter exactly if an open definition does.
LEMMA ParametersMirrored ==
    ASSUME Typed, ParamsInv, NEW s \in Name
    PROVE  fun_var_map[s] # None <=>
              \E i \in DOMAIN frames : /\ s \in NamesIn(i)
                                       /\ ~LetAt(i) /\ ~QuantAt(i)
<1>1. \A i \in DOMAIN frames :
         frames[i].construct \in Commands <=> ~LetAt(i) /\ ~QuantAt(i)
  BY SizeTyped DEF Frame, Constructs, Commands, LetAt, QuantAt
<1>2. ASSUME NEW i \in DOMAIN frames, s \in NamesIn(i),
             frames[i].construct \in Commands
      PROVE  fun_var_map[s] # None
  <2>1. PICK j \in DOMAIN frames[i].keys : frames[i].keys[j].name = s
    BY <1>2 DEF NamesIn
  <2>2. fun_var_map[s] = frames[i].keys[j].value
    BY <1>2, <2>1 DEF ParamsInv
  <2>3. frames[i].keys[j].value \in Binder
    BY KeyIsTyped
  <2> QED  BY <2>2, <2>3 DEF Binder, None
<1> QED  BY <1>1, <1>2 DEF ParamsInv

(* At every point of a script that has not been refused, each map holds    *)
(* exactly what the constructs still open bound, in an expanded let, a     *)
(* definition or a quantifier, and the depths count them.                  *)
THEOREM MapsMirrored == Spec => []MapsMirrorScopes
<1>1. ASSUME AllInv, error = "none"
      PROVE  /\ LetMapMirrorsLets
             /\ \A s \in Name :
                   /\ fun_var_map[s] # None <=>
                         \E i \in DOMAIN frames : /\ s \in NamesIn(i)
                                                  /\ ~LetAt(i) /\ ~QuantAt(i)
                   /\ {quant_var_map[s][k] : k \in DOMAIN quant_var_map[s]}
                         = QuantKeys(s)
                   /\ Len(quant_var_map[s]) = Cardinality(QuantKeys(s))
             /\ quant_nesting_depth
                   = Cardinality({i \in DOMAIN frames : QuantAt(i)})
             /\ in_quantifier_scope <=> \E i \in DOMAIN frames : QuantAt(i)
             /\ let_nesting_depth =
                   Cardinality({i \in OpenLets : ~frames[i].chained})
  <2>1. /\ Typed /\ KeysInv /\ MapsTyped
        /\ CountsInv /\ ParamsInv /\ QuantInv
    BY <1>1 DEF AllInv, MapsInv
  <2>2. LetMapMirrorsLets
    BY <1>1, <2>1 DEF LetMapMirrorsLets, KeysInv, KeysInMap, MapInKeys
  <2>3. ASSUME NEW s \in Name
        PROVE  /\ Elements(quant_var_map[s]) = QuantKeys(s)
               /\ Len(quant_var_map[s]) = Cardinality(QuantKeys(s))
    <3>1. PICK q : q = quant_var_map[s]
      OBVIOUS
    <3>2. q \in Seq(Binder) /\ Binder \subseteq Nat
      BY <2>1, <3>1 DEF MapsTyped, Binder
    <3>3. q \in Seq(Nat)
      BY <3>2, SeqMonotonic
    <3>4. Rising(q) /\ Elements(q) = QuantKeys(s)
      BY <2>1, <3>1 DEF QuantInv
    <3> QED  BY <3>1, <3>3, <3>4, RisingIsInjective
  <2>4. \A s \in Name : fun_var_map[s] # None <=>
           \E i \in DOMAIN frames : s \in NamesIn(i) /\ ~LetAt(i) /\ ~QuantAt(i)
    BY <2>1, ParametersMirrored
  <2>5. /\ quant_nesting_depth
              = Cardinality({i \in DOMAIN frames : QuantAt(i)})
        /\ let_nesting_depth =
              Cardinality({i \in OpenLets : ~frames[i].chained})
    BY <2>1 DEF CountsInv, Quantifiers, Unchained
  <2>6. in_quantifier_scope <=> \E i \in DOMAIN frames : QuantAt(i)
    <3>1. in_quantifier_scope <=> Quantifiers # {}
      BY <2>1 DEF CountsInv
    <3>2. Quantifiers # {} <=> \E i \in DOMAIN frames : QuantAt(i)
      BY DEF Quantifiers
    <3> QED  BY <3>1, <3>2
  <2>7. \A s \in Name :
           {quant_var_map[s][k] : k \in DOMAIN quant_var_map[s]} = QuantKeys(s)
    BY <2>3 DEF Elements
  <2> QED  BY <2>2, <2>3, <2>4, <2>5, <2>6, <2>7
<1>2. AllInv => MapsMirrorScopes
  BY <1>1 DEF MapsMirrorScopes
<1> QED  BY <1>2, MapsInvariant, PTL

-----------------------------------------------------------------------------
(***************************************************************************)
(* Let keys.                                                               *)
(***************************************************************************)
(* What is not a let key is not taken for one.                             *)
LEMMA OtherMeaning ==
    ASSUME Typed, MapsTyped, BoundApart, NEW s \in Name, LetMap[s] # None
    PROVE  /\ fun_key_map[s] # LetMap[s] /\ fun_var_map[s] # LetMap[s]
           /\ var_names[s] # LetMap[s]
           /\ quant_var_map[s] # << >> =>
                 quant_var_map[s][Len(quant_var_map[s])] # LetMap[s]
<1>1. LetMap[s] \in In(LetMap)
  BY DEF In
<1>2. /\ fun_key_map[s] # None => fun_key_map[s] \in In(fun_key_map)
      /\ fun_var_map[s] # None => fun_var_map[s] \in In(fun_var_map)
      /\ var_names[s] # None => var_names[s] \in In(var_names)
  BY DEF In
<1>3. quant_var_map[s] # << >> =>
         quant_var_map[s][Len(quant_var_map[s])] \in QuantBound
  <2>1. PICK q \in Seq(Binder) : q = quant_var_map[s]
    BY DEF MapsTyped
  <2>2. q # << >> => Len(q) \in DOMAIN q
    OBVIOUS
  <2> QED  BY <2>1, <2>2 DEF QuantBound, Elements
<1> QED  BY <1>1, <1>2, <1>3 DEF BoundApart

(* A let key is seen only inside of a let: where none is open, either the  *)
(* mode keeps the parser from asking the map or the map is empty, although *)
(* kept keys are never erased and the constructor leaves the mode unset.   *)
THEOREM LetKeysInLets == Spec => []LetKeysOnlyInLets
<1>1. ASSUME AllInv, ReadsTerms, OpenLets = {}, NEW s \in Name,
             LetMap[s] # None
      PROVE  Meaning[s] # LetMap[s]
  <2>1. error = "none"
    BY <1>1 DEF ReadsTerms, Inner
  <2>2. Typed /\ MapsTyped /\ BoundApart /\ ModeInv /\ KeysInv
    BY <1>1, <2>1 DEF AllInv, MapsInv
  <2>3. current_let_mode = "LM_NON_LET"
    <3>1. CASE keep_let
      BY <1>1, <2>2, <3>1 DEF ModeInv, LetMap, NoKeys
    <3>2. CASE ~keep_let
      BY <1>1, <2>1, <2>2, <3>2 DEF KeysInv, MapInKeys, LetMap
    <3> QED  BY <3>1, <3>2
  <2>4. Meaning[s] = IF fun_key_map[s] # None THEN fun_key_map[s]
                     ELSE IF fun_var_map[s] # None THEN fun_var_map[s]
                     ELSE IF in_quantifier_scope /\ quant_var_map[s] # << >>
                          THEN quant_var_map[s][Len(quant_var_map[s])]
                     ELSE var_names[s]
    BY <2>3 DEF Meaning
  <2> QED  BY <1>1, <2>2, <2>4, OtherMeaning
<1>2. AllInv => LetKeysOnlyInLets
  BY <1>1 DEF LetKeysOnlyInLets
<1> QED  BY <1>2, MapsInvariant, PTL

(* The key in use for a name stays in use until it is erased: a value is   *)
(* inserted only where there is none, in both maps.                        *)
THEOREM LetKeysKept == Spec => LetKeysStay
<1>1. ASSUME Typed, [Next]_vars, NEW s \in Name, LetMap[s] # None
      PROVE  LetMap'[s] \in {None, LetMap[s]}
  <2> USE DEF letVars, quantVars, declVars
  <2>1. CASE UNCHANGED <<keep_let, letVars>>
    BY <2>1 DEF LetMap
  <2>2. CASE OpenLet \/ CloseLet \/ \E t \in Name : BindingName(t)
    <3>1. keep_let' = keep_let
      BY <2>2 DEF OpenLet, CloseLet, BindingName, Fail
    <3>2. \/ LetMap' = LetMap \/ LetMap' = NoKeys
          \/ \E N : LetMap' = Without(LetMap, N)
      <4>1. CASE OpenLet
        BY <3>1, <4>1 DEF OpenLet, LetMap
      <4>2. CASE CloseLet
        BY <3>1, <4>2 DEF CloseLet, LetMap, KeysAfter
      <4>3. CASE \E t \in Name : BindingName(t)
        BY <3>1, <4>3 DEF BindingName, LetMap
      <4> QED  BY <2>2, <4>1, <4>2, <4>3
    <3> QED  BY <3>2 DEF NoKeys, Without
  <2>3. CASE BindingValue
    <3>1. PICK t \in Name :
             /\ preserving_let_key_map' =
                   IF keep_let THEN Inserted(preserving_let_key_map, t)
                   ELSE preserving_let_key_map
             /\ let_key_map' = IF keep_let THEN let_key_map
                               ELSE Inserted(let_key_map, t)
      BY <1>1, <2>3, ValueSteps
    <3>2. keep_let' = keep_let
      BY <2>3 DEF BindingValue
    <3>3. LetMap' = Inserted(LetMap, t) /\ LetMap \in KeyMap
      BY <1>1, <3>1, <3>2 DEF LetMap, Typed
    <3> QED  BY <1>1, <3>3 DEF Inserted, KeyMap
  <2>4. CASE ~(OpenLet \/ CloseLet \/ BindingValue
                  \/ \E t \in Name : BindingName(t))
    <3>1. CASE \/ \E t \in Name : \/ DeclareVar(t) \/ DeclareFun(t)
                                  \/ Parameter(t) \/ QuantVar(t)
                                  \/ OpenDefine("define-fun", t)
                                  \/ OpenDefine("define-fun-rec", t)
               \/ UNCHANGED vars
      BY <2>1, <3>1 DEF DeclareVar, DeclareFun, Parameter, QuantVar,
                        OpenDefine, Fail, vars
    <3>2. CASE \/ OpenAssert \/ CloseAssert \/ EndParameters \/ CloseDefine
               \/ OpenQuantifier \/ EndVariables \/ CloseQuantifier
               \/ ChainLet \/ EndBindings
      BY <2>1, <3>2 DEF OpenAssert, CloseAssert, EndParameters, CloseDefine,
                        OpenQuantifier, EndVariables, CloseQuantifier,
                        ChainLet, EndBindings
    <3> QED  BY <1>1, <2>4, <3>1, <3>2 DEF Next
  <2> QED  BY <2>2, <2>3, <2>4
<1>2. Typed /\ [Next]_vars =>
         [\A s \in Name : LetMap[s] # None
             => LetMap'[s] \in {None, LetMap[s]}]_vars
  BY <1>1
<1>3. AllInv => Typed
  BY DEF AllInv
<1> QED  BY <1>2, <1>3, MapsInvariant, PTL DEF Spec, LetKeysStay

-----------------------------------------------------------------------------
(***************************************************************************)
(* What a symbol is taken for.                                             *)
(***************************************************************************)
LEMMA GreatestIs ==
    ASSUME NEW n \in Nat, NEW S \in SUBSET (1..n), S # {}
    PROVE  Greatest(S) \in S /\ \A j \in S : j <= Greatest(S)
<1> DEFINE T == {n - i : i \in S}
<1>1. T \in SUBSET Nat /\ T # {}
  <2>1. ASSUME NEW i \in S
        PROVE  n - i \in Nat
    OBVIOUS
  <2> QED  BY <2>1
<1>2. PICK t \in T : \A u \in T : t <= u
  BY <1>1, SetHasFirst
<1>3. PICK i \in S : t = n - i
  BY <1>2
<1>4. \A j \in S : j <= i
  BY <1>2, <1>3
<1> QED  BY <1>4 DEF Greatest

(* The key a frame has for a name is the last of that name.                *)
LEMMA KeyOfIs ==
    ASSUME Typed, NEW i \in DOMAIN frames, NEW s \in NamesIn(i)
    PROVE  \E g \in DOMAIN frames[i].keys :
              /\ frames[i].keys[g].name = s
              /\ KeyOf(i, s) = frames[i].keys[g]
              /\ \A j \in DOMAIN frames[i].keys :
                    frames[i].keys[j].name = s => j <= g
<1> DEFINE J == {j \in DOMAIN frames[i].keys : frames[i].keys[j].name = s}
<1>1. frames[i].keys \in Seq(Key)
  BY SizeTyped
<1>2. PICK n \in Nat : DOMAIN frames[i].keys = 1..n
  BY <1>1
<1>3. J \in SUBSET (1..n) /\ J # {}
  BY <1>2 DEF NamesIn
<1>4. KeyOf(i, s) = frames[i].keys[Greatest(J)]
  BY DEF KeyOf
<1>5. Greatest(J) \in J /\ \A j \in J : j <= Greatest(J)
  BY <1>3, GreatestIs
<1> QED  BY <1>4, <1>5

\* The innermost construct that binds a name is the last on the stack that does.
LEMMA InnerIs ==
    ASSUME Typed, NEW s, BindersOf(s) # {}
    PROVE  /\ Greatest(BindersOf(s)) \in BindersOf(s)
           /\ \A i \in BindersOf(s) : i <= Greatest(BindersOf(s))
<1>1. Len(frames) \in Nat /\ DOMAIN frames = 1..Len(frames)
  BY SizeTyped
<1>2. BindersOf(s) \in SUBSET (1..Len(frames))
  BY <1>1 DEF BindersOf
<1> QED  BY <1>1, <1>2, GreatestIs

(* Where a key stands in the maps.                                         *)
LEMMA KeyStands ==
    ASSUME Typed, MapsTyped, ParamsInv, QuantInv, LetValuesInv, ~keep_let,
           NEW i \in DOMAIN frames, NEW s \in NamesIn(i), s \in Name
    PROVE  /\ KeyOf(i, s).value \in Binder
           /\ LetAt(i) => KeyOf(i, s).value = let_key_map[s]
           /\ frames[i].construct \in Commands =>
                 KeyOf(i, s).value = fun_var_map[s]
           /\ QuantAt(i) => KeyOf(i, s).value \in QuantKeys(s)
<1>1. PICK g \in DOMAIN frames[i].keys :
         frames[i].keys[g].name = s /\ KeyOf(i, s) = frames[i].keys[g]
  BY KeyOfIs
<1>2. KeyOf(i, s).value \in Binder
  BY <1>1, KeyIsTyped
<1>3. ASSUME LetAt(i)
      PROVE  KeyOf(i, s).value = let_key_map[s]
  <2>1. i \in OpenLets
    BY <1>3 DEF OpenLets
  <2> QED  BY <1>1, <2>1 DEF LetValuesInv
<1>4. ASSUME frames[i].construct \in Commands
      PROVE  KeyOf(i, s).value = fun_var_map[s]
  BY <1>1, <1>4 DEF ParamsInv
<1>5. ASSUME QuantAt(i)
      PROVE  KeyOf(i, s).value \in QuantKeys(s)
  BY <1>1, <1>2, <1>5 DEF QuantKeys
<1> QED  BY <1>2, <1>3, <1>4, <1>5

(* The innermost variable of a name is on top of the stack of the name.    *)
LEMMA LastIsInner ==
    ASSUME Typed, MapsTyped, QuantInv, NEW s \in Name,
           NEW i \in Quantifiers, s \in NamesIn(i),
           \A k \in Quantifiers : s \in NamesIn(k) => k <= i
    PROVE  /\ quant_var_map[s] # << >>
           /\ KeyOf(i, s).value = quant_var_map[s][Len(quant_var_map[s])]
<1>1. i \in DOMAIN frames /\ QuantAt(i)
  BY DEF Quantifiers
<1>2. PICK g \in DOMAIN frames[i].keys :
         /\ frames[i].keys[g].name = s
         /\ KeyOf(i, s) = frames[i].keys[g]
         /\ \A j \in DOMAIN frames[i].keys :
               frames[i].keys[j].name = s => j <= g
  BY <1>1, KeyOfIs
<1>3. PICK v \in Binder : v = frames[i].keys[g].value
  BY <1>1, <1>2, KeyIsTyped
<1>4. v \in QuantKeys(s)
  BY <1>1, <1>2, <1>3 DEF QuantKeys
<1>5. ASSUME NEW w \in QuantKeys(s)
      PROVE  w <= v
  <2>1. PICK k \in DOMAIN frames :
           /\ QuantAt(k)
           /\ \E j \in DOMAIN frames[k].keys : /\ frames[k].keys[j].name = s
                                               /\ frames[k].keys[j].value = w
    BY DEF QuantKeys
  <2>2. PICK j \in DOMAIN frames[k].keys : /\ frames[k].keys[j].name = s
                                           /\ frames[k].keys[j].value = w
    BY <2>1
  <2>3. k \in Quantifiers /\ s \in NamesIn(k) /\ k <= i
    BY <2>1, <2>2 DEF Quantifiers, NamesIn
  <2>4. k \in Nat /\ i \in Nat /\ w \in Nat /\ v \in Nat
    BY <1>1, <2>1, SizeTyped DEF QuantKeys, Binder
  <2>5. CASE k < i
    BY <1>2, <1>3, <2>2, <2>3, <2>4, <2>5 DEF QuantInv
  <2>6. CASE k = i
    <3>1. j <= g /\ j \in Nat /\ g \in Nat
      BY <1>1, <1>2, <2>2, <2>6, SizeTyped
    <3>2. CASE j = g
      BY <1>3, <2>2, <2>4, <2>6, <3>2
    <3>3. CASE j < g
      BY <1>2, <1>3, <2>2, <2>3, <2>4, <2>6, <3>3 DEF QuantInv
    <3> QED  BY <3>1, <3>2, <3>3
  <2> QED  BY <2>3, <2>4, <2>5, <2>6
<1>6. PICK q \in Seq(Binder) : q = quant_var_map[s]
  BY DEF MapsTyped
<1>7. Elements(q) = QuantKeys(s) /\ Rising(q)
  BY <1>6 DEF QuantInv
<1>8. PICK k \in DOMAIN q : q[k] = v
  BY <1>4, <1>7 DEF Elements
<1>9. Len(q) \in Nat /\ k \in 1..Len(q) /\ Len(q) \in DOMAIN q
  BY <1>8
<1>10. q[Len(q)] \in QuantKeys(s)
  BY <1>7, <1>9 DEF Elements
<1>11. q[Len(q)] <= v
  BY <1>5, <1>10
<1>12. k < Len(q) => v < q[Len(q)]
  BY <1>7, <1>8, <1>9 DEF Rising
<1>13. v \in Nat /\ q[Len(q)] \in Nat
  <2>1. q[Len(q)] \in Binder
    BY <1>9
  <2> QED  BY <2>1 DEF Binder
<1>14. k = Len(q)
  BY <1>9, <1>11, <1>12, <1>13
<1>15. q # << >>
  BY <1>9
<1> QED  BY <1>2, <1>3, <1>6, <1>8, <1>14, <1>15

(* The values of keys are apart as the maps are.                           *)
LEMMA ValuesApart ==
    ASSUME Typed, MapsTyped, ParamsInv, QuantInv, LetValuesInv, BoundApart,
           ~keep_let, NEW s \in Name, NEW i \in DOMAIN frames,
           s \in NamesIn(i), ~LetAt(i)
    PROVE  /\ let_key_map[s] # None => KeyOf(i, s).value # let_key_map[s]
           /\ fun_key_map[s] # None => KeyOf(i, s).value # fun_key_map[s]
           /\ QuantAt(i) /\ fun_var_map[s] # None
                 => KeyOf(i, s).value # fun_var_map[s]
<1>1. KeyOf(i, s).value \in Binder
  BY KeyStands
<1>2. KeyOf(i, s).value # None
  BY <1>1 DEF Binder, None
<1>3. /\ let_key_map[s] # None => let_key_map[s] \in In(LetMap)
      /\ fun_key_map[s] # None => fun_key_map[s] \in In(fun_key_map)
      /\ fun_var_map[s] # None => fun_var_map[s] \in In(fun_var_map)
  BY DEF In, LetMap
<1>4. CASE QuantAt(i)
  <2>1. KeyOf(i, s).value \in QuantBound
    BY <1>4, KeyStands DEF QuantInv, QuantBound
  <2> QED  BY <1>3, <2>1 DEF BoundApart
<1>5. CASE frames[i].construct \in Commands
  <2>1. KeyOf(i, s).value \in In(fun_var_map)
    BY <1>2, <1>5, KeyStands DEF In
  <2>2. ~QuantAt(i)
    BY <1>5 DEF QuantAt, Commands
  <2> QED  BY <1>3, <2>1, <2>2 DEF BoundApart
<1> QED
  BY <1>4, <1>5, SizeTyped DEF Frame, Constructs, Commands, LetAt, QuantAt

\* A name means what the script says, except where Misread says that it does not.
LEMMA ReadAsScript ==
    ASSUME AllInv, ReadsTerms, ~keep_let, NEW s \in Name
    PROVE  \/ Meaning[s] = Lexical(s) /\ ~Misread(s)
           \/ Meaning[s] # Lexical(s) /\ Misread(s)
<1>1. error = "none" /\ frames # << >> /\ Top.stage # "list"
  BY DEF ReadsTerms, Inner
<1>2. /\ Typed /\ MapsTyped /\ BoundApart
      /\ StackInv /\ ModeInv /\ ParamsInv /\ QuantInv /\ LetValuesInv
      /\ CountsInv /\ KeysInMap /\ MapInKeys /\ KeysApart
  BY <1>1 DEF AllInv, MapsInv, KeysInv
<1>3. Meaning[s] =
         IF let_key_map[s] # None THEN let_key_map[s]
         ELSE IF fun_key_map[s] # None THEN fun_key_map[s]
         ELSE IF fun_var_map[s] # None THEN fun_var_map[s]
         ELSE IF in_quantifier_scope /\ quant_var_map[s] # << >>
              THEN quant_var_map[s][Len(quant_var_map[s])]
         ELSE var_names[s]
  <2>1. let_key_map[s] # None => current_let_mode # "LM_NON_LET"
    BY <1>2 DEF MapInKeys, ModeInv
  <2> QED  BY <2>1 DEF Meaning, LetMap
<1>4. \A i \in DOMAIN frames :
         /\ frames[i].stage # "list"
         /\ i \in BindersOf(s) <=> s \in NamesIn(i) /\ ~Pending(i, s)
  <2>1. \A i \in DOMAIN frames : frames[i].stage # "list"
    BY <1>1, <1>2 DEF StackInv, PastLists, Top
  <2> QED  BY <2>1 DEF BindersOf, Binds, Pending
<1>5. \A i \in DOMAIN frames :
         /\ frames[i].construct \in Commands <=> ~LetAt(i) /\ ~QuantAt(i)
         /\ frames[i].construct \in Commands <=> i = 1
         /\ i >= 1 /\ i \in Nat
  <2>1. \A i \in DOMAIN frames :
           frames[i].construct \in Commands <=> ~LetAt(i) /\ ~QuantAt(i)
    BY <1>2, SizeTyped DEF Frame, Constructs, Commands, LetAt, QuantAt
  <2>2. \A i \in DOMAIN frames : frames[i].construct \in Commands <=> i = 1
    BY <1>2 DEF StackInv, CommandFirst
  <2> QED  BY <1>2, <2>1, <2>2, SizeTyped
<1>6. \A i \in BindersOf(s) : i \in DOMAIN frames /\ s \in NamesIn(i)
  BY DEF BindersOf, Binds
<1> DEFINE inner == Greatest(BindersOf(s))
<1>7. BindersOf(s) # {} =>
         /\ inner \in BindersOf(s) /\ inner \in DOMAIN frames
         /\ s \in NamesIn(inner)
         /\ \A i \in BindersOf(s) : i <= inner
         /\ Lexical(s) = KeyOf(inner, s).value
         /\ LetAt(inner) => Lexical(s) = let_key_map[s]
         /\ ~LetAt(inner) /\ let_key_map[s] # None
               => Lexical(s) # let_key_map[s]
         /\ ~LetAt(inner) /\ fun_key_map[s] # None
               => Lexical(s) # fun_key_map[s]
         /\ QuantAt(inner) /\ fun_var_map[s] # None
               => Lexical(s) # fun_var_map[s]
         /\ frames[inner].construct \in Commands
               => Lexical(s) = fun_var_map[s]
  <2> SUFFICES ASSUME BindersOf(s) # {}
               PROVE  /\ inner \in BindersOf(s) /\ inner \in DOMAIN frames
                      /\ s \in NamesIn(inner)
                      /\ \A i \in BindersOf(s) : i <= inner
                      /\ Lexical(s) = KeyOf(inner, s).value
                      /\ LetAt(inner) => Lexical(s) = let_key_map[s]
                      /\ ~LetAt(inner) /\ let_key_map[s] # None
                            => Lexical(s) # let_key_map[s]
                      /\ ~LetAt(inner) /\ fun_key_map[s] # None
                            => Lexical(s) # fun_key_map[s]
                      /\ QuantAt(inner) /\ fun_var_map[s] # None
                            => Lexical(s) # fun_var_map[s]
                      /\ frames[inner].construct \in Commands
                            => Lexical(s) = fun_var_map[s]
    OBVIOUS
  <2>1. Lexical(s) = KeyOf(inner, s).value
    BY DEF Lexical
  <2>2. /\ inner \in BindersOf(s) /\ \A i \in BindersOf(s) : i <= inner
    BY <1>2, InnerIs
  <2>3. inner \in DOMAIN frames /\ s \in NamesIn(inner)
    BY <1>6, <2>2
  <2> HIDE DEF inner
  <2>4. /\ LetAt(inner) => KeyOf(inner, s).value = let_key_map[s]
        /\ frames[inner].construct \in Commands =>
              KeyOf(inner, s).value = fun_var_map[s]
    BY <1>2, <2>3, KeyStands
  <2>5. ~LetAt(inner) =>
           /\ let_key_map[s] # None => KeyOf(inner, s).value # let_key_map[s]
           /\ fun_key_map[s] # None => KeyOf(inner, s).value # fun_key_map[s]
           /\ QuantAt(inner) /\ fun_var_map[s] # None
                 => KeyOf(inner, s).value # fun_var_map[s]
    BY <1>2, <2>3, ValuesApart
  <2>6. QuantAt(inner) => ~LetAt(inner)
    BY DEF QuantAt, LetAt
  <2> QED  BY <2>1, <2>2, <2>3, <2>4, <2>5, <2>6
<1> HIDE DEF inner
<1>8. BindersOf(s) = {} =>
         Lexical(s) = IF fun_key_map[s] # None THEN fun_key_map[s]
                      ELSE var_names[s]
  BY DEF Lexical
<1>9. Misread(s) <=>
         \/ \E i \in DOMAIN frames : Pending(i, s)
         \/ /\ BindersOf(s) # {}
            /\ \/ ~LetAt(inner) /\ fun_key_map[s] # None
               \/ QuantAt(inner) /\ \E i \in BindersOf(s) : ~QuantAt(i)
  BY DEF Misread, inner
<1>10. \A i : LetAt(i) => ~QuantAt(i)
  BY DEF LetAt, QuantAt
<1>11. CASE let_key_map[s] # None
  <2>1. PICK i \in OpenLets : s \in NamesIn(i)
    BY <1>2, <1>11 DEF MapInKeys
  <2>2. i \in DOMAIN frames /\ LetAt(i)
    BY DEF OpenLets
  <2>3. \A k \in DOMAIN frames : LetAt(k) /\ s \in NamesIn(k) => k = i
    BY <1>2, <2>1 DEF KeysApart, OpenLets
  <2>4. CASE Pending(i, s)
    <3>1. i \notin BindersOf(s)
      BY <1>4, <2>2, <2>4
    <3>2. BindersOf(s) # {} => ~LetAt(inner)
      BY <1>7, <2>3, <3>1
    <3>3. Lexical(s) # let_key_map[s]
      <4>1. CASE BindersOf(s) # {}
        BY <1>7, <1>11, <3>2, <4>1
      <4>2. CASE BindersOf(s) = {}
        BY <1>2, <1>8, <1>11, <4>2, OtherMeaning DEF LetMap
      <4> QED  BY <4>1, <4>2
    <3> QED  BY <1>3, <1>9, <1>11, <2>2, <2>4, <3>3
  <2>5. CASE ~Pending(i, s)
    <3>1. i \in BindersOf(s)
      BY <1>4, <2>1, <2>2, <2>5
    <3>2. \A k \in DOMAIN frames : ~Pending(k, s)
      BY <2>3, <2>5 DEF Pending
    <3>3. CASE LetAt(inner)
      <4>1. Lexical(s) = let_key_map[s]
        BY <1>7, <3>1, <3>3
      <4>2. ~Misread(s)
        BY <1>9, <1>10, <3>2, <3>3
      <4> QED  BY <1>3, <1>11, <4>1, <4>2
    <3>4. CASE ~LetAt(inner)
      <4>1. Lexical(s) # let_key_map[s]
        BY <1>7, <1>11, <3>1, <3>4
      <4>2. inner # 1
        <5>1. i <= inner /\ i >= 1 /\ i # 1 /\ inner \in Nat /\ i \in Nat
          BY <1>5, <1>7, <2>2, <3>1
        <5> QED  BY <5>1
      <4>3. QuantAt(inner)
        BY <1>5, <1>7, <3>1, <3>4, <4>2
      <4>4. Misread(s)
        BY <1>9, <1>10, <2>2, <3>1, <4>3
      <4> QED  BY <1>3, <1>11, <4>1, <4>4
    <3> QED  BY <3>3, <3>4
  <2> QED  BY <2>4, <2>5
<1>12. CASE let_key_map[s] = None
  <2>1. \A i \in DOMAIN frames : s \in NamesIn(i) => ~LetAt(i)
    BY <1>2, <1>12 DEF KeysInMap, OpenLets
  <2>2. \A i \in DOMAIN frames : ~Pending(i, s)
    BY <2>1 DEF Pending
  <2>3. \A i \in DOMAIN frames : i \in BindersOf(s) <=> s \in NamesIn(i)
    BY <1>4, <2>2
  <2>4. CASE fun_key_map[s] # None
    <3>1. Meaning[s] = fun_key_map[s]
      BY <1>3, <1>12, <2>4
    <3>2. CASE BindersOf(s) = {}
      BY <1>8, <1>9, <2>2, <2>4, <3>1, <3>2
    <3>3. CASE BindersOf(s) # {}
      <4>1. ~LetAt(inner)
        BY <1>7, <2>1, <3>3
      <4>2. Lexical(s) # fun_key_map[s]
        BY <1>7, <2>4, <3>3, <4>1
      <4>3. Misread(s)
        BY <1>9, <2>4, <3>3, <4>1
      <4> QED  BY <3>1, <4>2, <4>3
    <3> QED  BY <3>2, <3>3
  <2>5. CASE fun_key_map[s] = None /\ fun_var_map[s] # None
    <3>1. Meaning[s] = fun_var_map[s]
      BY <1>3, <1>12, <2>5
    <3>2. PICK i \in DOMAIN frames : /\ frames[i].construct \in Commands
                                     /\ s \in NamesIn(i)
      BY <1>2, <2>5 DEF ParamsInv
    <3>3. i \in BindersOf(s) /\ ~QuantAt(i)
      BY <1>5, <2>3, <3>2
    <3>4. CASE QuantAt(inner)
      <4>1. Lexical(s) # fun_var_map[s]
        BY <1>7, <2>5, <3>3, <3>4
      <4>2. Misread(s)
        BY <1>9, <3>3, <3>4
      <4> QED  BY <3>1, <4>1, <4>2
    <3>5. CASE ~QuantAt(inner)
      <4>1. frames[inner].construct \in Commands
        BY <1>5, <1>7, <2>1, <3>3, <3>5
      <4>2. Lexical(s) = fun_var_map[s]
        BY <1>7, <3>3, <4>1
      <4>3. ~Misread(s)
        BY <1>9, <2>2, <2>5, <3>5
      <4> QED  BY <3>1, <4>2, <4>3
    <3> QED  BY <3>4, <3>5
  <2>6. CASE fun_key_map[s] = None /\ fun_var_map[s] = None
    <3>1. \A i \in DOMAIN frames : s \in NamesIn(i) => QuantAt(i)
      BY <1>2, <2>1, <2>6, ParametersMirrored
    <3>2. ~Misread(s)
      BY <1>6, <1>9, <2>2, <2>6, <3>1
    <3>3. CASE BindersOf(s) # {}
      <4>1. inner \in Quantifiers
        BY <1>7, <3>1, <3>3 DEF Quantifiers
      <4>2. \A k \in Quantifiers : s \in NamesIn(k) => k <= inner
        BY <1>7, <2>3, <3>3 DEF Quantifiers
      <4>3. /\ quant_var_map[s] # << >>
            /\ KeyOf(inner, s).value
                  = quant_var_map[s][Len(quant_var_map[s])]
        BY <1>2, <1>7, <3>3, <4>1, <4>2, LastIsInner
      <4>4. in_quantifier_scope
        BY <1>2, <4>1 DEF CountsInv
      <4>5. Meaning[s] = quant_var_map[s][Len(quant_var_map[s])]
        BY <1>3, <1>12, <2>6, <4>3, <4>4
      <4> QED  BY <1>7, <3>2, <3>3, <4>3, <4>5
    <3>4. CASE BindersOf(s) = {}
      <4>1. QuantKeys(s) = {}
        BY <2>3, <3>4 DEF QuantKeys, NamesIn
      <4>2. quant_var_map[s] = << >>
        <5>1. PICK q \in Seq(Binder) : q = quant_var_map[s]
          BY <1>2 DEF MapsTyped
        <5>2. Elements(q) = {}
          BY <1>2, <4>1, <5>1 DEF QuantInv
        <5>3. DOMAIN q = {}
          BY <5>2 DEF Elements
        <5>4. Len(q) = 0
          BY <5>3
        <5> QED  BY <5>1, <5>4
      <4>3. Meaning[s] = var_names[s]
        BY <1>3, <1>12, <2>6, <4>2
      <4> QED  BY <1>8, <2>6, <3>2, <3>4, <4>3
    <3> QED  BY <3>3, <3>4
  <2> QED  BY <2>4, <2>5, <2>6
<1> QED  BY <1>11, <1>12

(* A symbol is read as the script means it in every state but those that   *)
(* Misread names, and in each of those it is read as something else: the   *)
(* order in which parseConstFunc asks the maps is right through any        *)
(* nesting, with just the exceptions listed there.                         *)
THEOREM MisreadExactly == Spec => []MisreadExactlyWhen
<1>1. AllInv => MisreadExactlyWhen
  BY ReadAsScript DEF MisreadExactlyWhen
<1> QED  BY <1>1, MapsInvariant, PTL
=============================================================================
