------------------------------- MODULE Scopes -------------------------------
(***************************************************************************)
(* What a name means to the parser while it reads a script.                *)
(*                                                                         *)
(* SMT-LIB is lexically scoped. The parser keeps no environment: it has    *)
(* one map for each sort of binder and asks them in a fixed order. This    *)
(* module models the maps and every construct that changes them. The       *)
(* constructs being read are the variable frames: in the code they are the *)
(* C++ call stack and the stateStack of a chain of lets.                   *)
(*                                                                         *)
(* The script is left open: any construct may come next wherever the       *)
(* grammar allows one. Reading a symbol changes no map, so what it would   *)
(* mean is a function of the state, Meaning. Terms and sorts are left out: *)
(* what is bound is known by the number of its binder.                     *)
(***************************************************************************)
EXTENDS Integers, Sequences, FiniteSets

CONSTANTS
    Name,        \* symbols of the script
    MaxDepth,    \* bound on nested constructs
    MaxBinders   \* bound on declarations and bindings in a script

ASSUME ScopesAssumption == MaxDepth \in Nat /\ MaxBinders \in Nat

None   == 0
Binder == 1..MaxBinders

VARIABLES
    keep_let,               \* options->parsing_preserve_let
    let_key_map,            \* keys of the lets that are expanded
    preserving_let_key_map, \* keys of the lets that are kept, those with the
                            \* suffix in use (others cannot be looked up)
    let_nesting_depth, current_let_mode,
    quant_var_map,          \* a stack for each name
    in_quantifier_scope, quant_nesting_depth,
    fun_var_map,            \* parameters of the function being defined
    fun_key_map,            \* declared and defined functions
    var_names,              \* declared variables
    frames,                 \* the constructs being read, innermost last
    binders,                \* how many things have been bound
    error                   \* the exception that ended the parse

letVars   == <<let_key_map, preserving_let_key_map, let_nesting_depth,
               current_let_mode>>
quantVars == <<quant_var_map, in_quantifier_scope, quant_nesting_depth>>
declVars  == <<fun_var_map, fun_key_map, var_names>>
vars      == <<keep_let, letVars, quantVars, declVars, frames, binders, error>>

LetModes == {"LM_NON_LET", "LM_START_LET", "LM_IN_LET"}

NoKeys == [s \in Name |-> None]

(***************************************************************************)
(* The order in which parseConstFunc asks the maps.                        *)
(***************************************************************************)
LetMap == IF keep_let THEN preserving_let_key_map ELSE let_key_map

(* Quantifiers before lets.                                                *)
QuantBeforeLet == [s \in Name |->
    IF in_quantifier_scope /\ quant_var_map[s] # << >>
    THEN quant_var_map[s][Len(quant_var_map[s])]
    ELSE IF LetMap[s] # None THEN LetMap[s]
    ELSE IF fun_key_map[s] # None THEN fun_key_map[s]
    ELSE IF fun_var_map[s] # None THEN fun_var_map[s]
    ELSE var_names[s]]

Meaning == [s \in Name |->
    IF current_let_mode # "LM_NON_LET" /\ LetMap[s] # None THEN LetMap[s]
    ELSE IF fun_key_map[s] # None THEN fun_key_map[s]
    ELSE IF fun_var_map[s] # None THEN fun_var_map[s]
    ELSE IF in_quantifier_scope /\ quant_var_map[s] # << >>
         THEN quant_var_map[s][Len(quant_var_map[s])]
    ELSE var_names[s]]

-----------------------------------------------------------------------------
(***************************************************************************)
(* Frames. A key has the binder it stands for in the script (value) and    *)
(* the one its entry in a map stands for (var).                            *)
(***************************************************************************)
Stages == {"list",      \* in the list of bindings, variables or parameters
           "value",     \* in the value of a let binding
           "body",      \* before the body of a let
           "operands",  \* in the body
           "done"}      \* after a body that was itself a let

Constructs == {"assert", "define-fun", "define-fun-rec", "quantifier", "let"}

Opened(c, s) == [construct |-> c, stage |-> s, chained |-> FALSE,
                 name |-> {}, keys |-> << >>]

Top   == frames[Len(frames)]
Inner(c, s) == /\ error = "none"
               /\ frames # << >>
               /\ Top.construct \in c
               /\ Top.stage \in s

WithTop(f) == [frames EXCEPT ![Len(frames)] = f]
Popped     == SubSeq(frames, 1, Len(frames) - 1)
ToStage(s) == WithTop([Top EXCEPT !.stage = s])

(* A term that is not a let in the body's place: parseExpr reads it.       *)
Entered == IF Top.stage = "body" THEN ToStage("operands") ELSE frames

WithKey(f, s, value, var) ==
    [f EXCEPT !.keys = Append(@, [name |-> s, value |-> value, var |-> var])]

NamesIn(i) == {frames[i].keys[j].name : j \in DOMAIN frames[i].keys}

Without(map, names) == [s \in Name |-> IF s \in names THEN None ELSE map[s]]

Fresh == binders + 1
Bind  == binders < MaxBinders /\ binders' = Fresh

Toplevel == error = "none" /\ frames = << >>
CanOpen  == /\ Inner(Constructs, {"value", "body", "operands"})
            /\ Len(frames) < MaxDepth

Fail(e) == /\ error' = e
           /\ UNCHANGED <<keep_let, quantVars, declVars, frames, binders>>

-----------------------------------------------------------------------------
(***************************************************************************)
(* Commands.                                                               *)
(***************************************************************************)
Init == /\ keep_let \in BOOLEAN
        /\ let_key_map = NoKeys
        /\ preserving_let_key_map = NoKeys
        /\ let_nesting_depth = 0
        /\ current_let_mode \in LetModes \* the constructor does not set it
        /\ quant_var_map = [s \in Name |-> << >>]
        /\ in_quantifier_scope = FALSE
        /\ quant_nesting_depth = 0
        /\ fun_var_map = NoKeys
        /\ fun_key_map = NoKeys
        /\ var_names = NoKeys
        /\ frames = << >>
        /\ binders = 0
        /\ error = "none"

(* declare-const, and declare-fun without parameters: mkVar.               *)
DeclareVar(s) ==
    /\ Toplevel
    /\ var_names[s] = None \* a second declaration finds the first variable
    /\ Bind
    /\ var_names' = [var_names EXCEPT ![s] = Fresh]
    /\ UNCHANGED <<keep_let, letVars, quantVars, fun_var_map, fun_key_map,
                   frames, error>>

(* declare-fun with parameters: mkFuncDec puts the new function in place   *)
(* of an old one.                                                          *)
DeclareFun(s) ==
    /\ Toplevel
    /\ Bind
    /\ fun_key_map' = [fun_key_map EXCEPT ![s] = Fresh]
    /\ UNCHANGED <<keep_let, letVars, quantVars, fun_var_map, var_names,
                   frames, error>>

OpenAssert ==
    /\ Toplevel
    /\ frames' = <<Opened("assert", "operands")>>
    /\ UNCHANGED <<keep_let, letVars, quantVars, declVars, binders, error>>

CloseAssert ==
    /\ Inner({"assert"}, {"operands"})
    /\ frames' = Popped
    /\ UNCHANGED <<keep_let, letVars, quantVars, declVars, binders, error>>

(* A name that is a function already: a definition throws, a declaration   *)
(* returns with the command half read, and the parse loop throws.          *)
OpenDefine(c, s) ==
    /\ Toplevel
    /\ UNCHANGED letVars
    /\ \/ /\ fun_key_map[s] # None
          /\ Fail("defined before")
       \/ /\ fun_key_map[s] = None
          /\ frames' = <<[Opened(c, "list") EXCEPT !.name = {s}]>>
          /\ UNCHANGED <<keep_let, quantVars, declVars, binders, error>>

Parameter(s) ==
    /\ Inner({"define-fun", "define-fun-rec"}, {"list"})
    /\ UNCHANGED letVars
    /\ \/ /\ fun_var_map[s] # None
          /\ Fail("same parameter")
       \/ /\ fun_var_map[s] = None
          /\ Bind
          /\ fun_var_map' = [fun_var_map EXCEPT ![s] = Fresh]
          /\ frames' = WithTop(WithKey(Top, s, Fresh, Fresh))
          /\ UNCHANGED <<keep_let, quantVars, fun_key_map, var_names, error>>

(* A recursive function is declared before its body is read.               *)
EndParameters ==
    /\ Inner({"define-fun", "define-fun-rec"}, {"list"})
    /\ frames' = ToStage("operands")
    /\ \/ /\ Top.construct = "define-fun-rec"
          /\ Bind
          /\ fun_key_map' = [s \in Name |->
                                IF s \in Top.name THEN Fresh ELSE fun_key_map[s]]
       \/ /\ Top.construct = "define-fun"
          /\ UNCHANGED <<fun_key_map, binders>>
    /\ UNCHANGED <<keep_let, letVars, quantVars, fun_var_map, var_names, error>>

CloseDefine ==
    /\ Inner({"define-fun", "define-fun-rec"}, {"operands"})
    /\ frames' = Popped
    /\ fun_var_map' = Without(fun_var_map, NamesIn(Len(frames)))
    /\ \/ /\ Top.construct = "define-fun"
          /\ Bind
          /\ fun_key_map' = [s \in Name |->
                                IF s \in Top.name THEN Fresh ELSE fun_key_map[s]]
       \/ /\ Top.construct = "define-fun-rec"
          /\ UNCHANGED <<fun_key_map, binders>>
    /\ UNCHANGED <<keep_let, letVars, quantVars, var_names, error>>

-----------------------------------------------------------------------------
(***************************************************************************)
(* Quantifiers. Names go into the map one by one and are popped after the  *)
(* body.                                                                   *)
(***************************************************************************)
OpenQuantifier ==
    /\ CanOpen
    /\ in_quantifier_scope' = TRUE
    /\ quant_nesting_depth' = quant_nesting_depth + 1
    /\ frames' = Append(Entered, Opened("quantifier", "list"))
    /\ UNCHANGED <<keep_let, letVars, declVars, quant_var_map, binders, error>>

QuantVar(s) ==
    /\ Inner({"quantifier"}, {"list"})
    /\ Bind
    /\ quant_var_map' = [quant_var_map EXCEPT ![s] = Append(@, Fresh)]
    /\ frames' = WithTop(WithKey(Top, s, Fresh, Fresh))
    /\ UNCHANGED <<keep_let, letVars, declVars, in_quantifier_scope,
                   quant_nesting_depth, error>>

EndVariables ==
    /\ Inner({"quantifier"}, {"list"})
    /\ Top.keys # << >>
    /\ frames' = ToStage("operands")
    /\ UNCHANGED <<keep_let, letVars, quantVars, declVars, binders, error>>

(* The whole entry of the name is erased.                                  *)
QuantErased(s) ==
    IF s \in NamesIn(Len(frames)) THEN << >> ELSE quant_var_map[s]

QuantPopped(s) ==
    SubSeq(quant_var_map[s], 1,
           Len(quant_var_map[s])
              - Cardinality({j \in DOMAIN Top.keys : Top.keys[j].name = s}))

CloseQuantifier ==
    /\ Inner({"quantifier"}, {"operands"})
    /\ quant_var_map' = [s \in Name |-> QuantPopped(s)]
    /\ quant_nesting_depth' = quant_nesting_depth - 1
    /\ in_quantifier_scope' = (in_quantifier_scope /\ quant_nesting_depth' # 0)
    /\ frames' = Popped
    /\ UNCHANGED <<keep_let, letVars, declVars, binders, error>>

-----------------------------------------------------------------------------
(***************************************************************************)
(* Lets. One that is the whole body of another is read by the same call of *)
(* parseLet or parsePreservingLet: it is chained, and neither the depth    *)
(* nor the mode changes.                                                   *)
(***************************************************************************)
OpenLet ==
    /\ CanOpen
    /\ current_let_mode' =
          IF let_nesting_depth = 0 THEN "LM_START_LET"
          ELSE IF current_let_mode = "LM_START_LET" THEN "LM_IN_LET"
          ELSE current_let_mode
    /\ preserving_let_key_map' = \* the outermost let takes the next suffix
          IF let_nesting_depth = 0 THEN NoKeys ELSE preserving_let_key_map
    /\ let_nesting_depth' = let_nesting_depth + 1
    /\ frames' = Append(Entered, Opened("let", "list"))
    /\ UNCHANGED <<keep_let, let_key_map, quantVars, declVars, binders, error>>

ChainLet ==
    /\ CanOpen
    /\ Top.stage = "body"
    /\ frames' = Append(ToStage("done"),
                        [Opened("let", "list") EXCEPT !.chained = TRUE])
    /\ UNCHANGED <<keep_let, letVars, quantVars, declVars, binders, error>>

(* The names bound so far by the lets of one call.                         *)
ChainKeys == UNION {NamesIn(i) : i \in
    {k \in DOMAIN frames : \A j \in k+1..Len(frames) : frames[j].chained}}

BindingName(s) ==
    /\ Inner({"let"}, {"list"})
    /\ UNCHANGED <<let_nesting_depth, current_let_mode>>
    /\ \/ /\ LetMap[s] # None
          /\ let_key_map' = IF keep_let THEN let_key_map
                            ELSE Without(let_key_map, ChainKeys)
          /\ preserving_let_key_map' =
                IF keep_let THEN Without(preserving_let_key_map, ChainKeys)
                ELSE preserving_let_key_map
          /\ Fail("duplicate binding")
       \/ /\ LetMap[s] = None
          /\ frames' = WithTop([Top EXCEPT !.stage = "value", !.name = {s}])
          /\ UNCHANGED <<keep_let, let_key_map, preserving_let_key_map,
                         quantVars, declVars, binders, error>>

(* After the value: mkLetBindVar returns the variable the map has by now,  *)
(* insert leaves the entry it has.                                         *)
Replaced(map, s) == [map EXCEPT ![s] = Fresh]

Inserted(map, s) == [map EXCEPT ![s] = IF @ = None THEN Fresh ELSE @]

BindingValue ==
    /\ Inner({"let"}, {"value"})
    /\ Bind
    /\ \E s \in Top.name :
          /\ preserving_let_key_map' =
                IF keep_let THEN Inserted(preserving_let_key_map, s)
                ELSE preserving_let_key_map
          /\ let_key_map' = IF keep_let THEN let_key_map
                            ELSE Inserted(let_key_map, s)
          /\ frames' = WithTop([WithKey(Top, s, Fresh, Inserted(LetMap, s)[s])
                                   EXCEPT !.stage = "list", !.name = {}])
    /\ UNCHANGED <<keep_let, let_nesting_depth, current_let_mode, quantVars,
                   declVars, error>>

EndBindings ==
    /\ Inner({"let"}, {"list"})
    /\ Top.keys # << >>
    /\ frames' = ToStage("body")
    /\ UNCHANGED <<keep_let, letVars, quantVars, declVars, binders, error>>

(* Bugs a change of parseLet or of its caller could bring in: keys that    *)
(* stay, a depth that counts the lets of a chain, a mode that stays.       *)
KeysStay == let_key_map
DepthOfAll == let_nesting_depth - 1
ModeStays(depth) == current_let_mode

KeysAfter == IF keep_let THEN let_key_map
              ELSE Without(let_key_map, NamesIn(Len(frames)))
DepthAfter == let_nesting_depth - (IF Top.chained THEN 0 ELSE 1)
ModeAfter(depth) == IF depth = 0 THEN "LM_NON_LET" ELSE current_let_mode

CloseLet ==
    /\ Inner({"let"}, {"body", "operands", "done"})
    /\ let_key_map' = KeysAfter
    /\ let_nesting_depth' = DepthAfter
    /\ current_let_mode' = ModeAfter(DepthAfter)
    /\ frames' = Popped
    /\ UNCHANGED <<keep_let, preserving_let_key_map, quantVars, declVars,
                   binders, error>>

-----------------------------------------------------------------------------
Next == \/ \E s \in Name : \/ DeclareVar(s) \/ DeclareFun(s) \/ Parameter(s)
                           \/ QuantVar(s) \/ BindingName(s)
                           \/ OpenDefine("define-fun", s)
                           \/ OpenDefine("define-fun-rec", s)
        \/ OpenAssert \/ CloseAssert \/ EndParameters \/ CloseDefine
        \/ OpenQuantifier \/ EndVariables \/ CloseQuantifier
        \/ OpenLet \/ ChainLet \/ BindingValue \/ EndBindings \/ CloseLet

Spec == Init /\ [][Next]_vars
-----------------------------------------------------------------------------
(***************************************************************************)
(* What the script says a name means: the innermost construct that binds   *)
(* it and whose body is being read, else its declaration.                  *)
(***************************************************************************)
LetAt(i)   == frames[i].construct = "let"
QuantAt(i) == frames[i].construct = "quantifier"
OpenLets   == {i \in DOMAIN frames : LetAt(i)}
Greatest(S) == CHOOSE i \in S : \A j \in S : j <= i

Binds(i, s) == /\ s \in NamesIn(i)
               /\ LetAt(i) => frames[i].stage \notin {"list", "value"}

(* The let bindings before the one whose value is being read.              *)
Pending(i, s) == LetAt(i) /\ s \in NamesIn(i) /\ frames[i].stage = "value"

KeyOf(i, s) ==
    frames[i].keys[Greatest({j \in DOMAIN frames[i].keys :
                                frames[i].keys[j].name = s})]

BindersOf(s) == {i \in DOMAIN frames : Binds(i, s)}

Lexical(s) == IF BindersOf(s) # {} THEN KeyOf(Greatest(BindersOf(s)), s).value
              ELSE IF fun_key_map[s] # None THEN fun_key_map[s]
              ELSE var_names[s]

ReadsTerms == Inner(Constructs, {"value", "body", "operands"})

-----------------------------------------------------------------------------
Key == [name : Name, value : Binder, var : Binder]
Frame == [construct : Constructs, stage : Stages, chained : BOOLEAN,
          name : SUBSET Name, keys : Seq(Key)]
KeyMap == [Name -> Binder \cup {None}]

(* The types of the parser's maps, flags and counters.                     *)
ScopesTypeOK ==
    /\ keep_let \in BOOLEAN
    /\ let_key_map \in KeyMap /\ preserving_let_key_map \in KeyMap
    /\ fun_var_map \in KeyMap /\ fun_key_map \in KeyMap /\ var_names \in KeyMap
    /\ quant_var_map \in [Name -> Seq(Binder)]
    /\ let_nesting_depth \in Nat /\ quant_nesting_depth \in Nat
    /\ current_let_mode \in LetModes /\ in_quantifier_scope \in BOOLEAN
    /\ frames \in Seq(Frame)
    /\ binders \in 0..MaxBinders
    /\ error \in {"none", "defined before", "same parameter",
                  "duplicate binding"}

(* The maps hold what the open constructs bound and nothing else: expanded *)
(* lets and parameters are erased and quantifier variables popped at the   *)
(* close of their construct, whatever was opened and closed inside; the    *)
(* depths and flags come back to what they were.                           *)
LetMapMirrorsLets == ~keep_let /\ error = "none" =>
    \A s \in Name : let_key_map[s] # None <=>
                       \E i \in OpenLets : s \in NamesIn(i)

QuantKeys(s) == {k \in Binder : \E i \in DOMAIN frames :
    QuantAt(i) /\ \E j \in DOMAIN frames[i].keys :
        frames[i].keys[j].name = s /\ frames[i].keys[j].value = k}

MapsMirrorScopes == error = "none" =>
    /\ LetMapMirrorsLets
    /\ \A s \in Name :
          /\ fun_var_map[s] # None <=>
                \E i \in DOMAIN frames : /\ s \in NamesIn(i)
                                         /\ ~LetAt(i) /\ ~QuantAt(i)
          /\ {quant_var_map[s][k] : k \in DOMAIN quant_var_map[s]}
                = QuantKeys(s)
          /\ Len(quant_var_map[s]) = Cardinality(QuantKeys(s))
    /\ quant_nesting_depth = Cardinality({i \in DOMAIN frames : QuantAt(i)})
    /\ in_quantifier_scope <=> \E i \in DOMAIN frames : QuantAt(i)
    /\ let_nesting_depth =
          Cardinality({i \in OpenLets : ~frames[i].chained})

(* Where lets are expanded, a symbol is misread in exactly these cases: an *)
(* earlier binding of the same let is seen in the value of a later one;    *)
(* a function is preferred to a variable bound inside; a let key or a      *)
(* parameter is preferred to the variable of a quantifier inside. In every *)
(* other state, through any nesting, it means what the script says.        *)
Misread(s) ==
    \/ \E i \in DOMAIN frames : Pending(i, s)
    \/ /\ BindersOf(s) # {}
       /\ LET inner == Greatest(BindersOf(s))
          IN  \/ ~LetAt(inner) /\ fun_key_map[s] # None
              \/ QuantAt(inner) /\ \E i \in BindersOf(s) : ~QuantAt(i)

MisreadExactlyWhen ==
    ReadsTerms /\ ~keep_let =>
        \A s \in Name : Meaning[s] # Lexical(s) <=> Misread(s)

(* A let key is seen only inside of a let, although kept keys are never    *)
(* erased and the mode is not set by the constructor.                      *)
LetKeysOnlyInLets ==
    ReadsTerms /\ OpenLets = {} =>
        \A s \in Name : LetMap[s] # None => Meaning[s] # LetMap[s]

(* A key that was read under a name stands for its own value as long as    *)
(* its let is open.                                                        *)
BindVarsDiffer ==
    \A i \in OpenLets : \A j \in DOMAIN frames[i].keys :
        frames[i].keys[j].var = frames[i].keys[j].value

(* Expanded lets keep to that.                                             *)
ExpandedKeysDiffer == ~keep_let => BindVarsDiffer

(* Under a quantifier that binds a name, the name is its variable.         *)
QuantifierFirst ==
    ReadsTerms => \A s \in Name :
        BindersOf(s) # {} /\ QuantAt(Greatest(BindersOf(s)))
            => Meaning[s] = Lexical(s)

(* The let key in use for a name is never exchanged for another before it  *)
(* is erased, or the next outermost let begins.                            *)
LetKeysStay ==
    [][\A s \in Name : LetMap[s] # None => LetMap'[s] \in {None, LetMap[s]}]_vars
=============================================================================
