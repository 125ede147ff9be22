-------------------------- MODULE StabilizerProofs --------------------------
(***************************************************************************)
(* Proofs about the whole of a call, for scripts of any length over any    *)
(* commands: what the parser holds follows from the text it has read, what *)
(* the kernel visits is what the assertions depend on, and so the printed  *)
(* script can be read again exactly when the text says.                    *)
(***************************************************************************)
EXTENDS Stabilizer, SelectionProofs, FiniteSetTheorems

(***************************************************************************)
(* The parser's members have the types of the code.                        *)
(***************************************************************************)
Names == {c.name : c \in Commands}
FNames == [of : Names, dup : Nat]
Nodes == [at : {"var", "uf", "apply", "rec"}, name : FNames, id : Nat]
FunNodes == [name : FNames, kind : {"dec", "def", "rec"}, body : SUBSET Nodes]

ParserTyped(p) ==
    p \in [expand_functions : BOOLEAN,
           var_names : SUBSET Names,
           funs : Seq(FunNodes),
           fun_key_map : {p.fun_key_map},
           function_names : Seq(Names),
           fun_dup_count_map : [Names -> Nat],
           assertions : Seq(SUBSET Nodes)]

(***************************************************************************)
(* What the members say of the text t that was read: place[k] is the       *)
(* command that made function k.                                           *)
(***************************************************************************)
OfFunctions == {"declare-fun"} \union Defining
KindOf(command) ==
    CASE command = "declare-fun" -> "dec"
      [] command = "define-fun" -> "def"
      [] command = "define-fun-rec" -> "rec"

Ids(p) == 1..Len(p.funs)

FunctionMade(t, p, place, k) ==
    /\ t[place[k]].command \in OfFunctions
    /\ p.function_names[k] = t[place[k]].name
    /\ p.funs[k].kind = KindOf(t[place[k]].command)
    /\ p.funs[k].name.of = p.function_names[k]
    /\ p.funs[k].name.dup = 0
          <=> \A l \in 1..(k - 1) : p.function_names[l] # p.function_names[k]
    /\ t[place[k]].command \in Defining => p.funs[k].name.dup = 0

FunctionsMade(t, p, place) ==
    /\ Len(p.function_names) = Len(p.funs)
    /\ place \in [Ids(p) -> 1..Len(t)]
    /\ \A k \in Ids(p) : FunctionMade(t, p, place, k)
    /\ \A k, l \in Ids(p) : k < l => place[k] < place[l]
    /\ \A i \in 1..Len(t) : t[i].command \in OfFunctions => \E k \in Ids(p) : place[k] = i

\* A name leads to the last function made under it.
IsLast(p, k, f) ==
    /\ k \in Ids(p)
    /\ p.function_names[k] = f
    /\ \A l \in Ids(p) : p.function_names[l] = f => l <= k

KeysLeadToLast(p) ==
    \A f \in Names :
        /\ Plain(f) \in DOMAIN p.fun_key_map <=> \E k \in Ids(p) : p.function_names[k] = f
        /\ Plain(f) \in DOMAIN p.fun_key_map => IsLast(p, p.fun_key_map[Plain(f)], f)

VariablesDeclared(t, p) ==
    p.var_names = {t[i].name : i \in {j \in 1..Len(t) : t[j].command = "declare-const"}}

(***************************************************************************)
(* Terms: what the names in a command have become.                         *)
(***************************************************************************)
BeforeIn(t, i, u) ==
    {j \in 1..Len(t) : /\ t[j].command \in Introducing
                       /\ t[j].name = u
                       /\ j < i \/ (j = i /\ t[j].command = "define-fun-rec")}
ReferentIn(t, i, u) ==
    CHOOSE j \in BeforeIn(t, i, u) : \A k \in BeforeIn(t, i, u) : k <= j

MadeAt(place, r) == CHOOSE k \in DOMAIN place : place[k] = r

MeantBy(t, p, place, i, u) ==
    LET r == ReferentIn(t, i, u)
    IN IF t[r].command = "declare-const" THEN {Var(u)}
       ELSE IF r = i THEN {UFApply(Plain(u))}
       ELSE ApplyFun(p, MadeAt(place, r))

TermAt(t, p, place, i) == UNION {MeantBy(t, p, place, i, u) : u \in t[i].uses}

AssertsIn(t) == {i \in 1..Len(t) : t[i].command = "assert"}

TermsAt(t, p, place, S) == UNION {TermAt(t, p, place, i) : i \in S}

TermsRead(t, p, place) ==
    /\ \A k \in Ids(p) : p.funs[k].body = TermAt(t, p, place, place[k])
    /\ SimplifyAssertions(p) = TermsAt(t, p, place, AssertsIn(t))

CommandAccepted(t, i) ==
    /\ t[i].command \in Introducing \union Ignored \union {"assert", "exit"}
    /\ \A u \in t[i].uses : BeforeIn(t, i, u) # {}
    /\ t[i].command \in Defining =>
          \A j \in 1..(i - 1) : ~(t[j].command \in Introducing /\ t[j].name = t[i].name)

AcceptedIn(t) == \A i \in 1..Len(t) : CommandAccepted(t, i)

ReadFrom(t, p, place) ==
    /\ ParserTyped(p)
    /\ FunctionsMade(t, p, place)
    /\ KeysLeadToLast(p)
    /\ VariablesDeclared(t, p)
    /\ TermsRead(t, p, place)
    /\ AcceptedIn(t)

\* There is a place of each function that explains all that the parser holds.
ParserReadFrom(t, p) == \E place : ReadFrom(t, p, place)

(***************************************************************************)
(* Reading one more command changes nothing of what the earlier ones mean. *)
(***************************************************************************)
LEMMA Appended ==
    ASSUME NEW t \in Seq(Commands), NEW c \in Commands
    PROVE  /\ Len(t) \in Nat
           /\ Append(t, c) \in Seq(Commands)
           /\ Len(Append(t, c)) = Len(t) + 1
           /\ \A i \in 1..Len(t) : Append(t, c)[i] = t[i] /\ t[i] \in Commands
           /\ Append(t, c)[Len(t) + 1] = c
           /\ \A i \in 1..(Len(t) + 1) : i \in 1..Len(t) \/ i = Len(t) + 1
           /\ \A i \in 1..Len(t) : i \in 1..(Len(t) + 1) /\ i # Len(t) + 1
  OBVIOUS

\* A name in an earlier command may refer to the same commands as before.
LEMMA BeforeKept ==
    ASSUME NEW t \in Seq(Commands), NEW c \in Commands, NEW i \in 1..Len(t), NEW u
    PROVE  BeforeIn(Append(t, c), i, u) = BeforeIn(t, i, u)
<1> DEFINE s == Append(t, c)
<1>1. /\ Len(t) \in Nat /\ Len(s) = Len(t) + 1
      /\ \A j \in 1..Len(t) : s[j] = t[j]
      /\ \A j \in 1..Len(s) : j \in 1..Len(t) \/ j = Len(t) + 1
      /\ \A j \in 1..Len(t) : j \in 1..Len(s)
  BY Appended
<1>2. \A j \in 1..Len(s) : j < i \/ j = i => j \in 1..Len(t)
  BY <1>1
<1> HIDE DEF s
<1>3. ASSUME NEW j \in BeforeIn(s, i, u)  PROVE j \in BeforeIn(t, i, u)
  BY <1>1, <1>2, <1>3 DEF BeforeIn
<1>4. ASSUME NEW j \in BeforeIn(t, i, u)  PROVE j \in BeforeIn(s, i, u)
  BY <1>1, <1>4 DEF BeforeIn
<1>5. BeforeIn(s, i, u) = BeforeIn(t, i, u)
  BY <1>3, <1>4
<1> QED  BY <1>5 DEF s

\* A name that was introduced refers to the last command that introduces it.
LEMMA ReferentRight ==
    ASSUME NEW t \in Seq(Commands), NEW i, NEW u, BeforeIn(t, i, u) # {}
    PROVE  /\ ReferentIn(t, i, u) \in BeforeIn(t, i, u)
           /\ \A k \in BeforeIn(t, i, u) : k <= ReferentIn(t, i, u)
<1>1. Len(t) \in Nat
  OBVIOUS
<1>2. BeforeIn(t, i, u) \in SUBSET Nat /\ \A k \in BeforeIn(t, i, u) : k <= Len(t)
  BY <1>1 DEF BeforeIn
<1>3. \E j \in BeforeIn(t, i, u) : \A k \in BeforeIn(t, i, u) : k <= j
  BY <1>1, <1>2, SetHasLast
<1> QED  BY <1>3, Zenon DEF ReferentIn

\* The last command a name may refer to is the one it refers to.
LEMMA ReferentIs ==
    ASSUME NEW t \in Seq(Commands), NEW i, NEW u, NEW r \in BeforeIn(t, i, u),
           \A k \in BeforeIn(t, i, u) : k <= r
    PROVE  ReferentIn(t, i, u) = r
<1>1. /\ ReferentIn(t, i, u) \in BeforeIn(t, i, u)
      /\ \A k \in BeforeIn(t, i, u) : k <= ReferentIn(t, i, u)
  BY ReferentRight
<1>2. ReferentIn(t, i, u) <= r /\ r <= ReferentIn(t, i, u)
  BY <1>1
<1>3. r \in Nat /\ ReferentIn(t, i, u) \in Nat
  BY <1>1 DEF BeforeIn
<1> QED  BY <1>2, <1>3

\* The function a command made is found by its place.
LEMMA MakerIs ==
    ASSUME NEW t, NEW p, NEW place, FunctionsMade(t, p, place), Len(p.funs) \in Nat,
           Len(t) \in Nat, NEW k \in Ids(p)
    PROVE  MadeAt(place, place[k]) = k
<1>1. DOMAIN place = Ids(p) /\ \A l \in Ids(p) : place[l] \in Nat
  BY DEF FunctionsMade
<1>2. \A l \in Ids(p) : place[l] = place[k] => l = k
  <2> TAKE l \in Ids(p)
  <2>1. k \in Nat /\ l \in Nat
    BY DEF Ids
  <2>2. CASE l < k
    BY <1>1, <2>2 DEF FunctionsMade
  <2>3. CASE k < l
    BY <1>1, <2>3 DEF FunctionsMade
  <2> QED  BY <2>1, <2>2, <2>3
<1> QED  BY <1>1, <1>2 DEF MadeAt

(***************************************************************************)
(* What one more command leaves of the parser: the functions there are,    *)
(* their places, and the option.                                           *)
(***************************************************************************)
Extended(t, p, place, c, q, wider) ==
    /\ Len(p.funs) \in Nat
    /\ Len(q.funs) \in Nat
    /\ q.expand_functions = p.expand_functions
    /\ Ids(p) \subseteq Ids(q)
    /\ \A k \in Ids(p) : q.funs[k] = p.funs[k] /\ wider[k] = place[k]
    /\ FunctionsMade(Append(t, c), q, wider)

\* An application of a function that was there means what it meant.
LEMMA ApplicationKept ==
    ASSUME NEW t, NEW p, NEW place, NEW c, NEW q, NEW wider,
           Extended(t, p, place, c, q, wider), NEW k \in Ids(p)
    PROVE  ApplyFun(q, k) = ApplyFun(p, k)
  BY Zenon DEF Extended, ApplyFun

\* A name in an earlier command means what it meant.
LEMMA MeaningKept ==
    ASSUME NEW t \in Seq(Commands), NEW p, NEW place, NEW c \in Commands, NEW q, NEW wider,
           FunctionsMade(t, p, place), Extended(t, p, place, c, q, wider),
           NEW i \in 1..Len(t), NEW u, BeforeIn(t, i, u) # {}
    PROVE  MeantBy(Append(t, c), q, wider, i, u) = MeantBy(t, p, place, i, u)
<1> DEFINE s == Append(t, c)
           r == ReferentIn(t, i, u)
<1>1. Len(t) \in Nat /\ Len(s) \in Nat /\ \A j \in 1..Len(t) : s[j] = t[j]
  BY Appended
<1>2. ReferentIn(s, i, u) = r
  BY BeforeKept, Zenon DEF ReferentIn
<1>3. r \in 1..Len(t) /\ t[r].command \in Introducing /\ s[r] = t[r]
  <2>1. r \in BeforeIn(t, i, u)
    BY ReferentRight
  <2>2. r \in 1..Len(t) /\ t[r].command \in Introducing
    <3> HIDE DEF r
    <3> QED  BY <2>1 DEF BeforeIn
  <2> HIDE DEF r
  <2> QED  BY <1>1, <2>2
<1>4. CASE t[r].command = "declare-const" \/ r = i
  <2> HIDE DEF s, r
  <2>1. MeantBy(s, q, wider, i, u) = IF t[r].command = "declare-const" THEN {Var(u)}
                                    ELSE {UFApply(Plain(u))}
    BY <1>2, <1>3, <1>4 DEF MeantBy
  <2>2. MeantBy(t, p, place, i, u) = IF t[r].command = "declare-const" THEN {Var(u)}
                                    ELSE {UFApply(Plain(u))}
    BY <1>4 DEF MeantBy, r
  <2> QED  BY <2>1, <2>2 DEF s
<1>5. CASE t[r].command # "declare-const" /\ r # i
  <2>1. t[r].command \in OfFunctions
    <3> HIDE DEF r
    <3> QED  BY <1>3, <1>5 DEF Introducing, OfFunctions
  <2>2. PICK k \in Ids(p) : place[k] = r
    <3> HIDE DEF r
    <3> QED  BY <1>3, <2>1 DEF FunctionsMade
  <2>3. MadeAt(place, r) = k
    <3>1. MadeAt(place, place[k]) = k
      BY <1>1, MakerIs DEF Extended
    <3> QED  BY <2>2, <3>1
  <2>4. MadeAt(wider, r) = k
    <3>1. k \in Ids(q) /\ wider[k] = r /\ FunctionsMade(s, q, wider) /\ Len(q.funs) \in Nat
      <4> HIDE DEF r
      <4> QED  BY <2>2 DEF Extended
    <3>2. MadeAt(wider, wider[k]) = k
      <4> HIDE DEF s
      <4> QED  BY <1>1, <3>1, MakerIs
    <3> QED  BY <3>1, <3>2
  <2>5. ApplyFun(q, k) = ApplyFun(p, k)
    BY ApplicationKept
  <2>6. MeantBy(t, p, place, i, u) = ApplyFun(p, k)
    BY <1>5, <2>3 DEF MeantBy
  <2>7. MeantBy(s, q, wider, i, u) = ApplyFun(q, k)
    <3> HIDE DEF s, r
    <3> QED  BY <1>2, <1>3, <1>5, <2>4 DEF MeantBy
  <2> QED  BY <2>5, <2>6, <2>7
<1> QED  BY <1>4, <1>5

\* The term of an earlier command is what it was.
LEMMA TermKept ==
    ASSUME NEW t \in Seq(Commands), NEW p, NEW place, NEW c \in Commands, NEW q, NEW wider,
           FunctionsMade(t, p, place), Extended(t, p, place, c, q, wider),
           NEW i \in 1..Len(t), CommandAccepted(t, i)
    PROVE  TermAt(Append(t, c), q, wider, i) = TermAt(t, p, place, i)
<1>1. Append(t, c)[i] = t[i]
  BY Appended
<1>2. \A u \in t[i].uses :
         MeantBy(Append(t, c), q, wider, i, u) = MeantBy(t, p, place, i, u)
  BY MeaningKept DEF CommandAccepted
<1> QED  BY <1>1, <1>2, Zenon DEF TermAt

(***************************************************************************)
(* What a name in the next command means: as the parser's maps say.        *)
(***************************************************************************)
\* The commands that introduce the name u.
IntroducingIn(t, u) == {j \in 1..Len(t) : t[j].command \in Introducing /\ t[j].name = u}

\* What a name in the next command may refer to: all that introduces it so far.
LEMMA BeforeNext ==
    ASSUME NEW t \in Seq(Commands), NEW c \in Commands, NEW u,
           ~(c.command = "define-fun-rec" /\ u = c.name)
    PROVE  BeforeIn(Append(t, c), Len(t) + 1, u) = IntroducingIn(t, u)
<1> DEFINE s == Append(t, c)
           n == Len(t) + 1
<1>1. /\ Len(t) \in Nat /\ Len(s) = n
      /\ \A j \in 1..Len(t) : s[j] = t[j]
      /\ \A j \in 1..n : j \in 1..Len(t) \/ j = n
      /\ \A j \in 1..Len(t) : j \in 1..n /\ j # n
      /\ s[n] = c
  BY Appended
<1>2. \A j \in 1..Len(t) : j < n
  BY <1>1
<1> HIDE DEF s, n
<1>3. ASSUME NEW j \in BeforeIn(s, n, u)  PROVE j \in IntroducingIn(t, u)
  <2>1. j \in 1..Len(s) /\ s[j].name = u /\ s[j].command \in Introducing
        /\ (j < n \/ (j = n /\ s[j].command = "define-fun-rec"))
    BY <1>3 DEF BeforeIn
  <2>2. j # n
    BY <1>1, <2>1
  <2> QED  BY <1>1, <2>1, <2>2 DEF IntroducingIn
<1>4. ASSUME NEW j \in IntroducingIn(t, u)  PROVE j \in BeforeIn(s, n, u)
  BY <1>1, <1>2, <1>4 DEF IntroducingIn, BeforeIn
<1>5. BeforeIn(s, n, u) = IntroducingIn(t, u)
  BY <1>3, <1>4
<1> QED  BY <1>5 DEF s, n

\* A name is a constant's or a function's.
LEMMA NamesApart ==
    ASSUME NEW t \in Seq(Commands), NEW j \in 1..Len(t), NEW k \in 1..Len(t),
           t[j].name = t[k].name, t[j].command \in Introducing, t[k].command \in OfFunctions
    PROVE  t[j].command \in OfFunctions
<1>1. t[j] \in Commands /\ t[k] \in Commands
  OBVIOUS
<1>2. t[j].command # "declare-const"
  BY <1>1, ScriptAssumption DEF OfFunctions, Defining
<1> QED  BY <1>2 DEF Introducing, OfFunctions

\* A name the function map has leads to the function the last command introducing it
\* made.
LEMMA FunctionsIntroduced ==
    ASSUME NEW t \in Seq(Commands), NEW p, NEW place,
           FunctionsMade(t, p, place), KeysLeadToLast(p), Len(p.funs) \in Nat,
           NEW u \in Names, Plain(u) \in DOMAIN p.fun_key_map
    PROVE  LET k == p.fun_key_map[Plain(u)]
           IN /\ k \in Ids(p)
              /\ place[k] \in IntroducingIn(t, u)
              /\ t[place[k]].command \in OfFunctions
              /\ \A j \in IntroducingIn(t, u) : j <= place[k]
<1> DEFINE k == p.fun_key_map[Plain(u)]
<1>1. IsLast(p, k, u)
  BY DEF KeysLeadToLast
<1> HIDE DEF k
<1>2. k \in Ids(p) /\ p.function_names[k] = u /\ \A l \in Ids(p) : p.function_names[l] = u => l <= k
  BY <1>1 DEF IsLast
<1>3. /\ place[k] \in 1..Len(t) /\ t[place[k]].command \in OfFunctions /\ t[place[k]].name = u
      /\ place[k] \in IntroducingIn(t, u)
  BY <1>2 DEF FunctionsMade, FunctionMade, IntroducingIn, OfFunctions, Introducing
<1>4. ASSUME NEW j \in IntroducingIn(t, u)  PROVE j <= place[k]
  <2>1. j \in 1..Len(t) /\ t[j].name = u /\ t[j].command \in Introducing
    BY <1>4 DEF IntroducingIn
  <2>2. t[j].command \in OfFunctions
    BY <1>3, <2>1, NamesApart
  <2>3. PICK l \in Ids(p) : place[l] = j
    BY <2>1, <2>2 DEF FunctionsMade
  <2>4. p.function_names[l] = u
    BY <2>1, <2>3 DEF FunctionsMade, FunctionMade
  <2>5. l <= k /\ l \in Nat /\ k \in Nat
    BY <1>2, <2>4 DEF Ids
  <2>6. l = k \/ place[l] < place[k]
    BY <1>2, <2>5 DEF FunctionsMade
  <2>7. place[k] \in Nat /\ j \in Nat
    BY <1>3, <2>1
  <2> QED  BY <2>3, <2>6, <2>7
<1> QED  BY <1>2, <1>3, <1>4 DEF k

\* A name the function map does not have is introduced by constants only.
LEMMA ConstantsIntroduced ==
    ASSUME NEW t \in Seq(Commands), NEW p, NEW place,
           FunctionsMade(t, p, place), KeysLeadToLast(p),
           NEW u \in Names, Plain(u) \notin DOMAIN p.fun_key_map, NEW j \in IntroducingIn(t, u)
    PROVE  t[j].command = "declare-const"
<1>1. j \in 1..Len(t) /\ t[j].name = u /\ t[j].command \in Introducing
  BY DEF IntroducingIn
<1>2. t[j].command \notin OfFunctions
  <2> SUFFICES ASSUME t[j].command \in OfFunctions  PROVE FALSE
    OBVIOUS
  <2>1. PICK k \in Ids(p) : place[k] = j
    BY <1>1 DEF FunctionsMade
  <2>2. p.function_names[k] = u
    BY <1>1, <2>1 DEF FunctionsMade, FunctionMade
  <2> QED  BY <2>2 DEF KeysLeadToLast
<1> QED  BY <1>1, <1>2 DEF Introducing, OfFunctions

\* The maps know a name exactly if the text has introduced it.
LEMMA KnownIsIntroduced ==
    ASSUME NEW t \in Seq(Commands), NEW p, NEW place, Len(p.funs) \in Nat,
           FunctionsMade(t, p, place), KeysLeadToLast(p), VariablesDeclared(t, p),
           NEW u \in Names
    PROVE  u \in p.var_names \/ Plain(u) \in DOMAIN p.fun_key_map <=> IntroducingIn(t, u) # {}
<1>1. ASSUME u \in p.var_names  PROVE IntroducingIn(t, u) # {}
  BY <1>1 DEF VariablesDeclared, IntroducingIn, Introducing
<1>2. ASSUME Plain(u) \in DOMAIN p.fun_key_map  PROVE IntroducingIn(t, u) # {}
  BY <1>2, FunctionsIntroduced
<1>3. ASSUME NEW j \in IntroducingIn(t, u), Plain(u) \notin DOMAIN p.fun_key_map
      PROVE  u \in p.var_names
  <2>1. t[j].command = "declare-const"
    BY <1>3, ConstantsIntroduced
  <2> QED  BY <1>3, <2>1 DEF VariablesDeclared, IntroducingIn
<1> QED  BY <1>1, <1>2, <1>3

KnownAs(p, u) ==
    IF Plain(u) \in DOMAIN p.fun_key_map THEN ApplyFun(p, p.fun_key_map[Plain(u)]) ELSE {Var(u)}

\* A name in the next command means what the maps of the parser say.
LEMMA MeaningOfNext ==
    ASSUME NEW t \in Seq(Commands), NEW p, NEW place, NEW c \in Commands, NEW q, NEW wider,
           FunctionsMade(t, p, place), KeysLeadToLast(p), VariablesDeclared(t, p),
           Extended(t, p, place, c, q, wider),
           NEW u \in Names, ~(c.command = "define-fun-rec" /\ u = c.name),
           IntroducingIn(t, u) # {}
    PROVE  MeantBy(Append(t, c), q, wider, Len(t) + 1, u) = KnownAs(p, u)
<1> DEFINE s == Append(t, c)
           n == Len(t) + 1
<1>1. /\ Len(t) \in Nat /\ s \in Seq(Commands) /\ Len(s) \in Nat
      /\ \A j \in 1..Len(t) : s[j] = t[j] /\ j # n
  BY Appended
<1>2. BeforeIn(s, n, u) = IntroducingIn(t, u)
  BY BeforeNext
<1> HIDE DEF s, n
<1>3. CASE Plain(u) \in DOMAIN p.fun_key_map
  <2> DEFINE k == p.fun_key_map[Plain(u)]
             r == place[k]
  <2>1. /\ k \in Ids(p) /\ r \in IntroducingIn(t, u) /\ t[r].command \in OfFunctions
        /\ \A j \in IntroducingIn(t, u) : j <= r
    BY <1>3, FunctionsIntroduced DEF Extended
  <2> HIDE DEF k
  <2>2. ReferentIn(s, n, u) = r
    BY <1>1, <1>2, <2>1, ReferentIs
  <2>3. k \in Ids(q) /\ wider[k] = r /\ FunctionsMade(s, q, wider) /\ Len(q.funs) \in Nat
    BY <2>1 DEF Extended, s
  <2>4. MadeAt(wider, wider[k]) = k
    BY <1>1, <2>3, MakerIs
  <2>5. r \in 1..Len(t)
    BY <2>1 DEF IntroducingIn
  <2>6. s[r].command # "declare-const" /\ r # n
    BY <1>1, <2>1, <2>5 DEF OfFunctions, Defining
  <2>7. MeantBy(s, q, wider, n, u) = ApplyFun(q, k)
    <3> HIDE DEF r
    <3> QED  BY <2>2, <2>3, <2>4, <2>6 DEF MeantBy
  <2>8. ApplyFun(q, k) = ApplyFun(p, k)
    BY <2>1, ApplicationKept
  <2> QED  BY <1>3, <2>7, <2>8 DEF s, n, k, KnownAs
<1>4. CASE Plain(u) \notin DOMAIN p.fun_key_map
  <2> DEFINE r == ReferentIn(s, n, u)
  <2>1. r \in IntroducingIn(t, u)
    BY <1>1, <1>2, ReferentRight
  <2> HIDE DEF r
  <2>2. t[r].command = "declare-const"
    BY <1>4, <2>1, ConstantsIntroduced
  <2>3. s[r] = t[r]
    BY <1>1, <2>1 DEF IntroducingIn
  <2>4. MeantBy(s, q, wider, n, u) = {Var(u)}
    BY <2>2, <2>3 DEF MeantBy, r
  <2> QED  BY <1>4, <2>4 DEF s, n, KnownAs
<1> QED  BY <1>3, <1>4

(***************************************************************************)
(* One more command read.                                                  *)
(***************************************************************************)
LEMMA AcceptedKept ==
    ASSUME NEW t \in Seq(Commands), NEW c \in Commands, NEW i \in 1..Len(t), CommandAccepted(t, i)
    PROVE  CommandAccepted(Append(t, c), i)
<1> DEFINE s == Append(t, c)
<1>1. Len(t) \in Nat /\ \A j \in 1..Len(t) : s[j] = t[j]
  BY Appended
<1>2. \A j \in 1..(i - 1) : j \in 1..Len(t)
  BY <1>1
<1>3. \A u \in t[i].uses : BeforeIn(s, i, u) # {}
  BY BeforeKept DEF CommandAccepted
<1> HIDE DEF s
<1>4. CommandAccepted(s, i)
  BY <1>1, <1>2, <1>3 DEF CommandAccepted
<1> QED  BY <1>4 DEF s

\* A node is in the terms of some commands if it is in the term of one of them.
LEMMA InTermsAt ==
    ASSUME NEW t, NEW p, NEW place, NEW S, NEW x
    PROVE  x \in TermsAt(t, p, place, S) <=> \E i \in S : x \in TermAt(t, p, place, i)
  BY Zenon DEF TermsAt

\* The terms of some commands and one more.
LEMMA TermsAtMore ==
    ASSUME NEW t, NEW p, NEW place, NEW S, NEW n
    PROVE  TermsAt(t, p, place, S \union {n}) = TermsAt(t, p, place, S) \union TermAt(t, p, place, n)
<1>1. \A T, x : x \in TermsAt(t, p, place, T) <=> \E i \in T : x \in TermAt(t, p, place, i)
  BY InTermsAt
<1>2. \A x : x \in TermsAt(t, p, place, S \union {n})
              <=> x \in TermsAt(t, p, place, S) \/ x \in TermAt(t, p, place, n)
  BY <1>1
<1> QED  BY <1>2

\* A parser that explains the text explains it with one more command, if what was added
\* does.
LEMMA OneMoreRead ==
    ASSUME NEW t \in Seq(Commands), NEW p, NEW place, NEW c \in Commands, NEW q, NEW wider,
           ReadFrom(t, p, place), Extended(t, p, place, c, q, wider),
           ParserTyped(q), KeysLeadToLast(q), VariablesDeclared(Append(t, c), q),
           CommandAccepted(Append(t, c), Len(t) + 1),
           \A k \in Ids(q) \ Ids(p) : q.funs[k].body = TermAt(Append(t, c), q, wider, wider[k]),
           SimplifyAssertions(q) =
              SimplifyAssertions(p)
              \union IF c.command = "assert" THEN TermAt(Append(t, c), q, wider, Len(t) + 1) ELSE {}
    PROVE  ReadFrom(Append(t, c), q, wider)
<1> DEFINE s == Append(t, c)
           n == Len(t) + 1
<1>1. /\ Len(t) \in Nat /\ Len(s) = n /\ s[n] = c
      /\ \A j \in 1..Len(t) : s[j] = t[j] /\ j \in 1..n /\ j # n
      /\ \A j \in 1..n : j \in 1..Len(t) \/ j = n
  BY Appended
<1>2. \A i \in 1..Len(t) : CommandAccepted(t, i)
  BY DEF ReadFrom, AcceptedIn
<1>3. \A i \in 1..Len(t) : TermAt(s, q, wider, i) = TermAt(t, p, place, i)
  BY <1>2, TermKept DEF ReadFrom
<1>4. AcceptedIn(s)
  <2>1. \A i \in 1..Len(t) : CommandAccepted(s, i)
    BY <1>2, AcceptedKept
  <2> QED  BY <1>1, <2>1 DEF AcceptedIn
<1>5. \A k \in Ids(q) : q.funs[k].body = TermAt(s, q, wider, wider[k])
  <2> TAKE k \in Ids(q)
  <2>1. CASE k \in Ids(p)
    <3>1. q.funs[k] = p.funs[k] /\ wider[k] = place[k] /\ place[k] \in 1..Len(t)
      BY <2>1 DEF Extended, ReadFrom, FunctionsMade
    <3>2. p.funs[k].body = TermAt(t, p, place, place[k])
      BY <2>1 DEF ReadFrom, TermsRead
    <3> QED  BY <1>3, <3>1, <3>2
  <2> QED  BY <2>1
<1>6. SimplifyAssertions(q) = TermsAt(s, q, wider, AssertsIn(s))
  <2>1. SimplifyAssertions(p) = TermsAt(t, p, place, AssertsIn(t))
    BY DEF ReadFrom, TermsRead
  <2>2. AssertsIn(t) \subseteq 1..Len(t)
    BY DEF AssertsIn
  <2>3. AssertsIn(s) = AssertsIn(t) \union IF c.command = "assert" THEN {n} ELSE {}
    <3> HIDE DEF s, n
    <3>1. \A i \in 1..n : i \in AssertsIn(s) <=>
             i \in AssertsIn(t) \/ (c.command = "assert" /\ i = n)
      BY <1>1 DEF AssertsIn
    <3>2. AssertsIn(s) \subseteq 1..n /\ AssertsIn(t) \subseteq 1..n /\ n \in 1..n
      BY <1>1 DEF AssertsIn, n
    <3> QED  BY <3>1, <3>2
  <2>4. TermsAt(s, q, wider, AssertsIn(t)) = TermsAt(t, p, place, AssertsIn(t))
    <3> HIDE DEF s
    <3>1. \A x : x \in TermsAt(s, q, wider, AssertsIn(t))
                    <=> \E i \in AssertsIn(t) : x \in TermAt(s, q, wider, i)
      BY InTermsAt
    <3>2. \A x : x \in TermsAt(t, p, place, AssertsIn(t))
                    <=> \E i \in AssertsIn(t) : x \in TermAt(t, p, place, i)
      BY InTermsAt
    <3>3. \A i \in AssertsIn(t) : TermAt(s, q, wider, i) = TermAt(t, p, place, i)
      BY <1>3, <2>2 DEF s
    <3> QED  BY <3>1, <3>2, <3>3
  <2>5. CASE c.command = "assert"
    <3>1. AssertsIn(s) = AssertsIn(t) \union {n}
      BY <2>3, <2>5
    <3>2. TermsAt(s, q, wider, AssertsIn(s))
            = TermsAt(s, q, wider, AssertsIn(t)) \union TermAt(s, q, wider, n)
      <4> HIDE DEF s, n
      <4>1. TermsAt(s, q, wider, AssertsIn(t) \union {n})
              = TermsAt(s, q, wider, AssertsIn(t)) \union TermAt(s, q, wider, n)
        BY TermsAtMore
      <4> QED  BY <3>1, <4>1
    <3>3. SimplifyAssertions(q) = SimplifyAssertions(p) \union TermAt(s, q, wider, n)
      BY <2>5
    <3> QED  BY <2>1, <2>4, <3>2, <3>3
  <2>6. CASE c.command # "assert"
    <3>1. AssertsIn(s) = AssertsIn(t)
      BY <2>3, <2>6
    <3>2. SimplifyAssertions(q) = SimplifyAssertions(p)
      BY <2>6
    <3> QED  BY <2>1, <2>4, <3>1, <3>2
  <2> QED  BY <2>5, <2>6
<1> QED  BY <1>4, <1>5, <1>6 DEF ReadFrom, TermsRead, Extended

\* A command that makes no function leaves them where they are.
LEMMA NothingMade ==
    ASSUME NEW t \in Seq(Commands), NEW p, NEW place, NEW c \in Commands, NEW q,
           FunctionsMade(t, p, place), Len(p.funs) \in Nat, c.command \notin OfFunctions,
           q.funs = p.funs, q.function_names = p.function_names,
           q.expand_functions = p.expand_functions
    PROVE  Extended(t, p, place, c, q, place)
<1> DEFINE s == Append(t, c)
           n == Len(t) + 1
<1>1. /\ Len(t) \in Nat /\ Len(s) = n /\ s[n] = c
      /\ \A j \in 1..Len(t) : s[j] = t[j] /\ j \in 1..n /\ j # n
      /\ \A j \in 1..n : j \in 1..Len(t) \/ j = n
  BY Appended
<1> HIDE DEF s, n
<1>2. Ids(q) = Ids(p)
  BY DEF Ids
<1>3. place \in [Ids(q) -> 1..Len(s)]
  BY <1>1, <1>2 DEF FunctionsMade
<1>4. \A k \in Ids(q) : FunctionMade(s, q, place, k)
  <2> TAKE k \in Ids(q)
  <2>1. FunctionMade(t, p, place, k) /\ place[k] \in 1..Len(t)
    BY <1>2 DEF FunctionsMade
  <2>2. s[place[k]] = t[place[k]]
    BY <1>1, <2>1
  <2> QED  BY <2>1, <2>2 DEF FunctionMade
<1>5. \A i \in 1..Len(s) : s[i].command \in OfFunctions => \E k \in Ids(q) : place[k] = i
  BY <1>1, <1>2 DEF FunctionsMade
<1>6. FunctionsMade(s, q, place)
  BY <1>2, <1>3, <1>4, <1>5 DEF FunctionsMade
<1> QED  BY <1>2, <1>6 DEF Extended, s

\* Of what is known the term that is read is what the names mean.
LEMMA TermOfNext ==
    ASSUME NEW t \in Seq(Commands), NEW p, NEW place, NEW c \in Commands, NEW q, NEW wider,
           FunctionsMade(t, p, place), KeysLeadToLast(p), VariablesDeclared(t, p),
           Extended(t, p, place, c, q, wider), c.command # "define-fun-rec",
           \A u \in c.uses : u \in p.var_names \/ Plain(u) \in DOMAIN p.fun_key_map
    PROVE  TermAt(Append(t, c), q, wider, Len(t) + 1) = Term(p, c.uses)
<1> DEFINE Meant(u) == MeantBy(Append(t, c), q, wider, Len(t) + 1, u)
           functions == {u \in c.uses : Plain(u) \in DOMAIN p.fun_key_map}
<1>1. Append(t, c)[Len(t) + 1] = c /\ c.uses \subseteq Names
  BY Appended, ScriptAssumption DEF Names
<1>2. ASSUME NEW u \in c.uses
      PROVE  Meant(u) = IF u \in functions THEN ApplyFun(p, p.fun_key_map[Plain(u)]) ELSE {Var(u)}
  <2>1. u \in Names /\ IntroducingIn(t, u) # {}
    BY <1>1, <1>2, KnownIsIntroduced DEF Extended
  <2>0. ~(c.command = "define-fun-rec" /\ u = c.name)
    OBVIOUS
  <2>2. Meant(u) = KnownAs(p, u)
    BY <2>0, <2>1, MeaningOfNext
  <2>3. u \in functions <=> Plain(u) \in DOMAIN p.fun_key_map
    BY <1>2
  <2> HIDE DEF Meant, functions
  <2> QED  BY <2>2, <2>3 DEF KnownAs
<1>3. TermAt(Append(t, c), q, wider, Len(t) + 1) = UNION {Meant(u) : u \in c.uses}
  BY <1>1 DEF TermAt
<1>4. UNION {Meant(u) : u \in c.uses}
        = {Var(u) : u \in c.uses \ functions}
          \union UNION {ApplyFun(p, p.fun_key_map[Plain(u)]) : u \in functions}
  <2> HIDE DEF Meant
  <2>1. functions \subseteq c.uses
    OBVIOUS
  <2> HIDE DEF functions
  <2> QED  BY <1>2, <2>1
<1> QED  BY <1>3, <1>4 DEF Term

(***************************************************************************)
(* A function more: its place is that of the command being read.           *)
(***************************************************************************)
WithPlace(t, p, place) ==
    [k \in 1..(Len(p.funs) + 1) |-> IF k = Len(p.funs) + 1 THEN Len(t) + 1 ELSE place[k]]

\* The name f leads to the function about to be made, all others to where they led.
KeyAdded(p, f, q) ==
    /\ Plain(f) \in DOMAIN q.fun_key_map
    /\ q.fun_key_map[Plain(f)] = Len(p.funs) + 1
    /\ \A g \in Names : g # f =>
          /\ Plain(g) \in DOMAIN q.fun_key_map <=> Plain(g) \in DOMAIN p.fun_key_map
          /\ Plain(g) \in DOMAIN p.fun_key_map =>
                q.fun_key_map[Plain(g)] = p.fun_key_map[Plain(g)]

\* A function added under its name becomes the last one of that name, and no other name
\* changes.
LEMMA KeysStillLeadToLast ==
    ASSUME NEW p, NEW q, NEW f \in Names, KeysLeadToLast(p), KeyAdded(p, f, q),
           p.funs \in Seq(FunNodes), p.function_names \in Seq(Names),
           Len(p.function_names) = Len(p.funs),
           Len(q.funs) = Len(p.funs) + 1,
           q.function_names = Append(p.function_names, f)
    PROVE  KeysLeadToLast(q)
<1>1. Len(p.funs) \in Nat
  OBVIOUS
<1>2. /\ Ids(q) = 1..(Len(p.funs) + 1) /\ Ids(p) = 1..Len(p.funs)
      /\ \A k \in Ids(q) : k \in Ids(p) \/ k = Len(p.funs) + 1
      /\ \A k \in Ids(p) : k \in Ids(q) /\ k <= Len(p.funs) + 1
      /\ Len(p.funs) + 1 \in Ids(q)
  BY <1>1 DEF Ids
<1>3. /\ \A k \in Ids(p) : q.function_names[k] = p.function_names[k]
      /\ q.function_names[Len(p.funs) + 1] = f
  BY <1>1 DEF Ids
<1>4. \A k \in Ids(q) : k <= Len(p.funs) + 1
  BY <1>1, <1>2
<1>5. ASSUME NEW g \in Names, g # f
      PROVE  /\ Plain(g) \in DOMAIN q.fun_key_map <=> \E k \in Ids(q) : q.function_names[k] = g
             /\ Plain(g) \in DOMAIN q.fun_key_map => IsLast(q, q.fun_key_map[Plain(g)], g)
  <2>1. Plain(g) \in DOMAIN p.fun_key_map <=> \E k \in Ids(p) : p.function_names[k] = g
    BY DEF KeysLeadToLast
  <2>2. Plain(g) \in DOMAIN p.fun_key_map => IsLast(p, p.fun_key_map[Plain(g)], g)
    BY DEF KeysLeadToLast
  <2>3. /\ Plain(g) \in DOMAIN q.fun_key_map <=> Plain(g) \in DOMAIN p.fun_key_map
        /\ Plain(g) \in DOMAIN p.fun_key_map =>
              q.fun_key_map[Plain(g)] = p.fun_key_map[Plain(g)]
    BY <1>5 DEF KeyAdded
  <2>4. \A k \in Ids(q) : q.function_names[k] = g <=> k \in Ids(p) /\ p.function_names[k] = g
    BY <1>2, <1>3, <1>5
  <2> QED  BY <1>2, <2>1, <2>2, <2>3, <2>4 DEF IsLast
<1>6. /\ Plain(f) \in DOMAIN q.fun_key_map <=> \E k \in Ids(q) : q.function_names[k] = f
      /\ Plain(f) \in DOMAIN q.fun_key_map => IsLast(q, q.fun_key_map[Plain(f)], f)
  BY <1>2, <1>3, <1>4 DEF KeyAdded, IsLast
<1> QED  BY <1>5, <1>6 DEF KeysLeadToLast

\* A function added at the end is made by the command that was read.
LEMMA FunctionAdded ==
    ASSUME NEW t \in Seq(Commands), NEW p, NEW place, NEW c \in Commands, NEW q, NEW fun,
           FunctionsMade(t, p, place), KeysLeadToLast(p),
           p.funs \in Seq(FunNodes), p.function_names \in Seq(Names),
           c.command \in OfFunctions,
           fun.kind = KindOf(c.command),
           fun.name.of = c.name,
           fun.name.dup = 0 <=> Plain(c.name) \notin DOMAIN p.fun_key_map,
           c.command \in Defining => Plain(c.name) \notin DOMAIN p.fun_key_map,
           fun \in FunNodes,
           q.funs = Append(p.funs, fun),
           q.function_names = Append(p.function_names, c.name),
           q.expand_functions = p.expand_functions
    PROVE  Extended(t, p, place, c, q, WithPlace(t, p, place))
<1> DEFINE s == Append(t, c)
           n == Len(t) + 1
           m == Len(p.funs) + 1
           wider == WithPlace(t, p, place)
<1>1. /\ Len(t) \in Nat /\ Len(s) = n /\ s[n] = c
      /\ \A j \in 1..Len(t) : s[j] = t[j] /\ j \in 1..n /\ j # n /\ j < n
      /\ \A j \in 1..n : j \in 1..Len(t) \/ j = n
      /\ n \in 1..n
  BY Appended
<1>2. Len(p.funs) \in Nat /\ Len(q.funs) = m
  OBVIOUS
<1>3. /\ Ids(q) = 1..m /\ Ids(p) = 1..Len(p.funs)
      /\ \A k \in Ids(q) : k \in Ids(p) \/ k = m
      /\ \A k \in Ids(p) : k \in Ids(q) /\ k < m /\ k # m
      /\ m \in Ids(q)
  BY <1>2 DEF Ids
<1>4. /\ Len(p.function_names) = Len(p.funs)
      /\ Len(q.function_names) = m
      /\ \A k \in Ids(p) : q.function_names[k] = p.function_names[k] /\ q.funs[k] = p.funs[k]
      /\ q.function_names[m] = c.name /\ q.funs[m] = fun
  BY <1>2 DEF Ids, FunctionsMade
<1>5. /\ \A k \in Ids(p) : wider[k] = place[k] /\ place[k] \in 1..Len(t)
      /\ wider[m] = n
  BY <1>2, <1>3 DEF WithPlace, FunctionsMade
<1>6. wider \in [Ids(q) -> 1..Len(s)]
  <2>1. DOMAIN wider = Ids(q) /\ wider = [k \in Ids(q) |-> wider[k]]
    BY <1>3 DEF WithPlace
  <2>2. \A k \in Ids(q) : wider[k] \in 1..Len(s)
    <3> HIDE DEF wider, s, n, m
    <3> QED  BY <1>1, <1>3, <1>5
  <2> HIDE DEF wider, s
  <2> QED  BY <2>1, <2>2
<1> HIDE DEF wider, s, n, m
<1>7. \A k \in Ids(p) : FunctionMade(s, q, wider, k)
  <2> TAKE k \in Ids(p)
  <2>1. FunctionMade(t, p, place, k)
    BY DEF FunctionsMade
  <2>2. \A l \in 1..(k - 1) : l \in Ids(p)
    BY <1>2, <1>3
  <2>3. s[wider[k]] = t[place[k]] /\ q.funs[k] = p.funs[k] /\ q.function_names[k] = p.function_names[k]
        /\ \A l \in 1..(k - 1) : q.function_names[l] = p.function_names[l]
    BY <1>1, <1>4, <1>5, <2>2
  <2> QED  BY <2>1, <2>3 DEF FunctionMade
<1>8. FunctionMade(s, q, wider, m)
  <2>1. 1..(m - 1) = Ids(p)
    BY <1>2, <1>3 DEF m
  <2>2. c.name \in Names
    BY DEF Names
  <2>3. Plain(c.name) \notin DOMAIN p.fun_key_map <=> \A l \in 1..(m - 1) : p.function_names[l] # c.name
    BY <2>1, <2>2 DEF KeysLeadToLast
  <2>4. s[wider[m]] = c
    BY <1>1, <1>5
  <2>5. \A l \in 1..(m - 1) : q.function_names[l] = p.function_names[l]
    BY <1>4, <2>1
  <2> QED  BY <1>4, <2>3, <2>4, <2>5 DEF FunctionMade
<1>9. \A k, l \in Ids(q) : k < l => wider[k] < wider[l]
  <2> TAKE k, l \in Ids(q)
  <2> HAVE k < l
  <2>1. k \in Ids(p)
    <3>1. k # m
      BY <1>2, <1>3 DEF m
    <3> QED  BY <1>3, <3>1
  <2>2. CASE l \in Ids(p)
    BY <1>5, <2>1, <2>2 DEF FunctionsMade
  <2>3. CASE l = m
    BY <1>1, <1>5, <2>1, <2>3
  <2> QED  BY <1>3, <2>2, <2>3
<1>10. \A i \in 1..Len(s) : s[i].command \in OfFunctions => \E k \in Ids(q) : wider[k] = i
  <2> TAKE i \in 1..Len(s)
  <2> HAVE s[i].command \in OfFunctions
  <2>1. CASE i = n
    BY <1>3, <1>5, <2>1
  <2>2. CASE i # n
    <3>1. i \in 1..Len(t) /\ t[i].command \in OfFunctions
      BY <1>1, <2>2
    <3>2. PICK k \in Ids(p) : place[k] = i
      BY <3>1 DEF FunctionsMade
    <3> QED  BY <1>3, <1>5, <3>2
  <2> QED  BY <2>1, <2>2
<1>11. FunctionsMade(s, q, wider)
  BY <1>2, <1>3, <1>4, <1>6, <1>7, <1>8, <1>9, <1>10 DEF FunctionsMade
<1> QED  BY <1>2, <1>3, <1>4, <1>5, <1>11 DEF Extended, wider, s, m

\* What mkFuncDec and its caller do.
LEMMA DeclarationMade ==
    ASSUME NEW p, ParserTyped(p), NEW f \in Names
    PROVE  LET q == MkFuncDec(p, f)
               fun == q.funs[Len(p.funs) + 1]
           IN /\ q.funs = Append(p.funs, fun)
              /\ fun = FuncDec(fun.name)
              /\ fun.name \in FNames
              /\ fun.name.of = f
              /\ fun.name.dup = 0 <=> Plain(f) \notin DOMAIN p.fun_key_map
              /\ KeyAdded(p, f, q)
<1> DEFINE again == Plain(f) \in DOMAIN p.fun_key_map
           dup == IF again THEN p.fun_dup_count_map[f] + 1 ELSE 0
           name == [of |-> f, dup |-> dup]
           id == Len(p.funs) + 1
           q == MkFuncDec(p, f)
<1>1. dup \in Nat /\ (dup = 0 <=> ~again)
  BY DEF ParserTyped
<1>2. name \in FNames /\ name.of = f /\ name.dup = dup
  BY <1>1 DEF FNames
<1>3. q.funs = Append(p.funs, FuncDec(name))
  BY DEF MkFuncDec, ParserTyped
<1>4. p.funs \in Seq(FunNodes) /\ Len(p.funs) \in Nat
  BY DEF ParserTyped
<1>5. q.funs[id] = FuncDec(name) /\ FuncDec(name).name = name
  BY <1>3, <1>4 DEF FuncDec
<1>6. q.fun_key_map = IF again THEN Put(Put(p.fun_key_map, name, p.fun_key_map[Plain(f)]), Plain(f), id)
                      ELSE Put(p.fun_key_map, name, id)
  BY DEF MkFuncDec, ParserTyped
<1>7. \A g \in Names : g # f => Plain(g) # Plain(f) /\ Plain(g) # name
  BY <1>2 DEF Plain
<1>8. again => Plain(f) # name
  BY <1>1, <1>2 DEF Plain
<1>9. ~again => Plain(f) = name
  BY <1>1 DEF Plain
<1> HIDE DEF q, name, dup
<1>10. KeyAdded(p, f, q)
  <2>1. CASE again
    <3>1. q.fun_key_map = Put(Put(p.fun_key_map, name, p.fun_key_map[Plain(f)]), Plain(f), id)
      BY <1>6, <2>1
    <3> QED  BY <3>1, <1>7, <1>8, <2>1 DEF KeyAdded, Put
  <2>2. CASE ~again
    <3>1. q.fun_key_map = Put(p.fun_key_map, name, id)
      BY <1>6, <2>2
    <3> QED  BY <3>1, <1>7, <1>9, <2>2 DEF KeyAdded, Put
  <2> QED  BY <2>1, <2>2
<1> QED  BY <1>1, <1>2, <1>3, <1>5, <1>10 DEF q

(***************************************************************************)
(* The commands, one by one.                                               *)
(***************************************************************************)
LEMMA VariablesStillDeclared ==
    ASSUME NEW t \in Seq(Commands), NEW p, NEW c \in Commands, NEW q,
           VariablesDeclared(t, p),
           q.var_names = p.var_names \union IF c.command = "declare-const" THEN {c.name} ELSE {}
    PROVE  VariablesDeclared(Append(t, c), q)
<1> DEFINE s == Append(t, c)
           n == Len(t) + 1
           old == {j \in 1..Len(t) : t[j].command = "declare-const"}
           new == {j \in 1..Len(s) : s[j].command = "declare-const"}
<1>1. /\ Len(s) = n /\ s[n] = c /\ n \in 1..n
      /\ \A j \in 1..Len(t) : s[j] = t[j] /\ j \in 1..n /\ j # n
      /\ \A j \in 1..n : j \in 1..Len(t) \/ j = n
  BY Appended
<1> HIDE DEF s, n
<1>2. p.var_names = {t[i].name : i \in old}
  BY DEF VariablesDeclared
<1>3. \A x : x \in q.var_names <=> (\E i \in old : x = t[i].name) \/ (c.command = "declare-const" /\ x = c.name)
  BY <1>2
<1>4. \A i : i \in new <=> i \in old \/ (i = n /\ c.command = "declare-const")
  BY <1>1
<1>5. \A i \in old : s[i].name = t[i].name
  BY <1>1
<1>6. \A x : x \in q.var_names <=> \E i \in new : x = s[i].name
  <2> HIDE DEF old, new
  <2> QED  BY <1>1, <1>3, <1>4, <1>5
<1>7. q.var_names = {s[i].name : i \in new}
  <2> HIDE DEF old, new
  <2> QED  BY <1>6
<1> QED  BY <1>7 DEF VariablesDeclared, s

\* What a function's application becomes is a set of nodes.
LEMMA ApplicationTyped ==
    ASSUME NEW p, ParserTyped(p), NEW k \in Ids(p)
    PROVE  ApplyFun(p, k) \in SUBSET Nodes
<1>1. p.funs[k] \in FunNodes /\ k \in Nat
  BY DEF ParserTyped, Ids
<1>2. p.funs[k].kind \in {"dec", "def", "rec"} /\ p.funs[k].name \in FNames /\ p.funs[k].body \in SUBSET Nodes
  BY <1>1 DEF FunNodes
<1>3. /\ UFApply(p.funs[k].name) \in Nodes
      /\ RecApply(k, p.funs[k].name) \in Nodes
      /\ FuncApply(k, p.funs[k].name) \in Nodes
  BY <1>1, <1>2 DEF UFApply, RecApply, FuncApply, Nodes
<1> QED  BY <1>2, <1>3 DEF ApplyFun

\* What is read as a term is a set of nodes.
LEMMA TermTyped ==
    ASSUME NEW p, ParserTyped(p), KeysLeadToLast(p), NEW uses \in SUBSET Names
    PROVE  Term(p, uses) \in SUBSET Nodes
<1>1. ASSUME NEW u \in uses, Plain(u) \in DOMAIN p.fun_key_map
      PROVE  ApplyFun(p, p.fun_key_map[Plain(u)]) \in SUBSET Nodes
  <2>1. p.fun_key_map[Plain(u)] \in Ids(p)
    BY <1>1 DEF KeysLeadToLast, IsLast
  <2> QED  BY <2>1, ApplicationTyped
<1>2. ASSUME NEW u \in uses  PROVE Var(u) \in Nodes
  BY DEF Var, Plain, Nodes, FNames
<1> QED  BY <1>1, <1>2 DEF Term

\* The members of a parser that read a text have their types.
LEMMA ReadTyped ==
    ASSUME NEW t, NEW p, ParserReadFrom(t, p)
    PROVE  /\ ParserTyped(p)
           /\ p.funs \in Seq(FunNodes)
           /\ Len(p.funs) \in Nat
           /\ p.function_names \in Seq(Names)
  BY DEF ParserReadFrom, ReadFrom, ParserTyped

\* After declare-const the parser holds what the text says.
LEMMA ConstantRead ==
    ASSUME NEW t \in Seq(Commands), NEW p, ParserReadFrom(t, p), NEW c \in Commands,
           c.command = "declare-const"
    PROVE  ParserReadFrom(Append(t, c), [p EXCEPT !.var_names = @ \union {c.name}])
<1> DEFINE q == [p EXCEPT !.var_names = @ \union {c.name}]
           s == Append(t, c)
<1>1. PICK place : ReadFrom(t, p, place)
  BY DEF ParserReadFrom
<1>2. ParserTyped(p) /\ Len(p.funs) \in Nat
  BY ReadTyped
<1>3. /\ q.funs = p.funs /\ q.function_names = p.function_names
      /\ q.fun_key_map = p.fun_key_map /\ q.assertions = p.assertions
      /\ q.expand_functions = p.expand_functions
      /\ q.var_names = p.var_names \union {c.name}
      /\ q.fun_dup_count_map = p.fun_dup_count_map
  BY <1>2 DEF ParserTyped
<1>4. ParserTyped(q)
  BY <1>2, <1>3 DEF ParserTyped, Names
<1> HIDE DEF q
<1>5. Extended(t, p, place, c, q, place)
  BY <1>1, <1>2, <1>3, NothingMade DEF ReadFrom, OfFunctions, Defining
<1>6. KeysLeadToLast(q)
  BY <1>1, <1>3 DEF ReadFrom, KeysLeadToLast, IsLast, Ids
<1>7. VariablesDeclared(s, q)
  BY <1>1, <1>3, VariablesStillDeclared DEF ReadFrom
<1>8. CommandAccepted(s, Len(t) + 1)
  <2>1. s[Len(t) + 1] = c /\ c.uses = {}
    BY Appended, ScriptAssumption
  <2> HIDE DEF s
  <2> QED  BY <2>1 DEF CommandAccepted, Introducing, Defining
<1>9. SimplifyAssertions(q) = SimplifyAssertions(p)
  BY <1>3 DEF SimplifyAssertions
<1>10. Ids(q) = Ids(p)
  BY <1>3 DEF Ids
<1>11. ReadFrom(s, q, place)
  BY <1>1, <1>4, <1>5, <1>6, <1>7, <1>8, <1>9, <1>10, OneMoreRead
<1> QED  BY <1>11 DEF ParserReadFrom, q

\* After a command that is ignored, and after exit, the parser holds what the text
\* says.
LEMMA IgnoredRead ==
    ASSUME NEW t \in Seq(Commands), NEW p, ParserReadFrom(t, p), NEW c \in Commands,
           c.command \in Ignored \union {"exit"},
           CommandAccepted(Append(t, c), Len(t) + 1)
    PROVE  ParserReadFrom(Append(t, c), p)
<1>1. PICK place : ReadFrom(t, p, place)
  BY DEF ParserReadFrom
<1>2. ParserTyped(p) /\ Len(p.funs) \in Nat
  BY ReadTyped
<1>3. c.command \notin OfFunctions /\ c.command # "declare-const" /\ c.command # "assert"
  BY DEF Ignored, OfFunctions, Defining
<1>5. Extended(t, p, place, c, p, place)
  BY <1>1, <1>2, <1>3, NothingMade DEF ReadFrom
<1>7. VariablesDeclared(Append(t, c), p)
  BY <1>1, <1>3, VariablesStillDeclared DEF ReadFrom
<1>11. ReadFrom(Append(t, c), p, place)
  BY <1>1, <1>2, <1>3, <1>5, <1>7, OneMoreRead DEF ReadFrom
<1> QED  BY <1>11 DEF ParserReadFrom

\* The uses of a command that is read are introduced before it.
LEMMA UsesIntroduced ==
    ASSUME NEW t \in Seq(Commands), NEW p, NEW place, ReadFrom(t, p, place), Len(p.funs) \in Nat,
           NEW c \in Commands, c.command # "define-fun-rec",
           \A u \in c.uses : u \in p.var_names \/ Plain(u) \in DOMAIN p.fun_key_map
    PROVE  \A u \in c.uses : BeforeIn(Append(t, c), Len(t) + 1, u) # {}
<1> TAKE u \in c.uses
<1>1. u \in Names
  BY ScriptAssumption DEF Names
<1>2. IntroducingIn(t, u) # {}
  BY <1>1, KnownIsIntroduced DEF ReadFrom
<1>3. BeforeIn(Append(t, c), Len(t) + 1, u) = IntroducingIn(t, u)
  BY BeforeNext
<1> QED  BY <1>2, <1>3

\* After assert the parser holds what the text says.
LEMMA AssertionRead ==
    ASSUME NEW t \in Seq(Commands), NEW p, ParserReadFrom(t, p), NEW c \in Commands,
           c.command = "assert",
           \A u \in c.uses : u \in p.var_names \/ Plain(u) \in DOMAIN p.fun_key_map
    PROVE  ParserReadFrom(Append(t, c), [p EXCEPT !.assertions = Append(@, Term(p, c.uses))])
<1> DEFINE q == [p EXCEPT !.assertions = Append(@, Term(p, c.uses))]
           s == Append(t, c)
<1>1. PICK place : ReadFrom(t, p, place)
  BY DEF ParserReadFrom
<1>2. ParserTyped(p) /\ Len(p.funs) \in Nat
  BY ReadTyped
<1>3. /\ q.funs = p.funs /\ q.function_names = p.function_names
      /\ q.fun_key_map = p.fun_key_map
      /\ q.assertions = Append(p.assertions, Term(p, c.uses))
      /\ q.expand_functions = p.expand_functions
      /\ q.var_names = p.var_names
      /\ q.fun_dup_count_map = p.fun_dup_count_map
  BY <1>2 DEF ParserTyped
<1>4. Term(p, c.uses) \in SUBSET Nodes /\ p.assertions \in Seq(SUBSET Nodes)
  BY <1>1, <1>2, TermTyped, ScriptAssumption DEF ReadFrom, ParserTyped, Names
<1>5. ParserTyped(q)
  <2>1. Append(p.assertions, Term(p, c.uses)) \in Seq(SUBSET Nodes)
    BY <1>4
  <2> QED  BY <1>2, <1>3, <2>1 DEF ParserTyped
<1> HIDE DEF q
<1>6. Extended(t, p, place, c, q, place)
  BY <1>1, <1>2, <1>3, NothingMade DEF ReadFrom, OfFunctions, Defining
<1>7. KeysLeadToLast(q)
  BY <1>1, <1>3 DEF ReadFrom, KeysLeadToLast, IsLast, Ids
<1>8. VariablesDeclared(s, q)
  BY <1>1, <1>3, VariablesStillDeclared DEF ReadFrom
<1>9. CommandAccepted(s, Len(t) + 1)
  <2>1. s[Len(t) + 1] = c
    BY Appended
  <2>2. \A u \in c.uses : BeforeIn(s, Len(t) + 1, u) # {}
    BY <1>1, <1>2, UsesIntroduced
  <2> HIDE DEF s
  <2> QED  BY <2>1, <2>2 DEF CommandAccepted, Defining
<1>10. TermAt(s, q, place, Len(t) + 1) = Term(p, c.uses)
  BY <1>1, <1>6, TermOfNext DEF ReadFrom
<1>11. SimplifyAssertions(q) = SimplifyAssertions(p) \union Term(p, c.uses)
  <2> DEFINE old == p.assertions
             new == Append(old, Term(p, c.uses))
  <2>1. /\ Len(old) \in Nat /\ DOMAIN old = 1..Len(old) /\ DOMAIN new = 1..(Len(old) + 1)
        /\ \A i \in 1..Len(old) : new[i] = old[i]
        /\ new[Len(old) + 1] = Term(p, c.uses)
    BY <1>4
  <2>2. \A i : i \in DOMAIN new <=> i \in DOMAIN old \/ i = Len(old) + 1
    BY <2>1
  <2> HIDE DEF old, new
  <2>3. UNION {new[i] : i \in DOMAIN new} = (UNION {old[i] : i \in DOMAIN old}) \union Term(p, c.uses)
    <3>1. ASSUME NEW x  PROVE (\E i \in DOMAIN new : x \in new[i])
                               <=> (\E i \in DOMAIN old : x \in old[i]) \/ x \in Term(p, c.uses)
      BY <2>1, <2>2
    <3>2. \A x : x \in UNION {new[i] : i \in DOMAIN new} <=> \E i \in DOMAIN new : x \in new[i]
      BY Zenon
    <3>3. \A x : x \in UNION {old[i] : i \in DOMAIN old} <=> \E i \in DOMAIN old : x \in old[i]
      BY Zenon
    <3>4. PICK more, less : more = UNION {new[i] : i \in DOMAIN new}
                            /\ less = UNION {old[i] : i \in DOMAIN old}
      BY Zenon
    <3>5. \A x : x \in more <=> x \in less \/ x \in Term(p, c.uses)
      BY <3>1, <3>2, <3>3, <3>4, Zenon
    <3>6. more = less \union Term(p, c.uses)
      BY <3>5
    <3> QED  BY <3>4, <3>6, Zenon
  <2> QED  BY <1>3, <2>3 DEF SimplifyAssertions, old, new
<1>12. Ids(q) = Ids(p)
  BY <1>3 DEF Ids
<1>13. ReadFrom(s, q, place)
  BY <1>1, <1>5, <1>6, <1>7, <1>8, <1>9, <1>10, <1>11, <1>12, OneMoreRead
<1> QED  BY <1>13 DEF ParserReadFrom, q

\* What q has that p has not is the function fun, under the name of the command c.
FunctionMore(p, c, q, fun) ==
    /\ c.command \in OfFunctions
    /\ fun \in FunNodes
    /\ fun.kind = KindOf(c.command)
    /\ fun.name.of = c.name
    /\ fun.name.dup = 0 <=> Plain(c.name) \notin DOMAIN p.fun_key_map
    /\ c.command \in Defining => Plain(c.name) \notin DOMAIN p.fun_key_map
    /\ q.funs = Append(p.funs, fun)
    /\ q.function_names = Append(p.function_names, c.name)
    /\ q.expand_functions = p.expand_functions
    /\ q.var_names = p.var_names
    /\ q.assertions = p.assertions
    /\ KeyAdded(p, c.name, q)
    /\ ParserTyped(q)

\* A function more leaves what the earlier commands made.
LEMMA FunctionExtends ==
    ASSUME NEW t \in Seq(Commands), NEW p, NEW place, ReadFrom(t, p, place), NEW c \in Commands,
           NEW q, NEW fun, FunctionMore(p, c, q, fun)
    PROVE  Extended(t, p, place, c, q, WithPlace(t, p, place))
<1>1. p.funs \in Seq(FunNodes) /\ p.function_names \in Seq(Names)
  BY DEF ReadFrom, ParserTyped
<1> QED  BY <1>1, FunctionAdded DEF ReadFrom, FunctionMore

\* A parser with one more function holds what the text says if the function's body is
\* what its command says.
LEMMA FunctionRead ==
    ASSUME NEW t \in Seq(Commands), NEW p, NEW place, ReadFrom(t, p, place), NEW c \in Commands,
           NEW q, NEW fun, FunctionMore(p, c, q, fun),
           CommandAccepted(Append(t, c), Len(t) + 1),
           fun.body = TermAt(Append(t, c), q, WithPlace(t, p, place), Len(t) + 1)
    PROVE  ParserReadFrom(Append(t, c), q)
<1> DEFINE s == Append(t, c)
           wider == WithPlace(t, p, place)
<1>1. p.funs \in Seq(FunNodes) /\ p.function_names \in Seq(Names) /\ Len(p.funs) \in Nat
  BY DEF ReadFrom, ParserTyped
<1>2. Extended(t, p, place, c, q, wider)
  BY FunctionExtends
<1>3. c.name \in Names
  BY DEF Names
<1>4. KeysLeadToLast(q)
  <2>1. Len(p.function_names) = Len(p.funs)
    BY DEF ReadFrom, FunctionsMade
  <2>2. Len(q.funs) = Len(p.funs) + 1
    BY <1>1 DEF FunctionMore
  <2> QED  BY <1>1, <1>3, <2>1, <2>2, KeysStillLeadToLast DEF ReadFrom, FunctionMore
<1>5. VariablesDeclared(s, q)
  <2>1. c.command # "declare-const"
    BY DEF FunctionMore, OfFunctions, Defining
  <2> QED  BY <2>1, VariablesStillDeclared DEF ReadFrom, FunctionMore
<1>6. \A k \in Ids(q) \ Ids(p) : q.funs[k].body = TermAt(s, q, wider, wider[k])
  <2> DEFINE m == Len(p.funs) + 1
  <2>1. q.funs[m] = fun /\ \A k \in Ids(q) \ Ids(p) : k = m
    BY <1>1 DEF FunctionMore, Ids
  <2>2. wider[m] = Len(t) + 1
    BY <1>1 DEF WithPlace
  <2> HIDE DEF m, wider
  <2> QED  BY <2>1, <2>2 DEF wider
<1>7. SimplifyAssertions(q) = SimplifyAssertions(p) /\ c.command # "assert"
  BY DEF SimplifyAssertions, FunctionMore, OfFunctions, Defining
<1> HIDE DEF wider, s
<1>8. ReadFrom(s, q, wider)
  BY <1>2, <1>4, <1>5, <1>6, <1>7, OneMoreRead DEF s, FunctionMore
<1> QED  BY <1>8 DEF ParserReadFrom, s

\* What mkFuncDec leaves alone.
LEMMA DeclarationTyped ==
    ASSUME NEW p, ParserTyped(p), NEW f \in Names
    PROVE  LET q == MkFuncDec(p, f)
           IN /\ ParserTyped(q)
              /\ q.expand_functions = p.expand_functions
              /\ q.var_names = p.var_names
              /\ q.function_names = p.function_names
              /\ q.assertions = p.assertions
<1> DEFINE q == MkFuncDec(p, f)
           dup == IF Plain(f) \in DOMAIN p.fun_key_map THEN p.fun_dup_count_map[f] + 1 ELSE 0
<1>1. /\ q.expand_functions = p.expand_functions
      /\ q.var_names = p.var_names
      /\ q.function_names = p.function_names
      /\ q.assertions = p.assertions
  BY DEF MkFuncDec, ParserTyped
<1>2. q.fun_dup_count_map = [p.fun_dup_count_map EXCEPT ![f] = dup]
  BY DEF MkFuncDec, ParserTyped
<1>3. dup \in Nat
  BY DEF ParserTyped
<1>4. q.fun_dup_count_map \in [Names -> Nat]
  <2> HIDE DEF dup, q
  <2> QED  BY <1>2, <1>3 DEF ParserTyped
<1>5. q.funs = Append(p.funs, q.funs[Len(p.funs) + 1])
      /\ q.funs[Len(p.funs) + 1] \in FunNodes
  <2> DEFINE fun == q.funs[Len(p.funs) + 1]
  <2>1. q.funs = Append(p.funs, fun) /\ fun = FuncDec(fun.name) /\ fun.name \in FNames
    BY DeclarationMade
  <2> HIDE DEF fun, q
  <2>2. FuncDec(fun.name) \in FunNodes
    BY <2>1 DEF FuncDec, FunNodes
  <2> QED  BY <2>1, <2>2 DEF fun
<1>6. q.funs \in Seq(FunNodes)
  <2> HIDE DEF q
  <2>1. p.funs \in Seq(FunNodes)
    BY DEF ParserTyped
  <2>2. PICK fun \in FunNodes : q.funs = Append(p.funs, fun)
    BY <1>5
  <2> QED  BY <2>1, <2>2
<1>7. q = [expand_functions |-> q.expand_functions, var_names |-> q.var_names, funs |-> q.funs,
           fun_key_map |-> q.fun_key_map, function_names |-> q.function_names,
           fun_dup_count_map |-> q.fun_dup_count_map, assertions |-> q.assertions]
  <2>1. DOMAIN q = DOMAIN p /\ q = [field \in DOMAIN p |-> q[field]]
    BY DEF MkFuncDec
  <2>2. DOMAIN p = {"expand_functions", "var_names", "funs", "fun_key_map", "function_names",
                    "fun_dup_count_map", "assertions"}
    BY DEF ParserTyped
  <2> HIDE DEF q
  <2> QED  BY <2>1, <2>2
<1>8. ParserTyped(q)
  <2> HIDE DEF q
  <2> QED  BY <1>1, <1>4, <1>6, <1>7 DEF ParserTyped
<1> QED  BY <1>1, <1>8

\* After declare-fun the parser holds what the text says.
LEMMA FunDeclared ==
    ASSUME NEW t \in Seq(Commands), NEW p, ParserReadFrom(t, p), NEW c \in Commands,
           c.command = "declare-fun"
    PROVE  ParserReadFrom(Append(t, c), Named(MkFuncDec(p, c.name), c.name))
<1> DEFINE d == MkFuncDec(p, c.name)
           q == Named(d, c.name)
           fun == d.funs[Len(p.funs) + 1]
<1>1. PICK place : ReadFrom(t, p, place)
  BY DEF ParserReadFrom
<1>2. ParserTyped(p) /\ p.function_names \in Seq(Names) /\ c.name \in Names
  BY ReadTyped DEF Names
<1>3. /\ ParserTyped(d)
      /\ d.expand_functions = p.expand_functions
      /\ d.var_names = p.var_names
      /\ d.function_names = p.function_names
      /\ d.assertions = p.assertions
  BY <1>2, DeclarationTyped
<1>4. /\ d.funs = Append(p.funs, fun)
      /\ fun = FuncDec(fun.name)
      /\ fun.name \in FNames
      /\ fun.name.of = c.name
      /\ fun.name.dup = 0 <=> Plain(c.name) \notin DOMAIN p.fun_key_map
      /\ KeyAdded(p, c.name, d)
  BY <1>2, DeclarationMade
<1> HIDE DEF d
<1>5. /\ q.funs = d.funs /\ q.fun_key_map = d.fun_key_map
      /\ q.expand_functions = d.expand_functions
      /\ q.var_names = d.var_names
      /\ q.function_names = Append(d.function_names, c.name)
      /\ q.assertions = d.assertions
      /\ q.fun_dup_count_map = d.fun_dup_count_map
  BY <1>3 DEF Named, ParserTyped
<1>6. ParserTyped(q)
  <2>1. Append(d.function_names, c.name) \in Seq(Names)
    BY <1>2, <1>3
  <2> QED  BY <1>3, <2>1 DEF Named, ParserTyped
<1> HIDE DEF q, fun
<1>7. fun.kind = "dec" /\ fun.body = {}
  BY <1>4 DEF FuncDec
<1>8. fun \in FunNodes
  <2>1. FuncDec(fun.name) \in FunNodes
    BY <1>4 DEF FuncDec, FunNodes
  <2> QED  BY <1>4, <2>1
<1>9. KeyAdded(p, c.name, q)
  BY <1>4, <1>5 DEF KeyAdded
<1>10. FunctionMore(p, c, q, fun)
  BY <1>3, <1>4, <1>5, <1>6, <1>7, <1>8, <1>9 DEF FunctionMore, OfFunctions, Defining, KindOf
<1>11. c.uses = {} /\ Append(t, c)[Len(t) + 1] = c
  BY ScriptAssumption, Appended
<1>12. CommandAccepted(Append(t, c), Len(t) + 1)
  BY <1>11 DEF CommandAccepted, Introducing, Defining
<1>13. fun.body = TermAt(Append(t, c), q, WithPlace(t, p, place), Len(t) + 1)
  BY <1>7, <1>11 DEF TermAt
<1>14. ParserReadFrom(Append(t, c), q)
  BY <1>1, <1>10, <1>12, <1>13, FunctionRead
<1> QED  BY <1>14 DEF q, d

\* A definition is of a name that nothing introduced.
LEMMA NotIntroduced ==
    ASSUME NEW t \in Seq(Commands), NEW p, NEW place, ReadFrom(t, p, place), NEW c \in Commands,
           c.command \in Defining, Plain(c.name) \notin DOMAIN p.fun_key_map
    PROVE  IntroducingIn(t, c.name) = {}
<1> SUFFICES ASSUME NEW j \in IntroducingIn(t, c.name)  PROVE FALSE
  OBVIOUS
<1>1. c.name \in Names /\ t[j] \in Commands /\ t[j].name = c.name
  BY DEF Names, IntroducingIn
<1>2. t[j].command = "declare-const"
  BY <1>1, ConstantsIntroduced DEF ReadFrom
<1> QED  BY <1>1, <1>2, ScriptAssumption DEF Defining

\* A definition of a new name over known names is in the language read.
LEMMA DefinitionAccepted ==
    ASSUME NEW t \in Seq(Commands), NEW c \in Commands,
           c.command \in Defining, IntroducingIn(t, c.name) = {},
           \A u \in c.uses : BeforeIn(Append(t, c), Len(t) + 1, u) # {}
    PROVE  CommandAccepted(Append(t, c), Len(t) + 1)
<1> DEFINE s == Append(t, c)
           n == Len(t) + 1
<1>1. /\ s[n] = c /\ \A j \in 1..Len(t) : s[j] = t[j]
      /\ 1..(n - 1) = 1..Len(t)
  BY Appended
<1> HIDE DEF s, n
<1>2. \A j \in 1..(n - 1) : ~(s[j].command \in Introducing /\ s[j].name = c.name)
  BY <1>1 DEF IntroducingIn
<1>3. \A u \in s[n].uses : BeforeIn(s, n, u) # {}
  BY <1>1 DEF s, n
<1>4. s[n].command \in Introducing \union Ignored \union {"assert", "exit"}
  BY <1>1 DEF Introducing
<1> QED  BY <1>1, <1>2, <1>3, <1>4 DEF CommandAccepted, s, n

\* After define-fun the parser holds what the text says.
LEMMA FunDefined ==
    ASSUME NEW t \in Seq(Commands), NEW p, ParserReadFrom(t, p), NEW c \in Commands,
           c.command = "define-fun", Plain(c.name) \notin DOMAIN p.fun_key_map,
           \A u \in c.uses : u \in p.var_names \/ Plain(u) \in DOMAIN p.fun_key_map
    PROVE  ParserReadFrom(Append(t, c),
                          MkFuncDef(Named(p, c.name), c.name, Term(p, c.uses)))
<1> DEFINE body == Term(p, c.uses)
           q == MkFuncDef(Named(p, c.name), c.name, body)
           fun == [name |-> Plain(c.name), kind |-> "def", body |-> body]
           id == Len(p.funs) + 1
<1>1. PICK place : ReadFrom(t, p, place)
  BY DEF ParserReadFrom
<1>2. /\ ParserTyped(p) /\ p.function_names \in Seq(Names) /\ c.name \in Names
      /\ p.funs \in Seq(FunNodes) /\ Len(p.funs) \in Nat
  BY ReadTyped DEF Names
<1>3. body \in SUBSET Nodes
  BY <1>1, <1>2, TermTyped, ScriptAssumption DEF ReadFrom, Names
<1> HIDE DEF body
<1>4. /\ q.funs = Append(p.funs, fun)
      /\ q.fun_key_map = Put(p.fun_key_map, Plain(c.name), id)
      /\ q.expand_functions = p.expand_functions
      /\ q.var_names = p.var_names
      /\ q.function_names = Append(p.function_names, c.name)
      /\ q.assertions = p.assertions
      /\ q.fun_dup_count_map = p.fun_dup_count_map
  BY <1>2 DEF Named, MkFuncDef, ParserTyped
<1>5. fun \in FunNodes
  BY <1>2, <1>3 DEF FunNodes, FNames, Plain
<1>6. ParserTyped(q)
  <2>1. q.function_names \in Seq(Names) /\ q.funs \in Seq(FunNodes)
    <3>1. PICK made \in FunNodes : made = fun
      BY <1>5
    <3>2. q.funs = Append(p.funs, made) /\ q.function_names = Append(p.function_names, c.name)
      BY <1>4, <3>1
    <3> HIDE DEF q, fun
    <3> QED  BY <1>2, <3>2
  <2>2. DOMAIN q = DOMAIN p /\ q = [field \in DOMAIN p |-> q[field]]
    <3>1. \A r, d : DOMAIN MkFuncDef(r, c.name, d) = DOMAIN r
                    /\ MkFuncDef(r, c.name, d) = [field \in DOMAIN r |-> MkFuncDef(r, c.name, d)[field]]
      BY DEF MkFuncDef
    <3>2. DOMAIN Named(p, c.name) = DOMAIN p
      BY DEF Named
    <3> QED  BY <3>1, <3>2
  <2>3. DOMAIN p = {"expand_functions", "var_names", "funs", "fun_key_map", "function_names",
                    "fun_dup_count_map", "assertions"}
    BY <1>2 DEF ParserTyped
  <2>4. q = [expand_functions |-> q.expand_functions, var_names |-> q.var_names, funs |-> q.funs,
             fun_key_map |-> q.fun_key_map, function_names |-> q.function_names,
             fun_dup_count_map |-> q.fun_dup_count_map, assertions |-> q.assertions]
    <3> HIDE DEF q
    <3> QED  BY <2>2, <2>3
  <2> HIDE DEF q
  <2> QED  BY <1>2, <1>4, <2>1, <2>4 DEF ParserTyped
<1>7. KeyAdded(p, c.name, q)
  <2>1. \A g \in Names : g # c.name => Plain(g) # Plain(c.name)
    BY DEF Plain
  <2> HIDE DEF q
  <2> QED  BY <1>4, <2>1 DEF KeyAdded, Put
<1> HIDE DEF q
<1>8. fun.kind = "def" /\ fun.name = Plain(c.name) /\ fun.body = body
  OBVIOUS
<1> HIDE DEF fun
<1>9. FunctionMore(p, c, q, fun)
  BY <1>4, <1>5, <1>6, <1>7, <1>8 DEF FunctionMore, OfFunctions, Defining, KindOf, Plain
<1>10. CommandAccepted(Append(t, c), Len(t) + 1)
  <2>1. \A u \in c.uses : BeforeIn(Append(t, c), Len(t) + 1, u) # {}
    BY <1>1, <1>2, UsesIntroduced
  <2>2. IntroducingIn(t, c.name) = {}
    BY <1>1, NotIntroduced DEF Defining
  <2> QED  BY <2>1, <2>2, DefinitionAccepted DEF Defining
<1>11. fun.body = TermAt(Append(t, c), q, WithPlace(t, p, place), Len(t) + 1)
  <2>1. Extended(t, p, place, c, q, WithPlace(t, p, place))
    BY <1>1, <1>9, FunctionExtends
  <2>2. TermAt(Append(t, c), q, WithPlace(t, p, place), Len(t) + 1) = Term(p, c.uses)
    BY <1>1, <2>1, TermOfNext DEF ReadFrom
  <2> QED  BY <1>8, <2>2 DEF body
<1>12. ParserReadFrom(Append(t, c), q)
  BY <1>1, <1>9, <1>10, <1>11, FunctionRead
<1> QED  BY <1>12 DEF q, body

\* Adding to the list of function names changes nothing else.
LEMMA NamedTyped ==
    ASSUME NEW p, ParserTyped(p), NEW f \in Names
    PROVE  LET q == Named(p, f)
           IN /\ ParserTyped(q)
              /\ q.funs = p.funs
              /\ q.fun_key_map = p.fun_key_map
              /\ q.expand_functions = p.expand_functions
              /\ q.var_names = p.var_names
              /\ q.function_names = Append(p.function_names, f)
              /\ q.assertions = p.assertions
<1> DEFINE q == Named(p, f)
<1>1. /\ q.funs = p.funs
      /\ q.fun_key_map = p.fun_key_map
      /\ q.expand_functions = p.expand_functions
      /\ q.var_names = p.var_names
      /\ q.function_names = Append(p.function_names, f)
      /\ q.assertions = p.assertions
  BY DEF Named, ParserTyped
<1>2. Append(p.function_names, f) \in Seq(Names)
  BY DEF ParserTyped
<1>3. ParserTyped(q)
  BY <1>2 DEF Named, ParserTyped
<1> QED  BY <1>1, <1>3

\* A recursive function in its own body is a declared one.
LEMMA TermOfRecursive ==
    ASSUME NEW t \in Seq(Commands), NEW p, NEW place, ReadFrom(t, p, place), Len(p.funs) \in Nat,
           NEW c \in Commands, NEW q, NEW wider, NEW d,
           Extended(t, p, place, c, q, wider),
           c.command = "define-fun-rec", Plain(c.name) \notin DOMAIN p.fun_key_map,
           \A u \in c.uses : u \in p.var_names \/ Plain(u) \in DOMAIN p.fun_key_map \/ u = c.name,
           KeyAdded(p, c.name, d),
           d.expand_functions = p.expand_functions,
           \A k \in Ids(p) : d.funs[k] = p.funs[k],
           d.funs[Len(p.funs) + 1] = FuncDec(Plain(c.name))
    PROVE  /\ TermAt(Append(t, c), q, wider, Len(t) + 1) = Term(d, c.uses)
           /\ \A u \in c.uses : BeforeIn(Append(t, c), Len(t) + 1, u) # {}
<1> DEFINE s == Append(t, c)
           n == Len(t) + 1
           functions == {u \in c.uses : Plain(u) \in DOMAIN d.fun_key_map}
           Meant(u) == MeantBy(s, q, wider, n, u)
           Read(u) == IF Plain(u) \in DOMAIN d.fun_key_map
                      THEN ApplyFun(d, d.fun_key_map[Plain(u)]) ELSE {Var(u)}
<1>1. /\ s[n] = c /\ Len(t) \in Nat /\ Len(s) = n /\ n \in 1..Len(s) /\ s \in Seq(Commands)
      /\ \A j \in 1..n : j <= n
  BY Appended
<1>2. c.uses \subseteq Names /\ c.name \in Names
  BY ScriptAssumption DEF Names
<1> HIDE DEF s, n
<1>3. /\ n \in BeforeIn(s, n, c.name)
      /\ \A k \in BeforeIn(s, n, c.name) : k <= n
  BY <1>1 DEF BeforeIn, Introducing, Defining
<1>4. Meant(c.name) = {UFApply(Plain(c.name))}
  <2>1. ReferentIn(s, n, c.name) = n
    BY <1>1, <1>3, ReferentIs
  <2> QED  BY <1>1, <2>1 DEF MeantBy
<1>5. Read(c.name) = {UFApply(Plain(c.name))}
  BY DEF KeyAdded, ApplyFun, FuncDec
<1>6. ASSUME NEW u \in c.uses, u # c.name
      PROVE  /\ BeforeIn(s, n, u) # {}
             /\ Meant(u) = Read(u)
  <2>1. u \in Names /\ (u \in p.var_names \/ Plain(u) \in DOMAIN p.fun_key_map)
    BY <1>2, <1>6
  <2>2. IntroducingIn(t, u) # {}
    BY <1>2, <2>1, KnownIsIntroduced DEF ReadFrom
  <2>3. BeforeIn(s, n, u) = IntroducingIn(t, u)
    BY <1>6, BeforeNext DEF s, n
  <2>4. u \in Names /\ ~(c.command = "define-fun-rec" /\ u = c.name)
    BY <1>2, <1>6
  <2>5. Meant(u) = KnownAs(p, u)
    BY <2>2, <2>4, MeaningOfNext DEF ReadFrom, s, n
  <2>6. Read(u) = KnownAs(p, u)
    <3>1. /\ Plain(u) \in DOMAIN d.fun_key_map <=> Plain(u) \in DOMAIN p.fun_key_map
          /\ Plain(u) \in DOMAIN p.fun_key_map =>
                d.fun_key_map[Plain(u)] = p.fun_key_map[Plain(u)]
      BY <2>4, <1>6 DEF KeyAdded
    <3>2. CASE Plain(u) \in DOMAIN p.fun_key_map
      <4> DEFINE k == p.fun_key_map[Plain(u)]
      <4>1. k \in Ids(p)
        BY <2>4, <3>2 DEF ReadFrom, KeysLeadToLast, IsLast
      <4>2. d.funs[k] = p.funs[k]
        BY <4>1
      <4>3. ApplyFun(d, k) = ApplyFun(p, k)
        <5> HIDE DEF k
        <5> QED  BY <4>2, Zenon DEF ApplyFun
      <4> QED  BY <3>1, <3>2, <4>3 DEF KnownAs
    <3>3. CASE Plain(u) \notin DOMAIN p.fun_key_map
      BY <3>1, <3>3 DEF KnownAs
    <3> QED  BY <3>2, <3>3
  <2> QED  BY <2>2, <2>3, <2>5, <2>6
<1>7. \A u \in c.uses : Meant(u) = Read(u)
  BY <1>4, <1>5, <1>6
<1>8. TermAt(s, q, wider, n) = UNION {Meant(u) : u \in c.uses}
  BY <1>1 DEF TermAt
<1>9. UNION {Meant(u) : u \in c.uses} = Term(d, c.uses)
  <2>1. \A u \in c.uses : Meant(u) = IF u \in functions THEN ApplyFun(d, d.fun_key_map[Plain(u)])
                                     ELSE {Var(u)}
    BY <1>7
  <2> HIDE DEF Meant
  <2>2. functions \subseteq c.uses
    OBVIOUS
  <2>3. Term(d, c.uses) = {Var(u) : u \in c.uses \ functions}
           \union UNION {ApplyFun(d, d.fun_key_map[Plain(u)]) : u \in functions}
    BY DEF Term
  <2> HIDE DEF functions
  <2> QED  BY <2>1, <2>2, <2>3
<1>10. \A u \in c.uses : BeforeIn(s, n, u) # {}
  BY <1>3, <1>6
<1> QED  BY <1>8, <1>9, <1>10 DEF s, n

\* A declared function that becomes recursive, field by field.
LEMMA MadeRecursive ==
    ASSUME NEW name, NEW body
    PROVE  [FuncDec(name) EXCEPT !.kind = "rec", !.body = body]
             = [name |-> name, kind |-> "rec", body |-> body]
<1> DEFINE r == [FuncDec(name) EXCEPT !.kind = "rec", !.body = body]
<1>1. r.name = name /\ r.kind = "rec" /\ r.body = body
  BY DEF FuncDec
<1>2. DOMAIN r = {"name", "kind", "body"} /\ r = [field \in DOMAIN r |-> r[field]]
  BY DEF FuncDec
<1> HIDE DEF r
<1>3. r = [name |-> name, kind |-> "rec", body |-> body]
  BY <1>1, <1>2
<1> QED  BY <1>3 DEF r

\* After define-fun-rec the parser holds what the text says.
LEMMA RecFunDefined ==
    ASSUME NEW t \in Seq(Commands), NEW p, ParserReadFrom(t, p), NEW c \in Commands,
           c.command = "define-fun-rec", Plain(c.name) \notin DOMAIN p.fun_key_map,
           \A u \in c.uses : u \in p.var_names \/ Plain(u) \in DOMAIN p.fun_key_map \/ u = c.name
    PROVE  LET declared == MkFuncDec(Named(p, c.name), c.name)
           IN ParserReadFrom(Append(t, c), MkFuncRec(declared, c.name, Term(declared, c.uses)))
<1> DEFINE named == Named(p, c.name)
           d == MkFuncDec(named, c.name)
           body == Term(d, c.uses)
           q == MkFuncRec(d, c.name, body)
           id == Len(p.funs) + 1
           declaration == d.funs[id]
           fun == [declaration EXCEPT !.kind = "rec", !.body = body]
<1>1. PICK place : ReadFrom(t, p, place)
  BY DEF ParserReadFrom
<1>2. /\ ParserTyped(p) /\ p.function_names \in Seq(Names) /\ c.name \in Names
      /\ p.funs \in Seq(FunNodes) /\ Len(p.funs) \in Nat
  BY ReadTyped DEF Names
<1>3. /\ ParserTyped(named)
      /\ named.funs = p.funs
      /\ named.fun_key_map = p.fun_key_map
      /\ named.expand_functions = p.expand_functions
      /\ named.var_names = p.var_names
      /\ named.function_names = Append(p.function_names, c.name)
      /\ named.assertions = p.assertions
  BY <1>2, NamedTyped
<1> HIDE DEF named
<1>4. /\ ParserTyped(d)
      /\ d.expand_functions = p.expand_functions
      /\ d.var_names = p.var_names
      /\ d.function_names = Append(p.function_names, c.name)
      /\ d.assertions = p.assertions
  BY <1>2, <1>3, DeclarationTyped
<1>5. /\ d.funs = Append(p.funs, declaration)
      /\ declaration = FuncDec(declaration.name)
      /\ declaration.name \in FNames
      /\ declaration.name.of = c.name
      /\ declaration.name.dup = 0 <=> Plain(c.name) \notin DOMAIN p.fun_key_map
      /\ KeyAdded(named, c.name, d)
  BY <1>2, <1>3, DeclarationMade
<1> HIDE DEF d
<1>6. KeyAdded(p, c.name, d)
  BY <1>3, <1>5 DEF KeyAdded
<1>7. declaration.name = Plain(c.name)
  BY <1>5 DEF FNames, Plain
<1>8. KeysLeadToLast(d)
  <2>1. Len(p.function_names) = Len(p.funs) /\ KeysLeadToLast(p)
    BY <1>1 DEF ReadFrom, FunctionsMade
  <2>2. Len(d.funs) = Len(p.funs) + 1
    BY <1>2, <1>5
  <2> QED  BY <1>2, <1>4, <1>6, <2>1, <2>2, KeysStillLeadToLast
<1>9. body \in SUBSET Nodes
  BY <1>4, <1>8, TermTyped, ScriptAssumption DEF Names
<1>10. d.funs[id] = FuncDec(Plain(c.name)) /\ \A k \in Ids(p) : d.funs[k] = p.funs[k]
  <2>1. d.funs[id] = declaration
    OBVIOUS
  <2>2. \A k \in Ids(p) : d.funs[k] = p.funs[k]
    <3> HIDE DEF declaration
    <3> QED  BY <1>2, <1>5 DEF Ids
  <2> QED  BY <1>5, <1>7, <2>1, <2>2
<1> HIDE DEF body
<1>11. d.fun_key_map[Plain(c.name)] = id
  BY <1>6 DEF KeyAdded
<1>12. /\ q.funs = [d.funs EXCEPT ![id] = [@ EXCEPT !.kind = "rec", !.body = body]]
       /\ q.fun_key_map = d.fun_key_map
       /\ q.expand_functions = d.expand_functions
       /\ q.var_names = d.var_names
       /\ q.function_names = d.function_names
       /\ q.assertions = d.assertions
       /\ q.fun_dup_count_map = d.fun_dup_count_map
  BY <1>4, <1>11 DEF MkFuncRec, ParserTyped
<1>13. fun = [name |-> Plain(c.name), kind |-> "rec", body |-> body]
  <2>1. declaration = FuncDec(Plain(c.name))
    BY <1>5, <1>7
  <2> HIDE DEF declaration
  <2> QED  BY <2>1, MadeRecursive
<1>14. fun \in FunNodes
  <2> HIDE DEF fun
  <2> QED  BY <1>2, <1>9, <1>13 DEF FunNodes, FNames, Plain
<1>15. q.funs = Append(p.funs, fun)
  <2>1. q.funs = [d.funs EXCEPT ![id] = fun]
    BY <1>12
  <2> HIDE DEF fun, declaration, q
  <2>2. PICK old : old = declaration
    BY Zenon
  <2>3. d.funs = Append(p.funs, old)
    BY <1>5, <2>2
  <2>4. PICK new : new = fun
    BY Zenon
  <2>5. [Append(p.funs, old) EXCEPT ![Len(p.funs) + 1] = new] = Append(p.funs, new)
    <3>1. old \in FunNodes /\ new \in FunNodes
      BY <1>14, <2>2, <2>4, <1>5 DEF FuncDec, FunNodes
    <3> DEFINE n == Len(p.funs) + 1
               a == Append(p.funs, old)
               b == Append(p.funs, new)
               e == [a EXCEPT ![n] = new]
    <3>2. /\ a \in Seq(FunNodes) /\ Len(a) = n /\ DOMAIN a = 1..n
          /\ b \in Seq(FunNodes) /\ Len(b) = n /\ DOMAIN b = 1..n
      BY <1>2, <3>1
    <3>3. \A i \in 1..n : i # n => a[i] = b[i]
      BY <1>2, <3>1
    <3>4. b[n] = new /\ n \in 1..n
      BY <1>2, <3>1
    <3> HIDE DEF a, b, n
    <3>5. e = [i \in 1..n |-> e[i]]
      BY <3>2
    <3>6. b = [i \in 1..n |-> b[i]]
      BY <3>2
    <3>7. \A i \in 1..n : e[i] = b[i]
      BY <3>2, <3>3, <3>4
    <3> HIDE DEF e
    <3>8. e = b
      BY <3>5, <3>6, <3>7, Zenon
    <3> QED  BY <3>8 DEF e, a, b, n
  <2>6. q.funs = [d.funs EXCEPT ![id] = new]
    BY <2>1, <2>4
  <2> QED  BY <2>3, <2>4, <2>5, <2>6
<1>16. ParserTyped(q)
  <2>1. q.funs \in Seq(FunNodes)
    <3> HIDE DEF q, fun
    <3>1. PICK made \in FunNodes : made = fun
      BY <1>14
    <3> QED  BY <1>2, <1>15, <3>1
  <2>2. DOMAIN q = DOMAIN d /\ q = [field \in DOMAIN d |-> q[field]]
    BY DEF MkFuncRec
  <2>3. DOMAIN d = {"expand_functions", "var_names", "funs", "fun_key_map", "function_names",
                    "fun_dup_count_map", "assertions"}
    BY <1>4 DEF ParserTyped
  <2>4. q = [expand_functions |-> q.expand_functions, var_names |-> q.var_names, funs |-> q.funs,
             fun_key_map |-> q.fun_key_map, function_names |-> q.function_names,
             fun_dup_count_map |-> q.fun_dup_count_map, assertions |-> q.assertions]
    <3> HIDE DEF q
    <3> QED  BY <2>2, <2>3
  <2> HIDE DEF q
  <2> QED  BY <1>4, <1>12, <2>1, <2>4 DEF ParserTyped
<1> HIDE DEF q
<1>17. fun.kind = "rec" /\ fun.name = Plain(c.name) /\ fun.body = body
  BY <1>13
<1> HIDE DEF fun, declaration
<1>18. KeyAdded(p, c.name, q)
  BY <1>6, <1>12 DEF KeyAdded
<1>19. FunctionMore(p, c, q, fun)
  BY <1>4, <1>12, <1>14, <1>15, <1>16, <1>17, <1>18
     DEF FunctionMore, OfFunctions, Defining, KindOf, Plain
<1>20. /\ TermAt(Append(t, c), q, WithPlace(t, p, place), Len(t) + 1) = Term(d, c.uses)
       /\ \A u \in c.uses : BeforeIn(Append(t, c), Len(t) + 1, u) # {}
  <2>1. Extended(t, p, place, c, q, WithPlace(t, p, place))
    BY <1>1, <1>19, FunctionExtends
  <2> QED  BY <1>1, <1>2, <1>4, <1>6, <1>10, <2>1, TermOfRecursive
<1>21. CommandAccepted(Append(t, c), Len(t) + 1)
  <2>1. IntroducingIn(t, c.name) = {}
    BY <1>1, NotIntroduced DEF Defining
  <2> QED  BY <1>20, <2>1, DefinitionAccepted DEF Defining
<1>22. fun.body = TermAt(Append(t, c), q, WithPlace(t, p, place), Len(t) + 1)
  BY <1>17, <1>20 DEF body
<1>23. ParserReadFrom(Append(t, c), q)
  BY <1>1, <1>19, <1>21, <1>22, FunctionRead
<1> QED  BY <1>23 DEF q, body, d, named

\* A parser that has read nothing.
LEMMA NothingRead ==
    ASSUME NEW expand \in BOOLEAN
    PROVE  ParserReadFrom(<< >>, NewParser(expand))
<1> DEFINE p == NewParser(expand)
           place == [k \in 1..0 |-> 0]
<1>1. /\ p.expand_functions = expand /\ p.var_names = {} /\ p.funs = << >>
      /\ p.fun_key_map = << >> /\ p.function_names = << >> /\ p.assertions = << >>
      /\ p.fun_dup_count_map = [f \in Names |-> 0]
  BY DEF NewParser, Names
<1>2. ParserTyped(p)
  <2>1. p = [expand_functions |-> expand, var_names |-> {}, funs |-> << >>, fun_key_map |-> << >>,
             function_names |-> << >>, fun_dup_count_map |-> [f \in Names |-> 0],
             assertions |-> << >>]
    BY DEF NewParser, Names
  <2>2. /\ << >> \in Seq(FunNodes) /\ << >> \in Seq(Names) /\ << >> \in Seq(SUBSET Nodes)
        /\ [f \in Names |-> 0] \in [Names -> Nat]
    OBVIOUS
  <2> HIDE DEF p
  <2> QED  BY <1>1, <2>1, <2>2 DEF ParserTyped
<1> HIDE DEF p
<1>3. Ids(p) = {} /\ Len(p.funs) = 0 /\ Len(p.function_names) = 0 /\ Len(<< >>) = 0
  BY <1>1 DEF Ids
<1>4. FunctionsMade(<< >>, p, place)
  <2>1. place \in [Ids(p) -> 1..Len(<< >>)]
    BY <1>3
  <2>2. \A i : i \notin 1..Len(<< >>)
    BY <1>3
  <2> HIDE DEF place
  <2> QED  BY <1>3, <2>1, <2>2 DEF FunctionsMade
<1>5. KeysLeadToLast(p)
  <2>1. DOMAIN p.fun_key_map = {}
    BY <1>1
  <2> QED  BY <1>3, <2>1 DEF KeysLeadToLast
<1>6. \A i : i \notin 1..Len(<< >>)
  BY <1>3
<1>7. VariablesDeclared(<< >>, p) /\ AcceptedIn(<< >>)
  BY <1>1, <1>6 DEF VariablesDeclared, AcceptedIn
<1>8. TermsRead(<< >>, p, place)
  <2>1. AssertsIn(<< >>) = {} /\ DOMAIN p.assertions = {}
    BY <1>1, <1>6 DEF AssertsIn
  <2>2. SimplifyAssertions(p) = {} /\ TermsAt(<< >>, p, place, AssertsIn(<< >>)) = {}
    BY <2>1 DEF SimplifyAssertions, TermsAt
  <2> QED  BY <1>3, <2>2 DEF TermsRead
<1>9. ReadFrom(<< >>, p, place)
  BY <1>2, <1>4, <1>5, <1>7, <1>8 DEF ReadFrom
<1> QED  BY <1>9 DEF ParserReadFrom, p

\* What the parser refuses is not of its language.
LEMMA RefusedRightly ==
    ASSUME NEW t \in Seq(Commands), NEW p, ParserReadFrom(t, p), NEW c \in Commands,
           \/ c.command \notin {"declare-const", "declare-fun", "define-fun", "define-fun-rec",
                                "assert", "exit"} \union Ignored
           \/ c.command \in {"define-fun", "define-fun-rec"} /\ Plain(c.name) \in DOMAIN p.fun_key_map
           \/ \E u \in c.uses : /\ ~(u \in p.var_names \/ Plain(u) \in DOMAIN p.fun_key_map)
                                /\ ~(c.command = "define-fun-rec" /\ u = c.name)
    PROVE  ~AcceptedIn(Append(t, c))
<1> DEFINE s == Append(t, c)
           n == Len(t) + 1
<1> SUFFICES ~CommandAccepted(s, n)
  <2>1. n \in 1..Len(s)
    BY Appended
  <2> QED  BY <2>1 DEF AcceptedIn
<1>1. PICK place : ReadFrom(t, p, place)
  BY DEF ParserReadFrom
<1>2. Len(p.funs) \in Nat
  BY ReadTyped
<1>3. s[n] = c /\ (\A j \in 1..Len(t) : s[j] = t[j]) /\ 1..(n - 1) = 1..Len(t)
  BY Appended
<1>4. c.name \in Names /\ c.uses \subseteq Names
  BY ScriptAssumption DEF Names
<1>5. CASE c.command \notin {"declare-const", "declare-fun", "define-fun", "define-fun-rec",
                             "assert", "exit"} \union Ignored
  <2> HIDE DEF s, n
  <2> QED  BY <1>3, <1>5 DEF CommandAccepted, Introducing, Defining
<1>6. CASE c.command \in {"define-fun", "define-fun-rec"} /\ Plain(c.name) \in DOMAIN p.fun_key_map
  <2>1. PICK j \in IntroducingIn(t, c.name) : TRUE
    BY <1>1, <1>2, <1>4, <1>6, FunctionsIntroduced DEF ReadFrom
  <2> HIDE DEF s, n
  <2>2. j \in 1..(n - 1) /\ s[j].command \in Introducing /\ s[j].name = c.name
    BY <1>3, <2>1 DEF IntroducingIn
  <2> QED  BY <1>3, <1>6, <2>2 DEF CommandAccepted, Defining
<1>7. CASE \E u \in c.uses : /\ ~(u \in p.var_names \/ Plain(u) \in DOMAIN p.fun_key_map)
                             /\ ~(c.command = "define-fun-rec" /\ u = c.name)
  <2>1. PICK u \in c.uses : /\ ~(u \in p.var_names \/ Plain(u) \in DOMAIN p.fun_key_map)
                            /\ ~(c.command = "define-fun-rec" /\ u = c.name)
    BY <1>7
  <2>2. IntroducingIn(t, u) = {}
    BY <1>1, <1>2, <1>4, <2>1, KnownIsIntroduced DEF ReadFrom
  <2>3. BeforeIn(s, n, u) = {}
    BY <2>1, <2>2, BeforeNext
  <2> HIDE DEF s, n
  <2> QED  BY <1>3, <2>3 DEF CommandAccepted
<1> QED  BY <1>5, <1>6, <1>7

\* No command changes whether functions are expanded.
LEMMA OptionKept ==
    ASSUME NEW p, ParserTyped(p), NEW f \in Names, NEW body
    PROVE  /\ Named(MkFuncDec(p, f), f).expand_functions = p.expand_functions
           /\ MkFuncDef(Named(p, f), f, body).expand_functions = p.expand_functions
           /\ MkFuncRec(MkFuncDec(Named(p, f), f), f, body).expand_functions = p.expand_functions
<1>1. ParserTyped(MkFuncDec(p, f)) /\ MkFuncDec(p, f).expand_functions = p.expand_functions
  BY DeclarationTyped
<1>2. Named(MkFuncDec(p, f), f).expand_functions = p.expand_functions
  BY <1>1, NamedTyped
<1>3. ParserTyped(Named(p, f)) /\ Named(p, f).expand_functions = p.expand_functions
  BY NamedTyped
<1>4. /\ ParserTyped(MkFuncDec(Named(p, f), f))
      /\ MkFuncDec(Named(p, f), f).expand_functions = p.expand_functions
  BY <1>3, DeclarationTyped
<1>5. \A r : ParserTyped(r) => /\ MkFuncDef(r, f, body).expand_functions = r.expand_functions
                               /\ MkFuncRec(r, f, body).expand_functions = r.expand_functions
  BY DEF MkFuncDef, MkFuncRec, ParserTyped
<1> QED  BY <1>2, <1>3, <1>4, <1>5

(***************************************************************************)
(* The invariant of a call. Of a script that is being read or was read:    *)
(* the parser holds what its text says, or the text is none it reads.      *)
(***************************************************************************)
ReadSoFar ==
    /\ text \in Seq(Commands)
    /\ reading # "failed" => /\ ParserReadFrom(text, parser)
                             /\ parser.expand_functions = ExpandsFunctions(front)
    /\ reading = "failed" => ~AcceptedIn(text)
    /\ \A i \in 1..Len(text) : text[i].command = "exit" => i = Len(text) /\ reading # "commands"

\* Then what the kernel works on is the parser's graph, what is printed comes from it,
\* and nothing was thrown.
CallInv ==
    /\ options \in OptionSets
    /\ front \in Fronts
    /\ phase # "idle" => answer.status = "pending"
    /\ phase # "idle" \/ answer.status = OK => ReadSoFar
    /\ phase \in {"kernel", "printing"} \/ answer.status = OK =>
          /\ reading = "ended"
          /\ graph = Graph(parser)
    /\ phase = "printing" \/ answer.status = OK =>
          ~KernelThrows(parser, graph, options.subgraph_pruning)
    /\ answer.status = OK =>
          answer.output = To(DumpSMT2(parser, graph, options.subgraph_pruning))

\* One more step of reading keeps what the call knows of the text.
LEMMA ReadingOn ==
    ASSUME ReadSoFar, Parse, front' = front
    PROVE  ReadSoFar'
<1>1. /\ reading = "commands" /\ text \in Seq(Commands)
      /\ ParserReadFrom(text, parser)
      /\ parser.expand_functions = ExpandsFunctions(front)
      /\ ParserTyped(parser)
  <2>1. reading = "commands"
    BY DEF Parse, EndOfText, ParseCommand, DeclareConst, DeclareFun, DefineFun, DefineFunRec,
           AssertTerm, Ignore, Exit, Refuse, Reads, Takes
  <2> QED  BY <2>1, ReadTyped DEF ReadSoFar
<1>2. \A i \in 1..Len(text) : text[i].command # "exit"
  BY <1>1 DEF ReadSoFar
<1>3. CASE EndOfText
  BY <1>1, <1>2, <1>3 DEF EndOfText, ReadSoFar
<1>4. ASSUME NEW c \in Commands, ParseCommand(c)
      PROVE  ReadSoFar'
  <2> DEFINE s == Append(text, c)
  <2>1. /\ s \in Seq(Commands) /\ Len(s) = Len(text) + 1 /\ s[Len(text) + 1] = c
        /\ \A i \in 1..Len(text) : s[i] = text[i]
        /\ \A i \in 1..Len(s) : i \in 1..Len(text) \/ i = Len(text) + 1
    BY <1>1, Appended
  <2> HIDE DEF s
  <2>2. text' = s
    BY <1>4 DEF ParseCommand, DeclareConst, DeclareFun, DefineFun, DefineFunRec,
                AssertTerm, Ignore, Exit, Refuse, Reads, Takes, s
  <2>3. \A i \in 1..Len(s) : s[i].command = "exit" => i = Len(s) /\ c.command = "exit"
    BY <1>2, <2>1
  <2>4. c.name \in Names
    BY DEF Names
  <2>5. ASSUME ParserReadFrom(s, parser'), reading' = "commands",
               parser'.expand_functions = parser.expand_functions, c.command # "exit"
        PROVE  ReadSoFar'
    BY <1>1, <2>1, <2>2, <2>3, <2>5 DEF ReadSoFar, ExpandsFunctions
  <2>6. CASE DeclareConst(c)
    <3>1. parser'.expand_functions = parser.expand_functions
      BY <1>1, <2>6 DEF DeclareConst, ParserTyped
    <3> QED  BY <1>1, <2>5, <2>6, <3>1, ConstantRead DEF DeclareConst, Reads, s
  <2>7. CASE DeclareFun(c)
    <3>1. parser'.expand_functions = parser.expand_functions
      BY <1>1, <2>4, <2>7, OptionKept DEF DeclareFun
    <3> QED  BY <1>1, <2>5, <2>7, <3>1, FunDeclared DEF DeclareFun, Reads, s
  <2>8. CASE DefineFun(c)
    <3>1. parser'.expand_functions = parser.expand_functions
      BY <1>1, <2>4, <2>8, OptionKept DEF DefineFun
    <3> QED  BY <1>1, <2>5, <2>8, <3>1, FunDefined DEF DefineFun, Reads, s, Known, IsFunction
  <2>9. CASE DefineFunRec(c)
    <3>1. parser'.expand_functions = parser.expand_functions
      BY <1>1, <2>4, <2>9, OptionKept DEF DefineFunRec
    <3> QED  BY <1>1, <2>5, <2>9, <3>1, RecFunDefined DEF DefineFunRec, Reads, s, Known, IsFunction
  <2>10. CASE AssertTerm(c)
    <3>1. parser'.expand_functions = parser.expand_functions
      BY <1>1, <2>10 DEF AssertTerm, ParserTyped
    <3> QED  BY <1>1, <2>5, <2>10, <3>1, AssertionRead DEF AssertTerm, Reads, s, Known, IsFunction
  <2>11. ASSUME c.command \in Ignored \union {"exit"}, parser' = parser
         PROVE  ParserReadFrom(s, parser')
    <3>1. CommandAccepted(s, Len(text) + 1)
      <4>1. c.uses = {}
        BY <2>11, ScriptAssumption DEF Ignored
      <4> QED  BY <2>1, <2>11, <4>1 DEF CommandAccepted, Ignored, Defining
    <3> QED  BY <1>1, <2>11, <3>1, IgnoredRead DEF s
  <2>12. CASE Ignore(c)
    <3>1. c.command # "exit"
      BY <2>12 DEF Ignore, Ignored
    <3> QED  BY <2>5, <2>11, <2>12, <3>1 DEF Ignore, Reads
  <2>13. CASE Exit(c)
    <3>1. ParserReadFrom(s, parser') /\ reading' = "ended" /\ parser' = parser
      BY <2>11, <2>13 DEF Exit
    <3> QED  BY <1>1, <2>1, <2>2, <2>3, <3>1 DEF ReadSoFar, ExpandsFunctions
  <2>14. CASE Refuse(c)
    <3>1. ~AcceptedIn(s)
      BY <1>1, <2>14, RefusedRightly DEF Refuse, Refused, Known, IsFunction, s
    <3>2. reading' = "failed"
      BY <2>14 DEF Refuse
    <3> QED  BY <2>1, <2>2, <2>3, <3>1, <3>2 DEF ReadSoFar
  <2> QED
    BY <1>4, <2>6, <2>7, <2>8, <2>9, <2>10, <2>12, <2>13, <2>14 DEF ParseCommand
<1> QED  BY <1>3, <1>4 DEF Parse

\* Of all statuses only OK is OK.
LEMMA NotOK ==
    /\ \A status \in {"none", "pending", InvalidArgument, RuntimeError, "aborted", "exit 1"} :
          NoOutput(status).status # OK
    /\ NoOutput("pending").status = "pending"
  BY DEF NoOutput, OK, InvalidArgument, RuntimeError

\* A call that has returned without success says nothing.
LEMMA NothingSaid ==
    ASSUME phase' = "idle", answer'.status # OK,
           options' \in OptionSets, front' \in Fronts
    PROVE  CallInv'
  BY DEF CallInv

\* Every step keeps the invariant of calls.
LEMMA CallInvKept ==
    ASSUME CallInv, [Next]_vars
    PROVE  CallInv'
<1>1. CASE UNCHANGED vars
  BY <1>1 DEF CallInv, ReadSoFar, vars, scriptVars, handleVars
<1>2. ASSUME NEW o \in OptionSets, SetOptions(o)  PROVE CallInv'
  BY <1>2, NotOK, NothingSaid DEF SetOptions, CallInv
<1>3. CASE Call
  <2>1. ParserReadFrom(<< >>, NewParser(ExpandsFunctions(front)))
    BY NothingRead DEF ExpandsFunctions
  <2>2. ReadSoFar'
    <3>1. text' = << >> /\ reading' = "commands" /\ parser' = NewParser(ExpandsFunctions(front))
          /\ front' = front
      BY <1>3 DEF Call, handleVars
    <3>2. parser'.expand_functions = ExpandsFunctions(front)
      BY <3>1 DEF NewParser
    <3>3. << >> \in Seq(Commands) /\ 1..Len(<< >>) = {}
      OBVIOUS
    <3> QED  BY <2>1, <3>1, <3>2, <3>3 DEF ReadSoFar, ExpandsFunctions
  <2>3. answer'.status = "pending" /\ answer'.status # OK /\ phase' = "reading"
        /\ options' = options /\ front' = front
    BY <1>3, NotOK DEF Call, handleVars
  <2> QED  BY <2>2, <2>3 DEF CallInv
<1>4. ASSUME NEW what \in {"handle", "text", "output", "empty"}, CallWithout(what)  PROVE CallInv'
  BY <1>4, NotOK, NothingSaid DEF CallWithout, CallInv
<1>5. CASE UnknownOption
  BY <1>5, NotOK, NothingSaid DEF UnknownOption, CallInv, handleVars
<1>6. ASSUME Throw, options' = options, front' = front  PROVE CallInv'
  <2>1. phase' = "idle" /\ answer'.status # OK
    BY <1>6, NotOK DEF Throw
  <2> QED  BY <1>6, <2>1, NothingSaid DEF CallInv
<1>7. CASE CannotOpen \/ ReadingFails \/ TableTooSmall \/ KernelFails \/ NoMemory
  BY <1>6, <1>7 DEF CannotOpen, ReadingFails, TableTooSmall, KernelFails, NoMemory
<1>8. CASE ReadOn
  <2>1. /\ phase = "reading" /\ phase' = phase /\ Parse
        /\ options' = options /\ front' = front /\ answer' = answer
    BY <1>8 DEF ReadOn, handleVars
  <2>2. ReadSoFar /\ answer.status = "pending" /\ answer.status # OK
    BY <2>1 DEF CallInv, OK
  <2>3. ReadSoFar'
    BY <2>1, <2>2, ReadingOn
  <2> QED  BY <2>1, <2>2, <2>3 DEF CallInv
<1>9. ASSUME UNCHANGED <<scriptVars, front>>, ReadSoFar  PROVE ReadSoFar'
  BY <1>9 DEF ReadSoFar, scriptVars, ExpandsFunctions
<1>10. CASE MakeKernel
  <2>1. /\ phase = "reading" /\ phase' = "kernel" /\ reading = "ended" /\ reading' = reading
        /\ options' = options /\ front' = front /\ answer' = answer
        /\ parser' = parser /\ graph' = Graph(parser) /\ UNCHANGED <<scriptVars, front>>
    BY <1>10 DEF MakeKernel, handleVars, scriptVars
  <2>2. answer.status = "pending" /\ answer.status # OK /\ ReadSoFar'
    BY <1>9, <2>1 DEF CallInv, OK
  <2> QED  BY <2>1, <2>2 DEF CallInv
<1>11. CASE ApplyKernel
  <2>1. /\ phase = "kernel" /\ phase' = "printing" /\ reading' = reading
        /\ options' = options /\ front' = front /\ answer' = answer
        /\ parser' = parser /\ graph' = graph /\ UNCHANGED <<scriptVars, front>>
        /\ ~KernelThrows(parser, graph, options.subgraph_pruning)
    BY <1>11 DEF ApplyKernel, handleVars, scriptVars
  <2>2. answer.status = "pending" /\ answer.status # OK /\ ReadSoFar'
    BY <1>9, <2>1 DEF CallInv, OK
  <2> QED  BY <2>1, <2>2 DEF CallInv
<1>12. CASE PrintScript
  <2>1. /\ phase = "printing" /\ phase' = "idle" /\ reading' = reading
        /\ options' = options /\ front' = front
        /\ answer'.output = To(DumpSMT2(parser, graph, options.subgraph_pruning))
        /\ parser' = parser /\ graph' = graph /\ UNCHANGED <<scriptVars, front>>
    BY <1>12 DEF PrintScript, Return, handleVars, scriptVars
  <2>2. ReadSoFar'
    BY <1>9, <2>1 DEF CallInv
  <2> QED  BY <2>1, <2>2 DEF CallInv
<1> QED
  BY <1>1, <1>2, <1>3, <1>4, <1>5, <1>7, <1>8, <1>10, <1>11, <1>12 DEF Next, Step

\* At every step of a call the parser holds what the text read so far says, and the
\* graph is that of the parser.
THEOREM CallInvariant == Spec => []CallInv
<1>1. Init => CallInv
  BY NotOK DEF Init, CallInv
<1>2. CallInv /\ [Next]_vars => CallInv'
  BY CallInvKept
<1> QED  BY <1>1, <1>2, PTL DEF Spec

(***************************************************************************)
(* What the assertions depend on: the least set that has them and all that *)
(* the names in its commands refer to.                                     *)
(***************************************************************************)
DependsIn(t) ==
    Reached(AssertsIn(t), [i \in 1..Len(t) |-> {ReferentIn(t, i, u) : u \in t[i].uses}], Len(t))

\* In an accepted text each use refers to an earlier command that introduces the name,
\* or to the recursive function it is in.
LEMMA ReferentBound ==
    ASSUME NEW t \in Seq(Commands), AcceptedIn(t), NEW i \in 1..Len(t), NEW u \in t[i].uses
    PROVE  LET r == ReferentIn(t, i, u)
           IN /\ r \in 1..Len(t)
              /\ r \in 1..i
              /\ t[r].command \in Introducing
              /\ t[r].name = u
              /\ r = i => t[i].command = "define-fun-rec"
<1> DEFINE r == ReferentIn(t, i, u)
<1>1. BeforeIn(t, i, u) # {}
  BY DEF AcceptedIn, CommandAccepted
<1>2. r \in BeforeIn(t, i, u)
  BY <1>1, ReferentRight
<1> HIDE DEF r
<1>3. /\ r \in 1..Len(t) /\ t[r].command \in Introducing /\ t[r].name = u
      /\ r < i \/ (r = i /\ t[r].command = "define-fun-rec")
  BY <1>2 DEF BeforeIn
<1>4. Len(t) \in Nat
  OBVIOUS
<1>5. r \in 1..i /\ (r = i => t[i].command = "define-fun-rec")
  BY <1>3, <1>4
<1> QED  BY <1>3, <1>5 DEF r

\* What is depended on has the assertions and all that its own uses refer to.
LEMMA DependsClosed ==
    ASSUME NEW t \in Seq(Commands), AcceptedIn(t)
    PROVE  /\ DependsIn(t) \subseteq 1..Len(t)
           /\ AssertsIn(t) \subseteq DependsIn(t)
           /\ \A i \in DependsIn(t) : \A u \in t[i].uses : ReferentIn(t, i, u) \in DependsIn(t)
<1> DEFINE to == [i \in 1..Len(t) |-> {ReferentIn(t, i, u) : u \in t[i].uses}]
           D == Reached(AssertsIn(t), to, Len(t))
<1>1. Len(t) \in Nat /\ AssertsIn(t) \in SUBSET (1..Len(t))
  BY DEF AssertsIn
<1>2. \A i \in 1..Len(t) : to[i] \subseteq 1..i /\ to[i] \subseteq 1..Len(t)
  BY ReferentBound
<1>3. \A i \in 1..Len(t) : \A u \in t[i].uses : ReferentIn(t, i, u) \in to[i]
  OBVIOUS
<1> HIDE DEF to
<1>4. D \subseteq 1..Len(t)
  BY <1>1, <1>2, ReachedWithin
<1>5. AssertsIn(t) \subseteq D /\ \A i \in D : to[i] \subseteq D
  BY <1>1, <1>2, ReachedClosed
<1>6. D = DependsIn(t)
  BY DEF DependsIn, to
<1> HIDE DEF D
<1> QED  BY <1>3, <1>4, <1>5, <1>6

\* And it is the least such set.
LEMMA DependsLeast ==
    ASSUME NEW t \in Seq(Commands), NEW S \in SUBSET (1..Len(t)),
           AssertsIn(t) \subseteq S,
           \A i \in S : \A u \in t[i].uses : ReferentIn(t, i, u) \in S
    PROVE  DependsIn(t) \subseteq S
<1> DEFINE to == [i \in 1..Len(t) |-> {ReferentIn(t, i, u) : u \in t[i].uses}]
<1>1. Len(t) \in Nat
  OBVIOUS
<1>2. \A i \in S : to[i] \subseteq S
  OBVIOUS
<1> HIDE DEF to
<1>3. Reached(AssertsIn(t), to, Len(t)) \subseteq S
  BY <1>1, <1>2, ReachedWithin
<1> QED  BY <1>3 DEF DependsIn, to

\* What is no assertion is depended on because another command uses it.
LEMMA DependedHasUser ==
    ASSUME NEW t \in Seq(Commands), AcceptedIn(t), NEW r \in DependsIn(t),
           t[r].command # "assert"
    PROVE  \E i \in DependsIn(t) : i # r /\ \E u \in t[i].uses : ReferentIn(t, i, u) = r
<1> SUFFICES ASSUME \A i \in DependsIn(t) : i # r => \A u \in t[i].uses : ReferentIn(t, i, u) # r
             PROVE  FALSE
  BY Zenon
<1> DEFINE S == DependsIn(t) \ {r}
<1>1. /\ DependsIn(t) \subseteq 1..Len(t)
      /\ AssertsIn(t) \subseteq DependsIn(t)
      /\ \A i \in DependsIn(t) : \A u \in t[i].uses : ReferentIn(t, i, u) \in DependsIn(t)
  BY DependsClosed
<1>2. r \notin AssertsIn(t)
  BY DEF AssertsIn
<1>3. S \in SUBSET (1..Len(t)) /\ AssertsIn(t) \subseteq S
  BY <1>1, <1>2
<1>4. \A i \in S : \A u \in t[i].uses : ReferentIn(t, i, u) \in S
  BY <1>1
<1>5. r \notin S
  OBVIOUS
<1> HIDE DEF S
<1>6. DependsIn(t) \subseteq S
  BY <1>3, <1>4, DependsLeast
<1> QED  BY <1>5, <1>6

(***************************************************************************)
(* What a name stands for: where its definition is expanded, what the      *)
(* names in that stand for.                                                *)
(***************************************************************************)
\* A function whose applications are nodes.
KeptFunction(p, k) == k \in Ids(p) /\ (p.funs[k].kind = "def" => ~p.expand_functions)

\* x is the node of an application of what command r introduces.
StandsFor(t, p, place, r, x) ==
    \/ t[r].command = "declare-const" /\ x = Var(t[r].name)
    \/ /\ t[r].command = "define-fun-rec"
       /\ t[r].name \in t[r].uses
       /\ x = UFApply(Plain(t[r].name))
    \/ \E k \in Ids(p) : place[k] = r /\ KeptFunction(p, k) /\ x \in ApplyFun(p, k)

\* The parts of a function node have their types.
LEMMA FunctionTyped ==
    ASSUME NEW t, NEW p, NEW place, ReadFrom(t, p, place)
    PROVE  /\ Len(p.funs) \in Nat
           /\ \A k \in Ids(p) : /\ p.funs[k] \in FunNodes
                               /\ p.funs[k].kind \in {"dec", "def", "rec"}
                               /\ p.funs[k].name \in FNames
                               /\ p.funs[k].body \in SUBSET Nodes
                               /\ k \in Nat
<1>1. p.funs \in Seq(FunNodes)
  BY DEF ReadFrom, ParserTyped
<1>2. Len(p.funs) \in Nat /\ \A k \in Ids(p) : p.funs[k] \in FunNodes /\ k \in Nat
  BY <1>1 DEF Ids
<1> QED  BY <1>2 DEF FunNodes

\* The three things a use may mean: a constant, the recursive function it is in, the
\* application of an earlier function.
LEMMA MeantIs ==
    ASSUME NEW t \in Seq(Commands), NEW p, NEW place, ReadFrom(t, p, place),
           NEW i \in 1..Len(t), NEW u \in t[i].uses
    PROVE  LET r == ReferentIn(t, i, u)
               meant == MeantBy(t, p, place, i, u)
           IN \/ t[r].command = "declare-const" /\ meant = {Var(u)}
              \/ r = i /\ t[i].command = "define-fun-rec" /\ meant = {UFApply(Plain(u))}
              \/ r # i /\ \E k \in Ids(p) : place[k] = r /\ meant = ApplyFun(p, k)
<1> DEFINE r == ReferentIn(t, i, u)
           meant == MeantBy(t, p, place, i, u)
<1>1. /\ r \in 1..Len(t) /\ t[r].command \in Introducing
      /\ r = i => t[i].command = "define-fun-rec"
  BY ReferentBound DEF ReadFrom
<1>2. CASE t[r].command = "declare-const"
  <2>1. meant = {Var(u)}
    BY <1>2 DEF MeantBy
  <2> QED  BY <1>2, <2>1
<1>3. CASE t[r].command # "declare-const" /\ r = i
  <2>1. meant = {UFApply(Plain(u))}
    BY <1>3 DEF MeantBy
  <2> QED  BY <1>1, <1>3, <2>1
<1>4. CASE t[r].command # "declare-const" /\ r # i
  <2>1. meant = ApplyFun(p, MadeAt(place, r))
    BY <1>4 DEF MeantBy
  <2> HIDE DEF meant, r
  <2>2. t[r].command \in OfFunctions
    BY <1>1, <1>4 DEF Introducing, OfFunctions
  <2>3. PICK k \in Ids(p) : place[k] = r
    BY <1>1, <2>2 DEF ReadFrom, FunctionsMade
  <2>4. MadeAt(place, place[k]) = k
    BY FunctionTyped, MakerIs DEF ReadFrom
  <2> QED  BY <1>4, <2>1, <2>3, <2>4 DEF r, meant
<1> QED  BY <1>2, <1>3, <1>4

\* The function of a node that has one.
LEMMA OperandStands ==
    ASSUME NEW t \in Seq(Commands), NEW p, NEW place, ReadFrom(t, p, place),
           NEW r, NEW x, StandsFor(t, p, place, r, x), x.at \in {"apply", "rec"}
    PROVE  /\ x.id \in Ids(p)
           /\ place[x.id] = r
           /\ KeptFunction(p, x.id)
           /\ p.funs[x.id].kind = IF x.at = "rec" THEN "rec" ELSE "def"
           /\ x.name = p.funs[x.id].name
<1>1. /\ x # Var(t[r].name)
      /\ x # UFApply(Plain(t[r].name))
  BY DEF Var, UFApply
<1>2. PICK k \in Ids(p) : place[k] = r /\ KeptFunction(p, k) /\ x \in ApplyFun(p, k)
  BY <1>1 DEF StandsFor
<1>3. p.funs[k].kind \in {"dec", "def", "rec"}
  BY FunctionTyped
<1>4. CASE p.funs[k].kind = "dec"
  BY <1>2, <1>4 DEF ApplyFun, UFApply
<1>5. CASE p.funs[k].kind = "rec"
  <2>1. x = RecApply(k, p.funs[k].name)
    BY <1>2, <1>5 DEF ApplyFun
  <2> QED  BY <1>2, <1>5, <2>1 DEF RecApply
<1>6. CASE p.funs[k].kind = "def"
  <2>1. x = FuncApply(k, p.funs[k].name)
    BY <1>2, <1>6 DEF ApplyFun, KeptFunction
  <2> QED  BY <1>2, <1>6, <2>1 DEF FuncApply
<1> QED  BY <1>3, <1>4, <1>5, <1>6

\* The nodes of a command are applications of what it leads to, of functions before it.
LEMMA NodesStandFor ==
    ASSUME NEW t \in Seq(Commands), NEW p, NEW place, ReadFrom(t, p, place),
           NEW S \in SUBSET (1..Len(t)),
           \A i \in S : \A u \in t[i].uses : ReferentIn(t, i, u) \in S,
           NEW i \in S, NEW x \in TermAt(t, p, place, i)
    PROVE  \E r \in S : StandsFor(t, p, place, r, x) /\ (x.at \in {"apply", "rec"} => r < i)
<1> DEFINE Right(j) == \E r \in S : StandsFor(t, p, place, r, x)
                                    /\ (x.at \in {"apply", "rec"} => r < j)
           Wrong == {j \in S : x \in TermAt(t, p, place, j) /\ ~Right(j)}
<1> SUFFICES ASSUME Wrong # {}  PROVE FALSE
  <2>1. i \notin Wrong
    OBVIOUS
  <2> QED  BY <2>1
<1>1. Wrong \in SUBSET Nat
  <2>1. S \subseteq Nat /\ Wrong \subseteq S
    OBVIOUS
  <2> QED  BY <2>1
<1>2. PICK j \in Wrong : \A l \in Wrong : j <= l
  <2> HIDE DEF Wrong
  <2> QED  BY <1>1, SetHasFirst
<1>3. j \in S /\ j \in Nat /\ x \in TermAt(t, p, place, j) /\ ~Right(j)
  BY <1>2
<1>4. \A l \in S : l < j /\ x \in TermAt(t, p, place, l) => Right(l)
  <2> SUFFICES ASSUME NEW l \in S, l < j, x \in TermAt(t, p, place, l), ~Right(l)  PROVE FALSE
    OBVIOUS
  <2>1. l \in Wrong
    OBVIOUS
  <2>2. j <= l /\ l \in Nat
    <3> HIDE DEF Wrong
    <3> QED  BY <1>1, <1>2, <2>1
  <2> QED  BY <1>3, <2>2
<1> HIDE DEF Wrong
<1>5. PICK u \in t[j].uses : x \in MeantBy(t, p, place, j, u)
  BY <1>3 DEF TermAt
<1> DEFINE r == ReferentIn(t, j, u)
<1>6. r \in S /\ r \in 1..j /\ t[r].name = u /\ r \in Nat
  <2>1. j \in 1..Len(t)
    BY <1>3
  <2> QED  BY <1>3, <2>1, ReferentBound DEF ReadFrom
<1>7. \/ t[r].command = "declare-const" /\ x = Var(u)
      \/ r = j /\ t[j].command = "define-fun-rec" /\ x = UFApply(Plain(u))
      \/ r # j /\ \E k \in Ids(p) : place[k] = r /\ x \in ApplyFun(p, k)
  BY <1>3, <1>5, MeantIs
<1> HIDE DEF r
<1>8. CASE t[r].command = "declare-const" /\ x = Var(u)
  <2>1. x.at = "var"
    BY <1>8 DEF Var
  <2>2. StandsFor(t, p, place, r, x)
    BY <1>6, <1>8 DEF StandsFor
  <2> QED  BY <1>3, <1>6, <2>1, <2>2
<1>9. CASE r = j /\ t[j].command = "define-fun-rec" /\ x = UFApply(Plain(u))
  <2>1. x.at = "uf"
    BY <1>9 DEF UFApply
  <2>2. StandsFor(t, p, place, r, x)
    BY <1>5, <1>6, <1>9 DEF StandsFor
  <2> QED  BY <1>3, <1>6, <2>1, <2>2
<1>10. CASE r # j /\ \E k \in Ids(p) : place[k] = r /\ x \in ApplyFun(p, k)
  <2>1. PICK k \in Ids(p) : place[k] = r /\ x \in ApplyFun(p, k)
    BY <1>10
  <2>2. r < j
    BY <1>3, <1>6, <1>10
  <2>3. CASE KeptFunction(p, k)
    <3>1. StandsFor(t, p, place, r, x)
      BY <2>1, <2>3 DEF StandsFor
    <3> QED  BY <1>3, <1>6, <2>2, <3>1
  <2>4. CASE ~KeptFunction(p, k)
    <3>1. p.funs[k].kind = "def" /\ p.expand_functions
      BY <2>4 DEF KeptFunction, ReadFrom, ParserTyped
    <3>2. x \in p.funs[k].body
      BY <2>1, <3>1 DEF ApplyFun
    <3>3. x \in TermAt(t, p, place, r)
      BY <2>1, <3>2 DEF ReadFrom, TermsRead
    <3>4. PICK m \in S : StandsFor(t, p, place, m, x) /\ (x.at \in {"apply", "rec"} => m < r)
      BY <1>4, <1>6, <2>2, <3>3
    <3>5. m \in Nat /\ (m < r => m < j)
      BY <1>3, <1>6, <2>2
    <3> QED  BY <1>3, <3>4, <3>5
  <2> QED  BY <2>3, <2>4
<1> QED  BY <1>7, <1>8, <1>9, <1>10

(***************************************************************************)
(* The kernel's graph is of what the assertions depend on.                 *)
(***************************************************************************)
LEMMA PlacesApart ==
    ASSUME NEW t, NEW p, NEW place, FunctionsMade(t, p, place), Len(p.funs) \in Nat,
           Len(t) \in Nat, NEW k \in Ids(p), NEW l \in Ids(p), place[k] = place[l]
    PROVE  k = l
  BY MakerIs

\* The functions that are operands of some nodes are those these apply by their node.
LEMMA InOperandFunctions ==
    ASSUME NEW nodes, NEW k
    PROVE  k \in OperandFunctions(nodes) <=> \E x \in nodes : x.at \in {"apply", "rec"} /\ x.id = k
  BY DEF OperandFunctions

\* A body applies functions made before its own.
LEMMA OperandsLower ==
    ASSUME NEW t \in Seq(Commands), NEW p, NEW place, ReadFrom(t, p, place), NEW k \in Ids(p)
    PROVE  OperandFunctions(p.funs[k].body) \subseteq 1..(k - 1)
<1> SUFFICES ASSUME NEW l \in OperandFunctions(p.funs[k].body)  PROVE l \in 1..(k - 1)
  OBVIOUS
<1>1. PICK x \in p.funs[k].body : x.at \in {"apply", "rec"} /\ x.id = l
  BY InOperandFunctions
<1>2. /\ x \in TermAt(t, p, place, place[k])
      /\ place[k] \in 1..Len(t) /\ Len(t) \in Nat
      /\ AcceptedIn(t)
  BY <1>1 DEF ReadFrom, TermsRead, FunctionsMade
<1>3. \A i \in 1..Len(t) : \A u \in t[i].uses : ReferentIn(t, i, u) \in 1..Len(t)
  BY <1>2, ReferentBound
<1>4. PICK r \in 1..Len(t) : StandsFor(t, p, place, r, x) /\ r < place[k]
  BY <1>1, <1>2, <1>3, NodesStandFor
<1>5. l \in Ids(p) /\ place[l] = r
  BY <1>1, <1>4, OperandStands
<1>6. ~(k < l) /\ k # l
  <2>1. k < l => place[k] < place[l]
    BY <1>5 DEF ReadFrom, FunctionsMade
  <2> QED  BY <1>2, <1>4, <1>5, <2>1
<1>7. l \in 1..Len(p.funs) /\ k \in 1..Len(p.funs) /\ Len(p.funs) \in Nat
  BY <1>5, FunctionTyped DEF Ids
<1> QED  BY <1>6, <1>7

\* The kernel's graph has the assertions, with each applied function its body, and
\* nothing else.
LEMMA GraphClosed ==
    ASSUME NEW t \in Seq(Commands), NEW p, NEW place, ReadFrom(t, p, place)
    PROVE  LET g == Graph(p)
           IN /\ g.asserted = TermsAt(t, p, place, AssertsIn(t))
              /\ g.asserted \subseteq g.nodes
              /\ g.funs \subseteq Ids(p)
              /\ \A k \in g.funs : p.funs[k].body \subseteq g.nodes
              /\ \A x \in g.nodes : x \in g.asserted \/ \E k \in g.funs : x \in p.funs[k].body
              /\ \A x \in g.nodes : x.at \in {"apply", "rec"} => x.id \in g.funs
<1> DEFINE A == SimplifyAssertions(p)
           to == [id \in DOMAIN p.funs |-> OperandFunctions(p.funs[id].body)]
           start == OperandFunctions(A)
           V == Reached(start, to, Len(p.funs))
           g == Graph(p)
<1>1. A = TermsAt(t, p, place, AssertsIn(t)) /\ AcceptedIn(t)
  BY DEF ReadFrom, TermsRead
<1>2. Len(p.funs) \in Nat /\ DOMAIN p.funs = 1..Len(p.funs) /\ Ids(p) = 1..Len(p.funs)
  BY FunctionTyped DEF ReadFrom, ParserTyped, Ids
<1>3. \A k \in 1..Len(p.funs) : to[k] \subseteq 1..k /\ to[k] \subseteq 1..Len(p.funs)
  <2> TAKE k \in 1..Len(p.funs)
  <2>1. to[k] = OperandFunctions(p.funs[k].body)
    BY <1>2
  <2>2. to[k] \subseteq 1..(k - 1)
    BY <1>2, <2>1, OperandsLower
  <2>3. \A l \in 1..(k - 1) : l \in 1..k /\ l \in 1..Len(p.funs)
    BY <1>2
  <2> HIDE DEF to
  <2> QED  BY <2>2, <2>3
<1>4. start \in SUBSET (1..Len(p.funs))
  <2> SUFFICES ASSUME NEW k \in start  PROVE k \in Ids(p)
    BY <1>2
  <2>1. PICK x \in A : x.at \in {"apply", "rec"} /\ x.id = k
    BY InOperandFunctions
  <2>2. PICK i \in AssertsIn(t) : x \in TermAt(t, p, place, i)
    <3> HIDE DEF A
    <3> QED  BY <1>1, <2>1, InTermsAt
  <2>3. \A j \in 1..Len(t) : \A u \in t[j].uses : ReferentIn(t, j, u) \in 1..Len(t)
    BY <1>1, ReferentBound
  <2>4. i \in 1..Len(t)
    BY <2>2 DEF AssertsIn
  <2>5. PICK r \in 1..Len(t) : StandsFor(t, p, place, r, x)
    BY <2>2, <2>3, <2>4, NodesStandFor
  <2> QED  BY <2>1, <2>5, OperandStands
<1>5. start \subseteq V /\ \A k \in V : to[k] \subseteq V
  <2> HIDE DEF to, start
  <2> QED  BY <1>2, <1>3, <1>4, ReachedClosed
<1>6. V \subseteq 1..Len(p.funs)
  <2> HIDE DEF to, start
  <2> QED  BY <1>2, <1>3, <1>4, ReachedWithin
<1>7. /\ g.asserted = A
      /\ g.funs = V
      /\ g.nodes = A \union UNION {p.funs[id].body : id \in V}
  BY DEF Graph, VisitedFunctions
<1>8. \A k \in V : to[k] = OperandFunctions(p.funs[k].body)
  BY <1>2, <1>6
<1> HIDE DEF A, V, g, to
<1>9. \A x \in g.nodes : x \in A \/ \E k \in V : x \in p.funs[k].body
  BY <1>7
<1>10. \A k \in V : p.funs[k].body \subseteq g.nodes
  BY <1>7
<1>11. \A x \in g.nodes : x.at \in {"apply", "rec"} => x.id \in V
  <2> SUFFICES ASSUME NEW x \in g.nodes, x.at \in {"apply", "rec"}  PROVE x.id \in V
    OBVIOUS
  <2>1. CASE x \in A
    BY <1>5, <2>1, InOperandFunctions
  <2>2. ASSUME NEW k \in V, x \in p.funs[k].body  PROVE x.id \in V
    <3>1. x.id \in OperandFunctions(p.funs[k].body)
      BY <2>2, InOperandFunctions
    <3> QED  BY <1>5, <1>8, <3>1
  <2> QED  BY <1>9, <2>1, <2>2
<1> QED  BY <1>1, <1>2, <1>6, <1>7, <1>9, <1>10, <1>11 DEF g

\* All that a depended command applies is in the graph.
LEMMA DependedInGraph ==
    ASSUME NEW t \in Seq(Commands), NEW p, NEW place, ReadFrom(t, p, place)
    PROVE  /\ \A i \in DependsIn(t) : TermAt(t, p, place, i) \subseteq Graph(p).nodes
           /\ \A k \in Ids(p) :
                 place[k] \in DependsIn(t) /\ KeptFunction(p, k) /\ p.funs[k].kind # "dec"
                 => k \in Graph(p).funs
<1> DEFINE g == Graph(p)
           Visited(i) == \A k \in Ids(p) : place[k] = i /\ KeptFunction(p, k) /\ p.funs[k].kind # "dec"
                                           => k \in g.funs
           S == {i \in 1..Len(t) : TermAt(t, p, place, i) \subseteq g.nodes /\ Visited(i)}
<1>1. /\ AcceptedIn(t) /\ FunctionsMade(t, p, place)
      /\ \A k \in Ids(p) : p.funs[k].body = TermAt(t, p, place, place[k])
      /\ Len(t) \in Nat
  BY DEF ReadFrom, TermsRead
<1>2. /\ g.asserted = TermsAt(t, p, place, AssertsIn(t))
      /\ g.asserted \subseteq g.nodes
      /\ \A k \in g.funs : p.funs[k].body \subseteq g.nodes
      /\ \A x \in g.nodes : x.at \in {"apply", "rec"} => x.id \in g.funs
  BY GraphClosed
<1> HIDE DEF g
<1>3. AssertsIn(t) \subseteq S
  <2> SUFFICES ASSUME NEW i \in AssertsIn(t)  PROVE i \in S
    OBVIOUS
  <2>1. i \in 1..Len(t) /\ t[i].command = "assert"
    BY DEF AssertsIn
  <2>2. TermAt(t, p, place, i) \subseteq g.nodes
    BY <1>2, InTermsAt
  <2>3. Visited(i)
    <3> SUFFICES ASSUME NEW k \in Ids(p), place[k] = i  PROVE FALSE
      OBVIOUS
    <3>1. t[i].command \in OfFunctions
      BY <1>1 DEF FunctionsMade, FunctionMade
    <3> QED  BY <2>1, <3>1 DEF OfFunctions, Defining
  <2> QED  BY <2>1, <2>2, <2>3
<1>4. ASSUME NEW i \in S, NEW u \in t[i].uses
      PROVE  ReferentIn(t, i, u) \in S
  <2> DEFINE r == ReferentIn(t, i, u)
             meant == MeantBy(t, p, place, i, u)
  <2>1. i \in 1..Len(t) /\ TermAt(t, p, place, i) \subseteq g.nodes
    OBVIOUS
  <2>2. r \in 1..Len(t)
    BY <1>1, <2>1, ReferentBound
  <2>3. meant \subseteq g.nodes
    BY <2>1 DEF TermAt
  <2>4. \/ t[r].command = "declare-const"
        \/ r = i
        \/ \E k \in Ids(p) : place[k] = r /\ meant = ApplyFun(p, k)
    BY <2>1, MeantIs
  <2> HIDE DEF r, meant
  <2>5. CASE t[r].command = "declare-const"
    <3>1. t[r].uses = {}
      <4>1. t[r] \in Commands
        BY <2>2
      <4> QED  BY <4>1, <2>5, ScriptAssumption
    <3>2. TermAt(t, p, place, r) = {}
      BY <3>1 DEF TermAt
    <3>3. Visited(r)
      BY <1>1, <2>5 DEF FunctionsMade, FunctionMade, OfFunctions, Defining
    <3> QED  BY <2>2, <3>2, <3>3 DEF r
  <2>6. CASE r = i
    BY <2>6 DEF r
  <2>7. ASSUME NEW k \in Ids(p), place[k] = r, meant = ApplyFun(p, k)
        PROVE  r \in S
    <3>1. \A l \in Ids(p) : place[l] = r => l = k
      BY <1>1, <2>7, FunctionTyped, PlacesApart
    <3>2. p.funs[k].kind \in {"dec", "def", "rec"} /\ p.funs[k].body = TermAt(t, p, place, r)
      BY <1>1, <2>7, FunctionTyped
    <3>3. CASE p.funs[k].kind = "dec"
      <4>1. t[r].command = "declare-fun"
        <5>1. FunctionMade(t, p, place, k)
          BY <1>1 DEF FunctionsMade
        <5> QED  BY <2>7, <3>3, <5>1 DEF FunctionMade, KindOf, OfFunctions, Defining
      <4>2. t[r].uses = {}
        <5>1. t[r] \in Commands
          BY <2>2
        <5> QED  BY <4>1, <5>1, ScriptAssumption
      <4>3. TermAt(t, p, place, r) = {}
        BY <4>2 DEF TermAt
      <4>4. Visited(r)
        BY <3>1, <3>3
      <4> QED  BY <2>2, <4>3, <4>4
    <3>4. CASE p.funs[k].kind # "dec" /\ KeptFunction(p, k)
      <4>1. \E x \in ApplyFun(p, k) : x.at \in {"apply", "rec"} /\ x.id = k
        BY <3>2, <3>4 DEF ApplyFun, KeptFunction, FuncApply, RecApply
      <4>2. k \in g.funs
        BY <1>2, <2>3, <2>7, <4>1
      <4>3. TermAt(t, p, place, r) \subseteq g.nodes
        BY <1>2, <3>2, <4>2
      <4>4. Visited(r)
        BY <3>1, <4>2
      <4> QED  BY <2>2, <4>3, <4>4
    <3>5. CASE ~KeptFunction(p, k)
      <4>1. p.funs[k].kind = "def" /\ p.expand_functions
        BY <3>5 DEF KeptFunction, ReadFrom, ParserTyped
      <4>2. ApplyFun(p, k) = p.funs[k].body
        BY <4>1 DEF ApplyFun
      <4>3. TermAt(t, p, place, r) \subseteq g.nodes
        BY <2>3, <2>7, <3>2, <4>2
      <4>4. Visited(r)
        BY <3>1, <3>5
      <4> QED  BY <2>2, <4>3, <4>4
    <3> QED  BY <3>3, <3>4, <3>5
  <2> QED  BY <2>4, <2>5, <2>6, <2>7 DEF r
<1>5. S \in SUBSET (1..Len(t))
  OBVIOUS
<1>6. DependsIn(t) \subseteq S
  <2> HIDE DEF S
  <2> QED  BY <1>3, <1>4, <1>5, DependsLeast
<1>7. \A i \in DependsIn(t) : TermAt(t, p, place, i) \subseteq g.nodes /\ Visited(i)
  BY <1>6
<1> QED  BY <1>7 DEF g

\* A node of a command that is depended on stands for a command that is depended on.
LEMMA NodesDependedOn ==
    ASSUME NEW t \in Seq(Commands), NEW p, NEW place, ReadFrom(t, p, place),
           NEW i \in DependsIn(t), NEW x \in TermAt(t, p, place, i)
    PROVE  \E r \in DependsIn(t) : StandsFor(t, p, place, r, x)
<1>1. /\ DependsIn(t) \in SUBSET (1..Len(t))
      /\ \A j \in DependsIn(t) : \A u \in t[j].uses : ReferentIn(t, j, u) \in DependsIn(t)
  BY DependsClosed DEF ReadFrom
<1> QED  BY <1>1, NodesStandFor

\* The functions of the graph are those depended on whose applications are nodes with
\* their body.
LEMMA GraphFunctions ==
    ASSUME NEW t \in Seq(Commands), NEW p, NEW place, ReadFrom(t, p, place), NEW k
    PROVE  k \in Graph(p).funs
              <=> /\ k \in Ids(p) /\ KeptFunction(p, k) /\ p.funs[k].kind # "dec"
                  /\ place[k] \in DependsIn(t)
<1> DEFINE A == SimplifyAssertions(p)
           to == [id \in DOMAIN p.funs |-> OperandFunctions(p.funs[id].body)]
           start == OperandFunctions(A)
           V == Reached(start, to, Len(p.funs))
           S == {l \in Ids(p) : /\ KeptFunction(p, l) /\ p.funs[l].kind # "dec"
                                /\ place[l] \in DependsIn(t)}
<1>1. /\ A = TermsAt(t, p, place, AssertsIn(t)) /\ AcceptedIn(t)
      /\ \A l \in Ids(p) : p.funs[l].body = TermAt(t, p, place, place[l])
  BY DEF ReadFrom, TermsRead
<1>2. Len(p.funs) \in Nat /\ DOMAIN p.funs = Ids(p)
  BY FunctionTyped DEF ReadFrom, ParserTyped, Ids
<1>3. ASSUME NEW i \in DependsIn(t)
      PROVE  OperandFunctions(TermAt(t, p, place, i)) \subseteq S
  <2> SUFFICES ASSUME NEW l \in OperandFunctions(TermAt(t, p, place, i))  PROVE l \in S
    OBVIOUS
  <2>1. PICK x \in TermAt(t, p, place, i) : x.at \in {"apply", "rec"} /\ x.id = l
    BY InOperandFunctions
  <2>2. PICK r \in DependsIn(t) : StandsFor(t, p, place, r, x)
    BY NodesDependedOn
  <2> QED  BY <2>1, <2>2, OperandStands
<1>4. start \subseteq S
  <2> SUFFICES ASSUME NEW l \in start  PROVE l \in S
    OBVIOUS
  <2>1. PICK x \in A : x.at \in {"apply", "rec"} /\ x.id = l
    BY InOperandFunctions
  <2>2. PICK i \in AssertsIn(t) : x \in TermAt(t, p, place, i)
    <3> HIDE DEF A
    <3> QED  BY <1>1, <2>1, InTermsAt
  <2>3. i \in DependsIn(t)
    BY <1>1, <2>2, DependsClosed
  <2>4. l \in OperandFunctions(TermAt(t, p, place, i))
    BY <2>1, <2>2, InOperandFunctions
  <2> HIDE DEF S
  <2> QED  BY <1>3, <2>3, <2>4
<1>5. \A l \in S : to[l] \subseteq S
  <2> TAKE l \in S
  <2>1. to[l] = OperandFunctions(TermAt(t, p, place, place[l])) /\ place[l] \in DependsIn(t)
    BY <1>1, <1>2
  <2> HIDE DEF S, to
  <2> QED  BY <1>3, <2>1
<1>6. V \subseteq S
  <2> HIDE DEF S, to, start
  <2> QED  BY <1>2, <1>4, <1>5, ReachedWithin
<1>7. Graph(p).funs = V
  BY DEF Graph, VisitedFunctions
<1>8. k \in Graph(p).funs => k \in S
  <2> HIDE DEF S, V
  <2> QED  BY <1>6, <1>7
<1>9. k \in S => k \in Graph(p).funs
  BY DependedInGraph
<1> QED  BY <1>8, <1>9

\* The nodes of the graph are what the names depended on stand for.
LEMMA GraphNodes ==
    ASSUME NEW t \in Seq(Commands), NEW p, NEW place, ReadFrom(t, p, place), NEW x
    PROVE  x \in Graph(p).nodes <=> \E r \in DependsIn(t) : StandsFor(t, p, place, r, x)
<1> DEFINE g == Graph(p)
<1>1. /\ AcceptedIn(t) /\ FunctionsMade(t, p, place)
      /\ \A k \in Ids(p) : p.funs[k].body = TermAt(t, p, place, place[k])
      /\ Len(t) \in Nat
  BY DEF ReadFrom, TermsRead
<1>2. /\ g.asserted = TermsAt(t, p, place, AssertsIn(t))
      /\ \A y \in g.nodes : y \in g.asserted \/ \E k \in g.funs : y \in p.funs[k].body
  BY GraphClosed
<1>3. \A i \in DependsIn(t) : TermAt(t, p, place, i) \subseteq g.nodes
  BY DependedInGraph
<1>4. \A k \in g.funs : k \in Ids(p) /\ place[k] \in DependsIn(t)
  BY GraphFunctions
<1> HIDE DEF g
<1>5. ASSUME x \in g.nodes  PROVE \E r \in DependsIn(t) : StandsFor(t, p, place, r, x)
  <2>1. CASE x \in g.asserted
    <3>1. PICK i \in AssertsIn(t) : x \in TermAt(t, p, place, i)
      BY <1>2, <2>1, InTermsAt
    <3>2. i \in DependsIn(t)
      BY <1>1, <3>1, DependsClosed
    <3> QED  BY <3>1, <3>2, NodesDependedOn
  <2>2. ASSUME NEW k \in g.funs, x \in p.funs[k].body
        PROVE  \E r \in DependsIn(t) : StandsFor(t, p, place, r, x)
    <3>1. x \in TermAt(t, p, place, place[k]) /\ place[k] \in DependsIn(t)
      BY <1>1, <1>4, <2>2
    <3> QED  BY <3>1, NodesDependedOn
  <2> QED  BY <1>2, <1>5, <2>1, <2>2
<1>6. ASSUME NEW r \in DependsIn(t), StandsFor(t, p, place, r, x)  PROVE x \in g.nodes
  <2>1. r \in 1..Len(t)
    BY <1>1, DependsClosed
  <2>2. CASE /\ t[r].command = "define-fun-rec"
             /\ t[r].name \in t[r].uses
             /\ x = UFApply(Plain(t[r].name))
    <3> DEFINE u == t[r].name
    <3>1. r \in BeforeIn(t, r, u) /\ \A k \in BeforeIn(t, r, u) : k <= r
      <4>1. r \in BeforeIn(t, r, u)
        BY <2>1, <2>2 DEF BeforeIn, Introducing, Defining
      <4>2. \A k \in BeforeIn(t, r, u) : k \in 1..Len(t) /\ (k < r \/ k = r)
        BY DEF BeforeIn
      <4>3. \A k \in BeforeIn(t, r, u) : k <= r
        BY <2>1, <4>2
      <4> QED  BY <4>1, <4>3
    <3>2. ReferentIn(t, r, u) = r
      BY <3>1, ReferentIs
    <3>3. MeantBy(t, p, place, r, u) = {UFApply(Plain(u))}
      BY <2>2, <3>2 DEF MeantBy
    <3>4. x \in TermAt(t, p, place, r)
      BY <2>2, <3>3 DEF TermAt
    <3> QED  BY <1>3, <3>4
  <2>3. CASE \/ t[r].command = "declare-const" /\ x = Var(t[r].name)
             \/ \E k \in Ids(p) : place[k] = r /\ KeptFunction(p, k) /\ x \in ApplyFun(p, k)
    <3>1. t[r].command # "assert"
      BY <1>1, <2>3 DEF FunctionsMade, FunctionMade, OfFunctions, Defining
    <3>2. PICK i \in DependsIn(t) : i # r /\ \E u \in t[i].uses : ReferentIn(t, i, u) = r
      BY <1>1, <3>1, DependedHasUser
    <3>3. PICK u \in t[i].uses : ReferentIn(t, i, u) = r
      BY <3>2
    <3>4. i \in 1..Len(t)
      BY <1>1, DependsClosed
    <3> DEFINE meant == MeantBy(t, p, place, i, u)
    <3>5. \/ t[r].command = "declare-const" /\ meant = {Var(u)}
          \/ \E k \in Ids(p) : place[k] = r /\ meant = ApplyFun(p, k)
      BY <3>2, <3>3, <3>4, MeantIs
    <3>6. t[r].name = u
      BY <1>1, <3>3, <3>4, ReferentBound
    <3>7. t[r].command = "declare-const" => ~\E k \in Ids(p) : place[k] = r
      BY <1>1 DEF FunctionsMade, FunctionMade, OfFunctions, Defining
    <3>8. \A k, l \in Ids(p) : place[k] = place[l] => k = l
      BY <1>1, FunctionTyped, PlacesApart
    <3>9. meant \subseteq TermAt(t, p, place, i)
      BY DEF TermAt
    <3> HIDE DEF meant
    <3>10. x \in meant
      <4>1. CASE t[r].command = "declare-const"
        BY <2>3, <3>5, <3>6, <3>7, <4>1
      <4>2. CASE t[r].command # "declare-const"
        BY <2>3, <3>5, <3>8, <4>2
      <4> QED  BY <4>1, <4>2
    <3> QED  BY <1>3, <3>9, <3>10
  <2> QED  BY <1>6, <2>2, <2>3 DEF StandsFor
<1> QED  BY <1>5, <1>6 DEF g

(***************************************************************************)
(* The printed sections.                                                   *)
(***************************************************************************)
\* What f leads to is listed among the functions of that kind.
Listed(p, names, kind, f) ==
    Plain(f) \in DOMAIN names /\ p.funs[p.fun_key_map[Plain(f)]].kind = kind

\* Declaration j is of the name that function e[j] was made under.
DeclaredInOrder(p, names, kind, pruning, d, e) ==
    /\ Len(d) \in Nat
    /\ d = [j \in 1..Len(d) |-> d[j]]
    /\ e \in [1..Len(d) -> Ids(p)]
    /\ \A i, j \in 1..Len(d) : i < j => e[i] < e[j]
    /\ \A j \in 1..Len(d) :
          LET f == p.function_names[e[j]]
          IN /\ Listed(p, names, kind, f)
             /\ d[j] = Declaration(names[Plain(f)], kind = "rec",
                                   Printed(p.funs[p.fun_key_map[Plain(f)]].body, pruning))
    /\ \A k \in Ids(p) :
          Listed(p, names, kind, p.function_names[k]) => \E j \in 1..Len(d) : e[j] = k

\* The functions of a kind are printed one for each time a name in the list has that
\* kind, in the order of the list.
LEMMA DeclaredFunctionsInOrder ==
    ASSUME NEW t, NEW p, NEW place, ReadFrom(t, p, place), NEW names, NEW kind, NEW pruning
    PROVE  \E e : DeclaredInOrder(p, names, kind, pruning,
                                  DeclaredFunctions(p, names, kind, pruning), e)
<1> DEFINE S == {f \in Range(p.function_names) :
                    /\ [of |-> f, dup |-> 0] \in DOMAIN names
                    /\ p.funs[p.fun_key_map[[of |-> f, dup |-> 0]]].kind = kind}
           known == Only(p.function_names, S)
           d == DeclaredFunctions(p, names, kind, pruning)
<1>1. /\ p.function_names \in Seq(Names) /\ Len(p.function_names) = Len(p.funs)
      /\ Len(p.funs) \in Nat /\ Ids(p) = 1..Len(p.funs)
  BY FunctionTyped DEF ReadFrom, ParserTyped, FunctionsMade, Ids
<1>2. \A k \in Ids(p) : p.function_names[k] \in S <=> Listed(p, names, kind, p.function_names[k])
  <2>1. \A k \in Ids(p) : p.function_names[k] \in Range(p.function_names)
    BY <1>1 DEF Range
  <2>2. \A f : Plain(f) = [of |-> f, dup |-> 0]
    BY DEF Plain
  <2> QED  BY <2>1, <2>2 DEF Listed
<1> HIDE DEF S
<1>3. PICK e : KeptInOrder(p.function_names, S, known, Len(p.function_names), e)
  BY <1>1, OnlyInOrder
<1>4. /\ Len(known) \in Nat /\ DOMAIN known = 1..Len(known)
      /\ e \in [1..Len(known) -> Ids(p)]
      /\ \A j \in 1..Len(known) : known[j] = p.function_names[e[j]] /\ p.function_names[e[j]] \in S
      /\ \A i, j \in 1..Len(known) : i < j => e[i] < e[j]
      /\ \A k \in Ids(p) : p.function_names[k] \in S => \E j \in 1..Len(known) : e[j] = k
  BY <1>1, <1>3 DEF KeptInOrder
<1>5. d = [j \in DOMAIN known |->
             LET old == [of |-> known[j], dup |-> 0] IN
             Declaration(names[old], kind = "rec",
                         Printed(p.funs[p.fun_key_map[old]].body, pruning))]
  BY DEF DeclaredFunctions, S
<1> HIDE DEF known, d
<1>6. d = [j \in 1..Len(known) |->
             Declaration(names[Plain(known[j])], kind = "rec",
                         Printed(p.funs[p.fun_key_map[Plain(known[j])]].body, pruning))]
  BY <1>4, <1>5 DEF Plain
<1>7. DOMAIN d = 1..Len(known) /\ d = [j \in 1..Len(known) |-> d[j]] /\ Len(d) = Len(known)
  BY <1>4, <1>6
<1>8. \A j \in 1..Len(known) :
         d[j] = Declaration(names[Plain(known[j])], kind = "rec",
                            Printed(p.funs[p.fun_key_map[Plain(known[j])]].body, pruning))
  BY <1>6, Zenon
<1>9. DeclaredInOrder(p, names, kind, pruning, d, e)
  <2>1. \A j \in 1..Len(known) : e[j] \in Ids(p)
    BY <1>4
  <2> QED  BY <1>2, <1>4, <1>7, <1>8, <2>1 DEF DeclaredInOrder
<1> QED  BY <1>9 DEF d

(***************************************************************************)
(* Four sections, one after the other.                                     *)
(***************************************************************************)
InSections(a, b, c, e, d) ==
    /\ Len(d) = Len(a) + Len(b) + Len(c) + Len(e)
    /\ DOMAIN d = 1..Len(d)
    /\ \A i \in 1..Len(a) : d[i] = a[i]
    /\ \A i \in 1..Len(b) : d[Len(a) + i] = b[i]
    /\ \A i \in 1..Len(c) : d[Len(a) + Len(b) + i] = c[i]
    /\ \A i \in 1..Len(e) : d[Len(a) + Len(b) + Len(c) + i] = e[i]
    /\ \A i \in 1..Len(d) :
          \/ i \in 1..Len(a)
          \/ \E j \in 1..Len(b) : i = Len(a) + j
          \/ \E j \in 1..Len(c) : i = Len(a) + Len(b) + j
          \/ \E j \in 1..Len(e) : i = Len(a) + Len(b) + Len(c) + j

Joined(a, b, d) ==
    /\ Len(d) = Len(a) + Len(b)
    /\ \A i \in 1..Len(a) : d[i] = a[i]
    /\ \A i \in 1..Len(b) : d[Len(a) + i] = b[i]

\* Two lists joined.
LEMMA TwoSections ==
    ASSUME NEW T, NEW a \in Seq(T), NEW b \in Seq(T)
    PROVE  a \o b \in Seq(T) /\ Joined(a, b, a \o b)
<1> DEFINE d == a \o b
<1>1. d \in Seq(T)
  OBVIOUS
<1>2. /\ Len(d) = Len(a) + Len(b)
      /\ \A i \in 1..Len(a) : d[i] = a[i]
      /\ \A i \in 1..Len(b) : d[Len(a) + i] = b[i]
  OBVIOUS
<1> HIDE DEF d
<1>3. d \in Seq(T) /\ Joined(a, b, d)
  BY <1>1, <1>2 DEF Joined
<1> QED  BY <1>3 DEF d

\* Four lists joined.
LEMMA Sections ==
    ASSUME NEW T, NEW a \in Seq(T), NEW b \in Seq(T), NEW c \in Seq(T), NEW e \in Seq(T)
    PROVE  InSections(a, b, c, e, a \o b \o c \o e)
<1> DEFINE la == Len(a)
           lb == Len(b)
           lc == Len(c)
           le == Len(e)
<1>1. la \in Nat /\ lb \in Nat /\ lc \in Nat /\ le \in Nat
  OBVIOUS
<1>2. PICK ab \in Seq(T) : ab = a \o b /\ Joined(a, b, ab)
  BY TwoSections
<1>3. PICK abc \in Seq(T) : abc = ab \o c /\ Joined(ab, c, abc)
  BY TwoSections
<1>4. PICK d \in Seq(T) : d = abc \o e /\ Joined(abc, e, d)
  BY TwoSections
<1>9. /\ Len(ab) = la + lb /\ Len(abc) = la + lb + lc
      /\ Len(d) = la + lb + lc + le /\ DOMAIN d = 1..Len(d)
  BY <1>2, <1>3, <1>4 DEF Joined
<1>10. d = a \o b \o c \o e
  BY <1>2, <1>3, <1>4
<1> HIDE DEF la, lb, lc, le
<1>5. \A i \in 1..la : d[i] = a[i]
  <2>1. \A i \in 1..la : i \in 1..(la + lb) /\ i \in 1..(la + lb + lc)
    BY <1>1
  <2> QED  BY <1>2, <1>3, <1>4, <1>9, <2>1 DEF Joined, la, lb
<1>6. \A i \in 1..lb : d[la + i] = b[i]
  <2>1. \A i \in 1..lb : la + i \in 1..(la + lb) /\ la + i \in 1..(la + lb + lc)
    BY <1>1
  <2> QED  BY <1>2, <1>3, <1>4, <1>9, <2>1 DEF Joined, la, lb
<1>7. \A i \in 1..lc : d[la + lb + i] = c[i]
  <2>1. \A i \in 1..lc : la + lb + i \in 1..(la + lb + lc)
    BY <1>1
  <2> QED  BY <1>3, <1>4, <1>9, <2>1 DEF Joined, lc
<1>8. \A i \in 1..Len(d) :
         \/ i \in 1..la
         \/ \E j \in 1..lb : i = la + j
         \/ \E j \in 1..lc : i = la + lb + j
         \/ \E j \in 1..le : i = la + lb + lc + j
  <2> TAKE i \in 1..Len(d)
  <2>1. CASE i <= la
    BY <1>1, <2>1
  <2>2. CASE la < i /\ i <= la + lb
    <3>1. i - la \in 1..lb /\ i = la + (i - la)
      BY <1>1, <2>2
    <3> QED  BY <3>1
  <2>3. CASE la + lb < i /\ i <= la + lb + lc
    <3>1. i - la - lb \in 1..lc /\ i = la + lb + (i - la - lb)
      BY <1>1, <2>3
    <3> QED  BY <3>1
  <2>4. CASE la + lb + lc < i
    <3>1. i - la - lb - lc \in 1..le /\ i = la + lb + lc + (i - la - lb - lc)
      BY <1>1, <1>9, <2>4
    <3> QED  BY <3>1
  <2> QED  BY <1>1, <2>1, <2>2, <2>3, <2>4
<1>11. \A i \in 1..le : d[la + lb + lc + i] = e[i]
  BY <1>4, <1>9 DEF Joined, le
<1>12. InSections(a, b, c, e, d)
  BY <1>5, <1>6, <1>7, <1>8, <1>9, <1>11 DEF InSections, la, lb, lc, le
<1> QED  BY <1>10, <1>12

(***************************************************************************)
(* Counting.                                                               *)
(***************************************************************************)
LEMMA SameCount ==
    ASSUME NEW S, NEW T, IsFiniteSet(S), NEW f \in [S -> T],
           \A x, y \in S : f[x] = f[y] => x = y,
           \A z \in T : \E x \in S : f[x] = z
    PROVE  IsFiniteSet(T) /\ Cardinality(T) = Cardinality(S)
<1>1. f \in Bijection(S, T)
  BY DEF Bijection, Injection, Surjection, IsInjective
<1>2. ExistsBijection(S, T)
  BY <1>1 DEF ExistsBijection
<1> QED  BY <1>2, FS_Bijection

\* A set of places in a list is finite.
LEMMA PlacesFinite ==
    ASSUME NEW n \in Nat, NEW S \in SUBSET (1..n)
    PROVE  IsFiniteSet(S)
<1>1. IsFiniteSet(1..n)
  BY FS_Interval
<1> QED  BY <1>1, FS_Subset

\* So is what a function makes of a finite set.
LEMMA ImageFinite ==
    ASSUME NEW S, NEW T, IsFiniteSet(S), NEW f \in [S -> T], \A z \in T : \E x \in S : f[x] = z
    PROVE  IsFiniteSet(T)
<1>1. f \in Surjection(S, T)
  BY DEF Surjection
<1> QED  BY <1>1, FS_Surjection

\* q has each element of S once.
ListedOf(S, q) ==
    /\ Len(q) = Cardinality(S)
    /\ Len(q) \in Nat
    /\ q \in [1..Len(q) -> S]
    /\ \A i, j \in 1..Len(q) : q[i] = q[j] => i = j
    /\ \A x \in S : \E i \in 1..Len(q) : q[i] = x

\* SetToSeq lists each element of a finite set once.
LEMMA SetListed ==
    ASSUME NEW S, IsFiniteSet(S)
    PROVE  ListedOf(S, SetToSeq(S))
<1> DEFINE n == Cardinality(S)
           q == SetToSeq(S)
<1>1. n \in Nat /\ ExistsBijection(1..n, S)
  BY FS_CardinalityType
<1>2. PICK b \in [1..n -> S] : IsInjective(b)
  BY <1>1 DEF ExistsBijection, Bijection, Injection
<1>3. q \in [1..n -> S] /\ IsInjective(q)
  BY <1>2 DEF SetToSeq
<1>4. IsFiniteSet(1..n) /\ Cardinality(1..n) = n
  <2>1. 1 \in Int /\ n \in Int
    BY <1>1
  <2> HIDE DEF n
  <2>2. /\ IsFiniteSet(1..n)
        /\ Cardinality(1..n) = IF 1 > n THEN 0 ELSE n - 1 + 1
    BY <2>1, FS_Interval
  <2> QED  BY <1>1, <2>2
<1> HIDE DEF q
<1>5. q \in Injection(1..n, S)
  BY <1>3 DEF Injection
<1>6. q \in Surjection(1..n, S)
  <2> HIDE DEF n
  <2>1. Cardinality(1..n) = Cardinality(S)
    BY <1>4 DEF n
  <2> QED  BY <1>5, <2>1, FS_Injection
<1>7. Len(q) = n
  BY <1>1, <1>3
<1>8. \A i, j \in 1..n : q[i] = q[j] => i = j
  BY <1>3 DEF IsInjective
<1>9. \A x \in S : \E i \in 1..n : q[i] = x
  BY <1>6 DEF Surjection
<1> QED  BY <1>1, <1>3, <1>7, <1>8, <1>9 DEF ListedOf, q

(***************************************************************************)
(* Four sections, whatever their elements.                                 *)
(***************************************************************************)
IsList(a) == Len(a) \in Nat /\ a = [i \in 1..Len(a) |-> a[i]]

\* A list is a sequence over any set with its elements.
LEMMA ListTyped ==
    ASSUME NEW a, IsList(a), NEW T, \A i \in 1..Len(a) : a[i] \in T
    PROVE  a \in Seq(T)
<1>1. PICK n : n = Len(a)
  BY Zenon
<1>2. n \in Nat /\ a \in [1..n -> T]
  BY <1>1 DEF IsList
<1> QED  BY <1>2

\* Four lists joined, whatever they are lists of.
LEMMA ListSections ==
    ASSUME NEW a, NEW b, NEW c, NEW e, IsList(a), IsList(b), IsList(c), IsList(e)
    PROVE  InSections(a, b, c, e, a \o b \o c \o e)
<1> DEFINE Elements(x) == {x[i] : i \in 1..Len(x)}
           T == Elements(a) \union (Elements(b) \union (Elements(c) \union Elements(e)))
<1>1. a \in Seq(T)
  <2>1. \A i \in 1..Len(a) : a[i] \in T
    OBVIOUS
  <2> HIDE DEF T
  <2> QED  BY <2>1, ListTyped
<1>2. b \in Seq(T)
  <2>1. \A i \in 1..Len(b) : b[i] \in T
    OBVIOUS
  <2> HIDE DEF T
  <2> QED  BY <2>1, ListTyped
<1>3. c \in Seq(T)
  <2>1. \A i \in 1..Len(c) : c[i] \in T
    OBVIOUS
  <2> HIDE DEF T
  <2> QED  BY <2>1, ListTyped
<1>4. e \in Seq(T)
  <2>1. \A i \in 1..Len(e) : e[i] \in T
    OBVIOUS
  <2> HIDE DEF T
  <2> QED  BY <2>1, ListTyped
<1> HIDE DEF T
<1> QED  BY <1>1, <1>2, <1>3, <1>4, Sections

(***************************************************************************)
(* Where what is printed of a function is.                                 *)
(***************************************************************************)
LastOf(p, k) == p.fun_key_map[Plain(p.function_names[k])]
ListedIds(p, names) == {k \in Ids(p) : Plain(p.function_names[k]) \in DOMAIN names}
ListedAs(p, names, kind) == {k \in ListedIds(p, names) : p.funs[LastOf(p, k)].kind = kind}

EntryOf(p, names, pruning, k) ==
    LET last == p.funs[LastOf(p, k)]
    IN Declaration(names[Plain(p.function_names[k])], last.kind = "rec", Printed(last.body, pruning))

SectionAt(p, names, kind, pruning, d, pos) ==
    /\ IsList(d)
    /\ pos \in [ListedAs(p, names, kind) -> 1..Len(d)]
    /\ \A k \in ListedAs(p, names, kind) : d[pos[k]] = EntryOf(p, names, pruning, k)
    /\ \A k, l \in ListedAs(p, names, kind) : k < l => pos[k] < pos[l]
    /\ \A j \in 1..Len(d) : \E k \in ListedAs(p, names, kind) : pos[k] = j

\* Each printed function has a place of its own, by its number.
LEMMA SectionPlaced ==
    ASSUME NEW t, NEW p, NEW place, ReadFrom(t, p, place), NEW names, NEW kind, NEW pruning
    PROVE  \E pos : SectionAt(p, names, kind, pruning,
                              DeclaredFunctions(p, names, kind, pruning), pos)
<1> DEFINE d == DeclaredFunctions(p, names, kind, pruning)
           K == ListedAs(p, names, kind)
<1>1. PICK e : DeclaredInOrder(p, names, kind, pruning, d, e)
  BY DeclaredFunctionsInOrder
<1> DEFINE pos == [k \in K |-> CHOOSE j \in 1..Len(d) : e[j] = k]
<1> HIDE DEF d
<1>2. IsList(d) /\ Len(d) \in Nat
  BY <1>1 DEF DeclaredInOrder, IsList
<1>3. \A k \in Ids(p) : Listed(p, names, kind, p.function_names[k]) <=> k \in K
  BY DEF Listed, ListedAs, ListedIds, LastOf
<1>4. K \subseteq Ids(p) /\ \A k \in Ids(p) : k \in Nat
  BY FunctionTyped DEF ListedAs, ListedIds, Ids
<1>5. \A j \in 1..Len(d) : e[j] \in K
  BY <1>1, <1>3 DEF DeclaredInOrder
<1>6. \A k \in K : \E j \in 1..Len(d) : e[j] = k
  BY <1>1, <1>3, <1>4 DEF DeclaredInOrder
<1>7. \A k \in K : pos[k] \in 1..Len(d) /\ e[pos[k]] = k
  BY <1>6
<1>8. pos \in [K -> 1..Len(d)]
  BY <1>7
<1> HIDE DEF pos
<1>9. \A i, j \in 1..Len(d) : i < j => e[i] < e[j]
  BY <1>1 DEF DeclaredInOrder
<1>10. ASSUME NEW k \in K, NEW l \in K, k < l  PROVE pos[k] < pos[l]
  <2>1. k \in Nat /\ l \in Nat
    BY <1>4
  <2>2. pos[k] \in Nat /\ pos[l] \in Nat
    BY <1>2, <1>7
  <2>3. CASE pos[l] < pos[k]
    BY <1>7, <1>9, <1>10, <2>1, <2>3
  <2>4. CASE pos[l] = pos[k]
    BY <1>7, <1>10, <2>1, <2>4
  <2> QED  BY <2>2, <2>3, <2>4
<1>11. ASSUME NEW j \in 1..Len(d)  PROVE pos[e[j]] = j
  <2> DEFINE i == pos[e[j]]
  <2>1. i \in 1..Len(d) /\ e[i] = e[j] /\ e[j] \in Nat
    BY <1>4, <1>5, <1>7
  <2> HIDE DEF i
  <2>2. ~(i < j) /\ ~(j < i)
    BY <1>9, <2>1
  <2>3. i = j
    BY <1>2, <2>1, <2>2
  <2> QED  BY <2>3 DEF i
<1>12. \A k \in K : d[pos[k]] = EntryOf(p, names, pruning, k)
  <2> TAKE k \in K
  <2> DEFINE f == p.function_names[k]
  <2>1. p.funs[p.fun_key_map[Plain(f)]].kind = kind
    BY DEF ListedAs, LastOf
  <2>2. d[pos[k]] = Declaration(names[Plain(f)], kind = "rec",
                                Printed(p.funs[p.fun_key_map[Plain(f)]].body, pruning))
    <3>1. \A j \in 1..Len(d) :
             d[j] = Declaration(names[Plain(p.function_names[e[j]])], kind = "rec",
                       Printed(p.funs[p.fun_key_map[Plain(p.function_names[e[j]])]].body, pruning))
      BY <1>1 DEF DeclaredInOrder
    <3>2. pos[k] \in 1..Len(d) /\ e[pos[k]] = k
      BY <1>7
    <3> QED  BY <3>1, <3>2
  <2> QED  BY <2>1, <2>2 DEF EntryOf, LastOf
<1>13. \A j \in 1..Len(d) : \E k \in K : pos[k] = j
  BY <1>5, <1>11
<1>14. SectionAt(p, names, kind, pruning, d, pos)
  <2> HIDE DEF K
  <2> QED  BY <1>2, <1>8, <1>10, <1>12, <1>13 DEF SectionAt, K
<1> QED  BY <1>14 DEF d

(***************************************************************************)
(* The declarations: the variables in the order v, then the functions of   *)
(* the script, each at pos, those defined after the declared ones and in   *)
(* the order they were made.                                               *)
(***************************************************************************)
Layout(p, names, pruning, v, d, pos) ==
    /\ Len(v) \in Nat
    /\ Len(d) \in Nat
    /\ DOMAIN d = 1..Len(d)
    /\ \A i \in 1..Len(v) : i \in 1..Len(d) /\ d[i] = Declaration(<<"S", v[i]>>, FALSE, {})
    /\ pos \in [ListedIds(p, names) -> (Len(v) + 1)..Len(d)]
    /\ \A k \in ListedIds(p, names) : d[pos[k]] = EntryOf(p, names, pruning, k)
    /\ \A k, l \in ListedIds(p, names) : pos[k] = pos[l] => k = l
    /\ \A k, l \in ListedIds(p, names) :
          p.funs[LastOf(p, k)].kind = "def"
          /\ (p.funs[LastOf(p, l)].kind = "dec" \/ (p.funs[LastOf(p, l)].kind = "def" /\ l < k))
          => pos[l] < pos[k]
    /\ \A i \in 1..Len(d) : i \in 1..Len(v) \/ \E k \in ListedIds(p, names) : pos[k] = i

\* The function a function's name leads to is a later one of that name, or itself.
LEMMA LastTyped ==
    ASSUME NEW t, NEW p, NEW place, ReadFrom(t, p, place), NEW k \in Ids(p)
    PROVE  /\ LastOf(p, k) \in Ids(p)
           /\ p.function_names[LastOf(p, k)] = p.function_names[k]
           /\ k <= LastOf(p, k)
           /\ p.funs[LastOf(p, k)].kind \in {"dec", "def", "rec"}
           /\ p.function_names[k] \in Names
<1>1. p.function_names[k] \in Names
  BY DEF ReadFrom, ParserTyped, FunctionsMade, Ids
<1>2. IsLast(p, LastOf(p, k), p.function_names[k])
  BY <1>1, Zenon DEF ReadFrom, KeysLeadToLast, LastOf
<1> QED  BY <1>1, <1>2, FunctionTyped DEF IsLast

\* The printed declarations: the variables, then the functions by kind.
LEMMA LaidOut ==
    ASSUME NEW t, NEW p, NEW place, ReadFrom(t, p, place), NEW names, NEW pruning,
           NEW v, NEW x, IsList(x), Len(v) = Len(x),
           \A i \in 1..Len(v) : x[i] = Declaration(<<"S", v[i]>>, FALSE, {})
    PROVE  \E pos : Layout(p, names, pruning, v,
                           x \o DeclaredFunctions(p, names, "dec", pruning)
                             \o DeclaredFunctions(p, names, "rec", pruning)
                             \o DeclaredFunctions(p, names, "def", pruning), pos)
<1> DEFINE K == ListedIds(p, names)
<1>a. PICK a : a = DeclaredFunctions(p, names, "dec", pruning)
  BY Zenon
<1>b. PICK b : b = DeclaredFunctions(p, names, "rec", pruning)
  BY Zenon
<1>c. PICK c : c = DeclaredFunctions(p, names, "def", pruning)
  BY Zenon
<1>d. PICK d : d = x \o a \o b \o c
  BY Zenon
<1>1. PICK pa : SectionAt(p, names, "dec", pruning, a, pa)
  BY <1>a, SectionPlaced
<1>2. PICK pb : SectionAt(p, names, "rec", pruning, b, pb)
  BY <1>b, SectionPlaced
<1>3. PICK pc : SectionAt(p, names, "def", pruning, c, pc)
  BY <1>c, SectionPlaced
<1>4. InSections(x, a, b, c, d)
  BY <1>1, <1>2, <1>3, <1>d, ListSections DEF SectionAt
<1>5. PICK n, la, lb, lc : n = Len(x) /\ la = Len(a) /\ lb = Len(b) /\ lc = Len(c)
  BY Zenon
<1>6. n \in Nat /\ la \in Nat /\ lb \in Nat /\ lc \in Nat
  BY <1>1, <1>2, <1>3, <1>5 DEF SectionAt, IsList
<1> DEFINE pos == [k \in K |->
               IF p.funs[LastOf(p, k)].kind = "dec" THEN n + pa[k]
               ELSE IF p.funs[LastOf(p, k)].kind = "rec" THEN n + la + pb[k]
               ELSE n + la + lb + pc[k]]
           In(kind, k) == k \in K /\ p.funs[LastOf(p, k)].kind = kind
<1>7. \A k : k \in K => In("dec", k) \/ In("rec", k) \/ In("def", k)
  BY LastTyped DEF ListedIds
<1>8. \A k, kind : In(kind, k) <=> k \in ListedAs(p, names, kind)
  BY DEF ListedAs
<1>9. \A k : In("dec", k) => /\ pos[k] = n + pa[k] /\ pa[k] \in 1..la
                             /\ a[pa[k]] = EntryOf(p, names, pruning, k)
  BY <1>1, <1>5, <1>8 DEF SectionAt
<1>10. \A k : In("rec", k) => /\ pos[k] = n + la + pb[k] /\ pb[k] \in 1..lb
                              /\ b[pb[k]] = EntryOf(p, names, pruning, k)
  BY <1>2, <1>5, <1>8 DEF SectionAt
<1>11. \A k : In("def", k) => /\ pos[k] = n + la + lb + pc[k] /\ pc[k] \in 1..lc
                              /\ c[pc[k]] = EntryOf(p, names, pruning, k)
  BY <1>3, <1>5, <1>8 DEF SectionAt
<1>12. DOMAIN pos = K
  OBVIOUS
<1>k. K \subseteq Ids(p) /\ \A k \in Ids(p) : k \in Nat
  BY FunctionTyped DEF ListedIds, Ids
<1>p. pos = [k \in K |-> pos[k]]
  OBVIOUS
<1>13. /\ \A k, l : In("dec", k) /\ In("dec", l) /\ k < l => pa[k] < pa[l]
       /\ \A k, l : In("rec", k) /\ In("rec", l) /\ k < l => pb[k] < pb[l]
       /\ \A k, l : In("def", k) /\ In("def", l) /\ k < l => pc[k] < pc[l]
  BY <1>1, <1>2, <1>3, <1>8 DEF SectionAt
<1>14. /\ \A j \in 1..la : \E k : In("dec", k) /\ pa[k] = j
       /\ \A j \in 1..lb : \E k : In("rec", k) /\ pb[k] = j
       /\ \A j \in 1..lc : \E k : In("def", k) /\ pc[k] = j
  BY <1>1, <1>2, <1>3, <1>5, <1>8 DEF SectionAt
<1>15. /\ Len(d) = n + la + lb + lc
       /\ DOMAIN d = 1..Len(d)
       /\ \A i \in 1..n : d[i] = x[i]
       /\ \A i \in 1..la : d[n + i] = a[i]
       /\ \A i \in 1..lb : d[n + la + i] = b[i]
       /\ \A i \in 1..lc : d[n + la + lb + i] = c[i]
       /\ \A i \in 1..Len(d) :
             \/ i \in 1..n
             \/ \E j \in 1..la : i = n + j
             \/ \E j \in 1..lb : i = n + la + j
             \/ \E j \in 1..lc : i = n + la + lb + j
  BY <1>4, <1>5 DEF InSections
<1>16. PICK m : m = Len(d)
  BY Zenon
<1> HIDE DEF pos, K
<1>17. \A k \in K : pos[k] \in (n + 1)..m
  BY <1>6, <1>7, <1>9, <1>10, <1>11, <1>15, <1>16
<1>18. \A k \in K : d[pos[k]] = EntryOf(p, names, pruning, k)
  BY <1>7, <1>9, <1>10, <1>11, <1>15
<1>19. ASSUME NEW k \in K, NEW l \in K, pos[k] = pos[l]  PROVE k = l
  <2>1. k \in Nat /\ l \in Nat
    BY <1>k
  <2>2. CASE In("dec", k)
    <3>1. In("dec", l)
      BY <1>6, <1>7, <1>9, <1>10, <1>11, <1>19, <2>2
    <3>2. pa[k] = pa[l] /\ pa[k] \in Nat
      BY <1>6, <1>9, <1>19, <2>2, <3>1
    <3>3. ~(k < l) /\ ~(l < k)
      <4> HIDE DEF In
      <4> QED  BY <1>13, <2>2, <3>1, <3>2
    <3> QED  BY <2>1, <3>3
  <2>3. CASE In("rec", k)
    <3>1. In("rec", l)
      BY <1>6, <1>7, <1>9, <1>10, <1>11, <1>19, <2>3
    <3>2. pb[k] = pb[l] /\ pb[k] \in Nat
      BY <1>6, <1>10, <1>19, <2>3, <3>1
    <3>3. ~(k < l) /\ ~(l < k)
      <4> HIDE DEF In
      <4> QED  BY <1>13, <2>3, <3>1, <3>2
    <3> QED  BY <2>1, <3>3
  <2>4. CASE In("def", k)
    <3>1. In("def", l)
      BY <1>6, <1>7, <1>9, <1>10, <1>11, <1>19, <2>4
    <3>2. pc[k] = pc[l] /\ pc[k] \in Nat
      BY <1>6, <1>11, <1>19, <2>4, <3>1
    <3>3. ~(k < l) /\ ~(l < k)
      <4> HIDE DEF In
      <4> QED  BY <1>13, <2>4, <3>1, <3>2
    <3> QED  BY <2>1, <3>3
  <2> QED  BY <1>7, <2>2, <2>3, <2>4
<1>20. \A k, l \in K : In("def", k) /\ (In("dec", l) \/ (In("def", l) /\ l < k)) => pos[l] < pos[k]
  BY <1>6, <1>9, <1>11, <1>13
<1>21. \A i \in 1..m : i \in 1..n \/ \E k \in K : pos[k] = i
  <2> TAKE i \in 1..m
  <2>1. CASE \E j \in 1..la : i = n + j
    BY <2>1, <1>9, <1>14
  <2>2. CASE \E j \in 1..lb : i = n + la + j
    BY <2>2, <1>10, <1>14
  <2>3. CASE \E j \in 1..lc : i = n + la + lb + j
    BY <2>3, <1>11, <1>14
  <2> QED  BY <1>15, <1>16, <2>1, <2>2, <2>3
<1>22. m \in Nat /\ \A i \in 1..n : i \in 1..m
  BY <1>6, <1>15, <1>16
<1>23. pos \in [K -> (n + 1)..m]
  BY <1>17, <1>p
<1>24. \A i \in 1..n : d[i] = Declaration(<<"S", v[i]>>, FALSE, {})
  BY <1>5, <1>15
<1>25. Len(v) = n
  BY <1>5
<1>26. \A k, l \in K :
          p.funs[LastOf(p, k)].kind = "def"
          /\ (p.funs[LastOf(p, l)].kind = "dec" \/ (p.funs[LastOf(p, l)].kind = "def" /\ l < k))
          => pos[l] < pos[k]
  BY <1>20, Zenon
<1>27. Layout(p, names, pruning, v, d, pos)
  BY <1>6, <1>15, <1>16, <1>18, <1>19, <1>21, <1>22, <1>23, <1>24, <1>25, <1>26 DEF Layout, K
<1> QED  BY <1>27, <1>a, <1>b, <1>c, <1>d, Zenon

(***************************************************************************)
(* What is printed of the script t.                                        *)
(***************************************************************************)
NewNames(p) == FunctionNamesMap(p, Graph(p))
VisitedNames(p, kind) == {p.funs[k].name : k \in VisitedOf(p, Graph(p), kind)}

PrintedOf(t, p, place, pruning, out, v, d, pos) ==
    /\ ReadFrom(t, p, place)
    /\ Layout(p, NewNames(p), pruning, v, d, pos)
    /\ IF pruning THEN ListedOf(NamesAt(Graph(p), "var"), v) ELSE v = << >>
    /\ out.declarations = d
    /\ out.asserted = Printed(Graph(p).asserted, pruning)

\* What is printed for the function a name leads to.
LEMMA EntryFields ==
    ASSUME NEW p, NEW names, NEW pruning, NEW k
    PROVE  LET entry == EntryOf(p, names, pruning, k)
               last == p.funs[LastOf(p, k)]
           IN /\ entry.declares = names[Plain(p.function_names[k])]
              /\ entry.rec = (last.kind = "rec")
              /\ entry.uses = Printed(last.body, pruning)
<1> DEFINE last == p.funs[LastOf(p, k)]
           name == names[Plain(p.function_names[k])]
           rec == last.kind = "rec"
           body == Printed(last.body, pruning)
<1>1. EntryOf(p, names, pruning, k) = Declaration(name, rec, body)
  BY DEF EntryOf
<1>2. /\ Declaration(name, rec, body).declares = name
      /\ Declaration(name, rec, body).rec = rec
      /\ Declaration(name, rec, body).uses = body
  <2> HIDE DEF name, rec, body
  <2> QED  BY DEF Declaration
<1> HIDE DEF name, rec, body
<1>3. /\ EntryOf(p, names, pruning, k).declares = name
      /\ EntryOf(p, names, pruning, k).rec = rec
      /\ EntryOf(p, names, pruning, k).uses = body
  BY <1>1, <1>2, Zenon
<1> QED  BY <1>3, Zenon DEF name, rec, body

\* The names that get a new one, and which.
LEMMA NamesGiven ==
    ASSUME NEW p
    PROVE  /\ \A n : n \in DOMAIN NewNames(p)
                        <=> \/ n \in NamesAt(Graph(p), "uf")
                            \/ n \in VisitedNames(p, "rec")
                            \/ n \in VisitedNames(p, "def")
           /\ \A n \in DOMAIN NewNames(p) :
                 NewNames(p)[n] = IF n \in VisitedNames(p, "def") THEN <<"FDEF", n>>
                                  ELSE IF n \in VisitedNames(p, "rec") THEN <<"FREC", n>>
                                  ELSE <<"UF", n>>
<1> DEFINE uf == NamesAt(Graph(p), "uf")
           rec == VisitedNames(p, "rec")
           def == VisitedNames(p, "def")
           given == [n \in uf \union rec \union def |->
                        CASE n \in def -> <<"FDEF", n>>
                          [] n \in rec \ def -> <<"FREC", n>>
                          [] OTHER -> <<"UF", n>>]
<1>1. NewNames(p) = given
  BY DEF NewNames, FunctionNamesMap, VisitedNames
<1> HIDE DEF uf, rec, def
<1>2. \A n : n \in DOMAIN given <=> n \in uf \/ n \in rec \/ n \in def
  OBVIOUS
<1>3. \A n \in DOMAIN given :
         given[n] = IF n \in def THEN <<"FDEF", n>>
                    ELSE IF n \in rec THEN <<"FREC", n>> ELSE <<"UF", n>>
  OBVIOUS
<1> HIDE DEF given
<1> QED  BY <1>1, <1>2, <1>3 DEF uf, rec, def

\* A function in the graph is defined or recursive, has its plain name, and is printed.
LEMMA DefinitionsPlain ==
    ASSUME NEW t \in Seq(Commands), NEW p, NEW place, ReadFrom(t, p, place), NEW k \in Graph(p).funs
    PROVE  /\ k \in Ids(p)
           /\ p.funs[k].kind \in {"def", "rec"}
           /\ p.funs[k].name = Plain(p.function_names[k])
           /\ k \in ListedIds(p, NewNames(p))
<1>1. k \in Ids(p) /\ p.funs[k].kind # "dec"
  BY GraphFunctions
<1>2. FunctionMade(t, p, place, k) /\ p.funs[k].kind \in {"dec", "def", "rec"} /\ p.funs[k].name \in FNames
  BY <1>1, FunctionTyped DEF ReadFrom, FunctionsMade
<1>3. t[place[k]].command # "declare-fun"
  BY <1>1, <1>2 DEF FunctionMade, KindOf
<1>4. p.funs[k].name.dup = 0 /\ p.funs[k].name.of = p.function_names[k]
  BY <1>2, <1>3 DEF FunctionMade, OfFunctions, Defining
<1>5. p.funs[k].name = Plain(p.function_names[k])
  BY <1>2, <1>4 DEF FNames, Plain
<1>6. p.funs[k].name \in VisitedNames(p, p.funs[k].kind)
  BY DEF VisitedNames, VisitedOf
<1>7. Plain(p.function_names[k]) \in DOMAIN NewNames(p)
  BY <1>1, <1>2, <1>5, <1>6, NamesGiven
<1> QED  BY <1>1, <1>2, <1>5, <1>7 DEF ListedIds

\* Only variables and plain names are declared, under new names.
NewlyNamed(p, pruning, name) ==
    \/ pruning /\ \E n : name = <<"S", n>>
    \/ \E k \in ListedIds(p, NewNames(p)) :
          \E prefix \in {"FDEF", "FREC", "UF"} :
             name = <<prefix, Plain(p.function_names[k])>>

\* Only things of the graph are declared, under their new names.
LEMMA WhatIsDeclared ==
    ASSUME NEW t, NEW p, NEW place, NEW pruning, NEW out, NEW v, NEW d, NEW pos,
           PrintedOf(t, p, place, pruning, out, v, d, pos), NEW i \in 1..Len(d)
    PROVE  NewlyNamed(p, pruning, d[i].declares)
<1>1. CASE i \in 1..Len(v)
  <2>1. d[i] = Declaration(<<"S", v[i]>>, FALSE, {})
    BY <1>1 DEF PrintedOf, Layout
  <2>2. pruning
    BY <1>1 DEF PrintedOf
  <2>3. d[i].declares = <<"S", v[i]>>
    BY <2>1 DEF Declaration
  <2> QED  BY <2>2, <2>3, Zenon DEF NewlyNamed
<1>2. ASSUME NEW k \in ListedIds(p, NewNames(p)), pos[k] = i
      PROVE  \E prefix \in {"FDEF", "FREC", "UF"} :
                d[i].declares = <<prefix, Plain(p.function_names[k])>>
  <2>1. d[i].declares = NewNames(p)[Plain(p.function_names[k])]
    <3>1. d[pos[k]] = EntryOf(p, NewNames(p), pruning, k)
      BY DEF PrintedOf, Layout
    <3> QED  BY <1>2, <3>1, EntryFields
  <2>2. Plain(p.function_names[k]) \in DOMAIN NewNames(p)
    BY DEF ListedIds
  <2> QED  BY <2>1, <2>2, NamesGiven
<1> QED  BY <1>1, <1>2 DEF PrintedOf, Layout, NewlyNamed

(***************************************************************************)
(* Two reasons why a printed script cannot be read.                        *)
(***************************************************************************)
LEMMA Repeated ==
    ASSUME NEW t, NEW p, NEW place, NEW pruning, NEW out, NEW v, NEW d, NEW pos,
           PrintedOf(t, p, place, pruning, out, v, d, pos),
           NEW k \in ListedIds(p, NewNames(p)), NEW l \in Ids(p),
           l # k, p.function_names[k] = p.function_names[l]
    PROVE  ~Readable(out)
<1>1. l \in ListedIds(p, NewNames(p))
  BY DEF ListedIds
<1>2. /\ pos[k] # pos[l] /\ pos[k] \in 1..Len(d) /\ pos[l] \in 1..Len(d)
      /\ DOMAIN d = 1..Len(d) /\ Len(d) \in Nat
  BY <1>1 DEF PrintedOf, Layout
<1>3. d[pos[k]].declares = d[pos[l]].declares
  <2>1. /\ d[pos[k]] = EntryOf(p, NewNames(p), pruning, k)
        /\ d[pos[l]] = EntryOf(p, NewNames(p), pruning, l)
    BY <1>1 DEF PrintedOf, Layout
  <2> QED  BY <2>1, EntryFields
<1>4. ASSUME Readable(out)
      PROVE  \A i, j \in 1..Len(d) : j < i => d[i].declares # d[j].declares
  <2>1. \A i \in 1..Len(d) : d[i].declares \notin {d[j].declares : j \in 1..(i - 1)}
    BY <1>2, <1>4 DEF Readable, PrintedOf
  <2> TAKE i, j \in 1..Len(d)
  <2> HAVE j < i
  <2>2. j \in 1..(i - 1)
    BY <1>2
  <2> QED  BY <2>1, <2>2
<1>5. pos[k] < pos[l] \/ pos[l] < pos[k]
  BY <1>2
<1> QED  BY <1>2, <1>3, <1>4, <1>5

\* A script that uses a name it does not declare cannot be read.
LEMMA NotDeclared ==
    ASSUME NEW t \in Seq(Commands), NEW p, NEW place, NEW pruning, NEW out, NEW v, NEW d, NEW pos,
           PrintedOf(t, p, place, pruning, out, v, d, pos),
           NEW x \in Graph(p).nodes,
           \A i \in 1..Len(d) : d[i].declares # NodeName(x, pruning)
    PROVE  ~Readable(out)
<1> SUFFICES ASSUME Readable(out)  PROVE FALSE
  OBVIOUS
<1> DEFINE y == NodeName(x, pruning)
           By(i) == {d[j].declares : j \in 1..(i - 1)}
<1>0. ReadFrom(t, p, place)
  BY DEF PrintedOf
<1>1. Len(d) \in Nat /\ DOMAIN d = 1..Len(d) /\ out.declarations = d
  BY DEF PrintedOf, Layout
<1>2. /\ \A i \in 1..Len(d) : d[i].uses \subseteq By(i) \union (IF d[i].rec THEN {d[i].declares} ELSE {})
      /\ out.asserted \subseteq By(Len(d) + 1)
  BY <1>1 DEF Readable
<1>3. \A i \in 1..(Len(d) + 1) : y \notin By(i)
  <2> TAKE i \in 1..(Len(d) + 1)
  <2>1. \A j \in 1..(i - 1) : j \in 1..Len(d)
    BY <1>1
  <2> HIDE DEF y
  <2> QED  BY <2>1 DEF y
<1>4. Len(d) + 1 \in 1..(Len(d) + 1) /\ \A i \in 1..Len(d) : i \in 1..(Len(d) + 1)
  BY <1>1
<1> HIDE DEF By
<1>5. CASE x \in Graph(p).asserted
  <2>1. y \in out.asserted
    BY <1>5 DEF PrintedOf, Printed
  <2> QED  BY <1>2, <1>3, <1>4, <2>1
<1>6. ASSUME NEW k \in Graph(p).funs, x \in p.funs[k].body  PROVE FALSE
  <2>1. k \in ListedIds(p, NewNames(p)) /\ k \in Ids(p)
    BY <1>0, <1>6, DefinitionsPlain
  <2>2. LastOf(p, k) \in Ids(p) /\ p.function_names[LastOf(p, k)] = p.function_names[k]
    BY <1>0, <2>1, LastTyped
  <2>3. LastOf(p, k) = k
    BY <2>1, <2>2, Repeated
  <2>4. pos[k] \in 1..Len(d)
    BY <2>1 DEF PrintedOf, Layout
  <2>5. d[pos[k]].uses = Printed(p.funs[k].body, pruning)
    <3>1. d[pos[k]] = EntryOf(p, NewNames(p), pruning, k)
      BY <2>1 DEF PrintedOf, Layout
    <3> QED  BY <2>3, <3>1, EntryFields
  <2>6. y \in d[pos[k]].uses
    BY <1>6, <2>5 DEF Printed
  <2>7. y \in By(pos[k]) \/ y = d[pos[k]].declares
    BY <1>2, <2>4, <2>6
  <2> QED  BY <1>3, <1>4, <2>4, <2>7
<1> QED  BY <1>0, <1>5, <1>6, GraphClosed

(***************************************************************************)
(* A script that can be read meets no obstacle.                            *)
(***************************************************************************)
DependsAs(t, commands) == {i \in DependsIn(t) : t[i].command \in commands}
IntroducedOnce(t, i) == IntroducingIn(t, t[i].name) = {i}

NoObstacle(t, pruning) ==
    /\ DependsAs(t, {"define-fun-rec"}) = {}
    /\ \A i \in DependsAs(t, {"declare-fun"}) : IntroducedOnce(t, i)
    /\ pruning \/ DependsAs(t, {"declare-const"}) = {}

\* A function depended on, and its applications.
LEMMA FunctionDependedOn ==
    ASSUME NEW t \in Seq(Commands), NEW p, NEW place, ReadFrom(t, p, place),
           NEW i \in DependsIn(t), t[i].command \in OfFunctions
    PROVE  \E k \in Ids(p) :
              /\ place[k] = i
              /\ p.function_names[k] = t[i].name
              /\ p.funs[k].kind = KindOf(t[i].command)
              /\ p.funs[k].name.of = p.function_names[k]
              /\ KeptFunction(p, k) => ApplyFun(p, k) \subseteq Graph(p).nodes
<1>1. i \in 1..Len(t)
  BY DependsClosed DEF ReadFrom
<1>2. PICK k \in Ids(p) : place[k] = i
  BY <1>1 DEF ReadFrom, FunctionsMade
<1>3. FunctionMade(t, p, place, k)
  BY DEF ReadFrom, FunctionsMade
<1>4. KeptFunction(p, k) => ApplyFun(p, k) \subseteq Graph(p).nodes
  <2> SUFFICES ASSUME KeptFunction(p, k), NEW x \in ApplyFun(p, k)  PROVE x \in Graph(p).nodes
    OBVIOUS
  <2>1. StandsFor(t, p, place, i, x)
    BY <1>2 DEF StandsFor
  <2> QED  BY <2>1, GraphNodes
<1> QED  BY <1>2, <1>3, <1>4 DEF FunctionMade

\* What keeps its old name is not declared.
LEMMA OldNotDeclared ==
    ASSUME NEW t, NEW p, NEW place, NEW pruning, NEW out, NEW v, NEW d, NEW pos,
           PrintedOf(t, p, place, pruning, out, v, d, pos), NEW n, NEW i \in 1..Len(d)
    PROVE  d[i].declares # AsRead(n)
<1> SUFFICES ASSUME d[i].declares = AsRead(n)  PROVE FALSE
  OBVIOUS
<1>1. \A s \in {"S", "FDEF", "FREC", "UF"} : \A m : AsRead(n) # <<s, m>>
  BY DEF AsRead
<1>2. \A m : d[i].declares # <<"S", m>>
  BY <1>1
<1>3. \E k \in ListedIds(p, NewNames(p)) :
         \E prefix \in {"FDEF", "FREC", "UF"} :
            d[i].declares = <<prefix, Plain(p.function_names[k])>>
  <2>1. NewlyNamed(p, pruning, d[i].declares)
    BY WhatIsDeclared
  <2> QED  BY <1>2, <2>1, Zenon DEF NewlyNamed
<1> QED  BY <1>1, <1>3

\* A recursive function depended on: the script cannot be read.
LEMMA RecursiveNotReadable ==
    ASSUME NEW t \in Seq(Commands), NEW p, NEW place, NEW pruning, NEW out, NEW v, NEW d, NEW pos,
           PrintedOf(t, p, place, pruning, out, v, d, pos),
           NEW r \in DependsIn(t), t[r].command = "define-fun-rec"
    PROVE  ~Readable(out)
<1>1. ReadFrom(t, p, place)
  BY DEF PrintedOf
<1>2. t[r].command \in OfFunctions /\ KindOf(t[r].command) = "rec"
  BY DEF OfFunctions, Defining, KindOf
<1>3. PICK k \in Ids(p) : /\ p.funs[k].kind = "rec"
                          /\ KeptFunction(p, k) => ApplyFun(p, k) \subseteq Graph(p).nodes
  BY <1>1, <1>2, FunctionDependedOn
<1>4. KeptFunction(p, k)
  BY <1>3 DEF KeptFunction
<1> DEFINE x == RecApply(k, p.funs[k].name)
<1>5. x \in Graph(p).nodes
  BY <1>3, <1>4 DEF ApplyFun
<1>6. NodeName(x, pruning) = AsRead(p.funs[k].name)
  BY DEF NodeName, RecApply
<1>7. \A i \in 1..Len(d) : d[i].declares # NodeName(x, pruning)
  BY <1>6, OldNotDeclared
<1> QED  BY <1>5, <1>7, NotDeclared

\* Without pruning a constant depended on: the script cannot be read.
LEMMA ConstantNotReadable ==
    ASSUME NEW t \in Seq(Commands), NEW p, NEW place, NEW pruning, NEW out, NEW v, NEW d, NEW pos,
           PrintedOf(t, p, place, pruning, out, v, d, pos), ~pruning,
           NEW r \in DependsIn(t), t[r].command = "declare-const"
    PROVE  ~Readable(out)
<1> DEFINE x == Var(t[r].name)
<1>1. ReadFrom(t, p, place)
  BY DEF PrintedOf
<1>2. StandsFor(t, p, place, r, x)
  BY DEF StandsFor
<1>3. x \in Graph(p).nodes
  BY <1>1, <1>2, GraphNodes
<1>4. NodeName(x, pruning) = AsRead(x.name)
  <2>1. x.at = "var"
    BY DEF Var
  <2> HIDE DEF x
  <2> QED  BY <2>1 DEF NodeName
<1>5. \A i \in 1..Len(d) : d[i].declares # NodeName(x, pruning)
  <2> HIDE DEF x
  <2> QED  BY <1>4, OldNotDeclared
<1> QED  BY <1>3, <1>5, NotDeclared

\* A function depended on and introduced more than once: the script cannot be read.
LEMMA DeclaredAgainNotReadable ==
    ASSUME NEW t \in Seq(Commands), NEW p, NEW place, NEW pruning, NEW out, NEW v, NEW d, NEW pos,
           PrintedOf(t, p, place, pruning, out, v, d, pos),
           NEW r \in DependsIn(t), t[r].command = "declare-fun", ~IntroducedOnce(t, r)
    PROVE  ~Readable(out)
<1>1. ReadFrom(t, p, place) /\ FunctionsMade(t, p, place)
  BY DEF PrintedOf, ReadFrom
<1>2. t[r].command \in OfFunctions /\ KindOf(t[r].command) = "dec"
  BY DEF OfFunctions, KindOf
<1>3. PICK k \in Ids(p) :
         /\ place[k] = r
         /\ p.function_names[k] = t[r].name
         /\ p.funs[k].kind = "dec"
         /\ p.funs[k].name.of = p.function_names[k]
         /\ KeptFunction(p, k) => ApplyFun(p, k) \subseteq Graph(p).nodes
  BY <1>1, <1>2, FunctionDependedOn
<1>4. KeptFunction(p, k)
  BY <1>3 DEF KeptFunction
<1>5. r \in 1..Len(t) /\ r \in IntroducingIn(t, t[r].name)
  BY <1>1, DependsClosed DEF ReadFrom, IntroducingIn, Introducing
<1>6. PICK j \in IntroducingIn(t, t[r].name) : j # r
  BY <1>5 DEF IntroducedOnce
<1>7. j \in 1..Len(t) /\ t[j].command \in OfFunctions /\ t[j].name = t[r].name
  BY <1>2, <1>5, <1>6, NamesApart DEF IntroducingIn
<1>8. PICK l \in Ids(p) : place[l] = j
  BY <1>1, <1>7 DEF FunctionsMade
<1>9. p.function_names[l] = p.function_names[k] /\ l # k
  BY <1>1, <1>3, <1>6, <1>7, <1>8 DEF FunctionsMade, FunctionMade
<1> DEFINE name == p.funs[k].name
           x == UFApply(name)
<1>10. x \in Graph(p).nodes
  BY <1>3, <1>4 DEF ApplyFun
<1>11. x.at = "uf" /\ x.name = name
  BY DEF UFApply
<1>12. name \in FNames
  BY <1>1, FunctionTyped
<1> HIDE DEF x
<1>13. CASE name.dup = 0
  <2>1. name = Plain(p.function_names[k])
    BY <1>3, <1>12, <1>13 DEF FNames, Plain
  <2>2. name \in NamesAt(Graph(p), "uf")
    BY <1>10, <1>11 DEF NamesAt
  <2>3. k \in ListedIds(p, NewNames(p))
    BY <2>1, <2>2, NamesGiven DEF ListedIds
  <2> QED  BY <1>9, <2>3, Repeated
<1>14. CASE name.dup # 0
  <2>1. NodeName(x, pruning) = <<"UF", name>>
    BY <1>11 DEF NodeName
  <2>2. \A f : Plain(f).dup = 0
    BY DEF Plain
  <2>3. \A i \in 1..Len(d) : d[i].declares # NodeName(x, pruning)
    <3> HIDE DEF name
    <3> SUFFICES ASSUME NEW i \in 1..Len(d), d[i].declares = <<"UF", name>>  PROVE FALSE
      BY <2>1
    <3>1. \A n : <<"S", n>> # <<"UF", name>>
      OBVIOUS
    <3>2. PICK l2 \in ListedIds(p, NewNames(p)), prefix \in {"FDEF", "FREC", "UF"} :
             d[i].declares = <<prefix, Plain(p.function_names[l2])>>
      BY <3>1, WhatIsDeclared DEF NewlyNamed
    <3>3. name = Plain(p.function_names[l2])
      BY <3>2
    <3> QED  BY <1>14, <2>2, <3>3
  <2> QED  BY <1>10, <2>3, NotDeclared
<1> QED  BY <1>13, <1>14

\* So a script that can be read met none of the three obstacles.
LEMMA ReadableMeetsNoObstacle ==
    ASSUME NEW t \in Seq(Commands), NEW p, NEW place, NEW pruning \in BOOLEAN, NEW out,
           NEW v, NEW d, NEW pos,
           PrintedOf(t, p, place, pruning, out, v, d, pos), Readable(out)
    PROVE  NoObstacle(t, pruning)
<1>1. DependsAs(t, {"define-fun-rec"}) = {}
  BY RecursiveNotReadable DEF DependsAs
<1>2. \A i \in DependsAs(t, {"declare-fun"}) : IntroducedOnce(t, i)
  BY DeclaredAgainNotReadable DEF DependsAs
<1>3. pruning \/ DependsAs(t, {"declare-const"}) = {}
  BY ConstantNotReadable DEF DependsAs
<1> QED  BY <1>1, <1>2, <1>3 DEF NoObstacle

(***************************************************************************)
(* Where there is no obstacle and nothing was thrown, each name printed is *)
(* that of one function, which is one depended on.                         *)
(***************************************************************************)
Unobstructed(t, p, place, pruning) ==
    /\ ReadFrom(t, p, place)
    /\ pruning \in BOOLEAN
    /\ NoObstacle(t, pruning)
    /\ ~UnknownDefinition(p, Graph(p))

OnlyOfName(p, k) == \A l \in Ids(p) : p.function_names[l] = p.function_names[k] => l = k

\* When the kernel knows all definitions, a definition in the graph is the only
\* function of its name.
LEMMA DefinitionAlone ==
    ASSUME NEW t \in Seq(Commands), NEW p, NEW place, ReadFrom(t, p, place),
           ~UnknownDefinition(p, Graph(p)),
           NEW k \in Graph(p).funs, p.funs[k].kind = "def"
    PROVE  OnlyOfName(p, k)
<1>1. k \in Ids(p) /\ p.funs[k].name = Plain(p.function_names[k])
  BY DefinitionsPlain
<1>2. p.funs[k].name.of \in DefFunIds(p)
  BY DEF UnknownDefinition, VisitedOf
<1>3. p.function_names[k] \in DefFunIds(p)
  BY <1>1, <1>2 DEF Plain
<1>4. p.funs[LastOf(p, k)].kind = "def"
  BY <1>3 DEF DefFunIds, LastOf, Plain
<1> DEFINE last == LastOf(p, k)
<1>5. /\ last \in Ids(p) /\ p.function_names[last] = p.function_names[k]
      /\ p.function_names[k] \in Names
  BY <1>1, LastTyped
<1>6. IsLast(p, last, p.function_names[k])
  BY <1>5, Zenon DEF ReadFrom, KeysLeadToLast, LastOf
<1> HIDE DEF last
<1>7. FunctionMade(t, p, place, last) /\ p.funs[last].kind = "def"
  BY <1>4, <1>5 DEF ReadFrom, FunctionsMade, last
<1>8. t[place[last]].command \in Defining
  BY <1>7 DEF FunctionMade, KindOf, OfFunctions, Defining
<1>9. \A l \in 1..(last - 1) : p.function_names[l] # p.function_names[last]
  BY <1>7, <1>8 DEF FunctionMade
<1>10. \A l \in Ids(p) : p.function_names[l] = p.function_names[k] => l = last
  <2> TAKE l \in Ids(p)
  <2> HAVE p.function_names[l] = p.function_names[k]
  <2>1. l <= last /\ l \notin 1..(last - 1)
    BY <1>5, <1>6, <1>9 DEF IsLast
  <2>2. Len(p.funs) \in Nat
    BY FunctionTyped
  <2> QED  BY <1>5, <2>1, <2>2 DEF Ids
<1> QED  BY <1>1, <1>10 DEF OnlyOfName

\* Without obstacles a declared function depended on is the only function of its name.
LEMMA DeclarationAlone ==
    ASSUME NEW t \in Seq(Commands), NEW p, NEW place, NEW pruning,
           ReadFrom(t, p, place), NoObstacle(t, pruning),
           NEW k \in Ids(p), place[k] \in DependsIn(t), p.funs[k].kind = "dec"
    PROVE  OnlyOfName(p, k) /\ p.funs[k].name = Plain(p.function_names[k])
<1>1. /\ \A l \in Ids(p) : FunctionMade(t, p, place, l) /\ place[l] \in 1..Len(t)
      /\ FunctionsMade(t, p, place)
  BY DEF ReadFrom, FunctionsMade
<1>2. t[place[k]].command = "declare-fun"
  BY <1>1 DEF FunctionMade, KindOf, OfFunctions, Defining
<1>3. IntroducingIn(t, t[place[k]].name) = {place[k]}
  BY <1>2 DEF NoObstacle, DependsAs, IntroducedOnce
<1>4. \A l \in Ids(p) : p.function_names[l] = p.function_names[k] => place[l] = place[k]
  <2> TAKE l \in Ids(p)
  <2> HAVE p.function_names[l] = p.function_names[k]
  <2>1. t[place[l]].name = t[place[k]].name /\ t[place[l]].command \in Introducing
    BY <1>1 DEF FunctionMade, OfFunctions, Introducing
  <2>2. place[l] \in IntroducingIn(t, t[place[k]].name)
    BY <1>1, <2>1 DEF IntroducingIn
  <2> QED  BY <1>3, <2>2
<1>5. OnlyOfName(p, k)
  BY <1>1, <1>4, FunctionTyped, PlacesApart DEF OnlyOfName
<1>6. \A l \in 1..(k - 1) : p.function_names[l] # p.function_names[k]
  <2> TAKE l \in 1..(k - 1)
  <2>1. l \in Ids(p) /\ l # k
    BY FunctionTyped DEF Ids
  <2> QED  BY <1>5, <2>1 DEF OnlyOfName
<1>7. p.funs[k].name.dup = 0 /\ p.funs[k].name.of = p.function_names[k]
  BY <1>1, <1>6 DEF FunctionMade
<1>8. p.funs[k].name \in FNames
  BY FunctionTyped
<1>9. p.funs[k].name = Plain(p.function_names[k])
  BY <1>7, <1>8 DEF FNames, Plain
<1> QED  BY <1>5, <1>9

\* Different names differ as plain names of functions.
LEMMA PlainApart == ASSUME NEW f, NEW g, Plain(f) = Plain(g)  PROVE f = g
  BY DEF Plain

\* Without obstacles no function depended on is recursive.
LEMMA NoneRecursive ==
    ASSUME NEW t \in Seq(Commands), NEW p, NEW place, NEW pruning,
           ReadFrom(t, p, place), NoObstacle(t, pruning),
           NEW k \in Ids(p), place[k] \in DependsIn(t)
    PROVE  p.funs[k].kind # "rec"
<1>1. FunctionMade(t, p, place, k)
  BY DEF ReadFrom, FunctionsMade
<1>2. t[place[k]].command # "define-fun-rec"
  BY DEF NoObstacle, DependsAs
<1> QED  BY <1>1, <1>2 DEF FunctionMade, KindOf, OfFunctions, Defining

\* The nodes of the graph, where there is no obstacle.
LEMMA NodesUnobstructed ==
    ASSUME NEW t \in Seq(Commands), NEW p, NEW place, NEW pruning,
           Unobstructed(t, p, place, pruning), NEW x \in Graph(p).nodes
    PROVE  \/ x.at = "var" /\ pruning
           \/ /\ x.at = "uf"
              /\ \E k \in Ids(p) : /\ place[k] \in DependsIn(t)
                                   /\ p.funs[k].kind = "dec"
                                   /\ x.name = p.funs[k].name
           \/ /\ x.at = "apply"
              /\ x.id \in Graph(p).funs
              /\ p.funs[x.id].kind = "def"
              /\ x.name = p.funs[x.id].name
<1>1. ReadFrom(t, p, place) /\ NoObstacle(t, pruning)
  BY DEF Unobstructed
<1>2. PICK r \in DependsIn(t) : StandsFor(t, p, place, r, x)
  BY <1>1, GraphNodes
<1>3. CASE t[r].command = "declare-const" /\ x = Var(t[r].name)
  <2>1. x.at = "var"
    BY <1>3 DEF Var
  <2>2. r \in DependsAs(t, {"declare-const"})
    BY <1>3 DEF DependsAs
  <2>3. pruning
    BY <1>1, <2>2 DEF NoObstacle
  <2> QED  BY <2>1, <2>3
<1>4. CASE t[r].command = "define-fun-rec"
  BY <1>1, <1>4 DEF NoObstacle, DependsAs
<1>5. ASSUME NEW k \in Ids(p), place[k] = r, KeptFunction(p, k), x \in ApplyFun(p, k)
      PROVE  \/ /\ x.at = "uf" /\ p.funs[k].kind = "dec" /\ x.name = p.funs[k].name
             \/ /\ x.at = "apply" /\ x.id = k /\ k \in Graph(p).funs
                /\ p.funs[k].kind = "def" /\ x.name = p.funs[k].name
  <2>1. p.funs[k].kind \in {"dec", "def"}
    BY <1>1, <1>5, FunctionTyped, NoneRecursive
  <2>2. CASE p.funs[k].kind = "dec"
    <3>1. x = UFApply(p.funs[k].name)
      BY <1>5, <2>2 DEF ApplyFun
    <3> QED  BY <2>2, <3>1 DEF UFApply
  <2>3. CASE p.funs[k].kind = "def"
    <3>1. x = FuncApply(k, p.funs[k].name)
      BY <1>5, <2>3 DEF ApplyFun, KeptFunction
    <3>2. k \in Graph(p).funs
      BY <1>1, <1>5, <2>3, GraphFunctions
    <3> QED  BY <2>3, <3>1, <3>2 DEF FuncApply
  <2> QED  BY <2>1, <2>2, <2>3
<1> QED  BY <1>2, <1>3, <1>4, <1>5 DEF StandsFor

\* Without obstacles what is printed under a name is the one function of that name.
LEMMA ListedUnobstructed ==
    ASSUME NEW t \in Seq(Commands), NEW p, NEW place, NEW pruning,
           Unobstructed(t, p, place, pruning), NEW k \in ListedIds(p, NewNames(p))
    PROVE  LET n == Plain(p.function_names[k])
           IN /\ k \in Ids(p)
              /\ OnlyOfName(p, k)
              /\ LastOf(p, k) = k
              /\ \/ /\ p.funs[k].kind = "def" /\ k \in Graph(p).funs
                    /\ NewNames(p)[n] = <<"FDEF", n>>
                 \/ p.funs[k].kind = "dec" /\ NewNames(p)[n] = <<"UF", n>>
<1>1. ReadFrom(t, p, place) /\ NoObstacle(t, pruning) /\ ~UnknownDefinition(p, Graph(p))
  BY DEF Unobstructed
<1>2. k \in Ids(p) /\ Plain(p.function_names[k]) \in DOMAIN NewNames(p)
  BY DEF ListedIds
<1>3. PICK n : n = Plain(p.function_names[k])
  BY Zenon
<1>4. n \notin VisitedNames(p, "rec")
  <2> SUFFICES ASSUME NEW l \in Graph(p).funs, p.funs[l].kind = "rec"  PROVE FALSE
    BY DEF VisitedNames, VisitedOf
  <2>1. l \in Ids(p) /\ place[l] \in DependsIn(t)
    BY <1>1, GraphFunctions
  <2> QED  BY <1>1, <2>1, NoneRecursive
<1>5. CASE n \in VisitedNames(p, "def")
  <2>1. PICK l \in Graph(p).funs : p.funs[l].kind = "def" /\ p.funs[l].name = n
    BY <1>5 DEF VisitedNames, VisitedOf
  <2>2. OnlyOfName(p, l) /\ l \in Ids(p) /\ n = Plain(p.function_names[l])
    BY <1>1, <2>1, DefinitionAlone, DefinitionsPlain
  <2>3. l = k
    BY <1>2, <1>3, <2>2, PlainApart DEF OnlyOfName
  <2>4. NewNames(p)[n] = <<"FDEF", n>>
    BY <1>2, <1>3, <1>5, NamesGiven
  <2>5. LastOf(p, k) = k
    BY <1>1, <1>2, <2>2, <2>3, LastTyped DEF OnlyOfName
  <2> QED  BY <1>2, <1>3, <2>1, <2>2, <2>3, <2>4, <2>5
<1>6. CASE n \notin VisitedNames(p, "def")
  <2>1. n \in NamesAt(Graph(p), "uf")
    BY <1>2, <1>3, <1>4, <1>6, NamesGiven
  <2>2. PICK x \in Graph(p).nodes : x.at = "uf" /\ x.name = n
    BY <2>1 DEF NamesAt
  <2>3. PICK l \in Ids(p) : place[l] \in DependsIn(t) /\ p.funs[l].kind = "dec" /\ n = p.funs[l].name
    BY <2>2, NodesUnobstructed
  <2>4. OnlyOfName(p, l) /\ n = Plain(p.function_names[l])
    BY <1>1, <2>3, DeclarationAlone
  <2>5. l = k
    BY <1>2, <1>3, <2>4, PlainApart DEF OnlyOfName
  <2>6. NewNames(p)[n] = <<"UF", n>>
    BY <1>2, <1>3, <1>4, <1>6, NamesGiven
  <2>7. LastOf(p, k) = k
    BY <1>1, <1>2, <2>4, <2>5, LastTyped DEF OnlyOfName
  <2> QED  BY <1>2, <1>3, <2>3, <2>4, <2>5, <2>6, <2>7
<1> QED  BY <1>5, <1>6

(***************************************************************************)
(* And the printed script can be read.                                     *)
(***************************************************************************)
\* Declaration j is of x: of a variable, of a declared function or of x's own.
DeclaredAs(t, p, v, d, pos, x, j) ==
    /\ j \in 1..Len(d)
    /\ \/ j \in 1..Len(v)
       \/ \E k \in ListedIds(p, NewNames(p)) :
             /\ pos[k] = j
             /\ \/ p.funs[k].kind = "dec"
                \/ p.funs[k].kind = "def" /\ x.at = "apply" /\ x.id = k

\* Without obstacles each node of the graph is declared under the name it is printed
\* with.
LEMMA NodesDeclared ==
    ASSUME NEW t \in Seq(Commands), NEW p, NEW place, NEW pruning, NEW out,
           NEW v, NEW d, NEW pos,
           PrintedOf(t, p, place, pruning, out, v, d, pos),
           Unobstructed(t, p, place, pruning), NEW x \in Graph(p).nodes
    PROVE  \E j : /\ DeclaredAs(t, p, v, d, pos, x, j)
                  /\ d[j].declares = NodeName(x, pruning)
<1>1. ReadFrom(t, p, place) /\ NoObstacle(t, pruning)
  BY DEF Unobstructed
<1>2. CASE x.at = "var" /\ pruning
  <2>1. x.name \in NamesAt(Graph(p), "var")
    BY <1>2 DEF NamesAt
  <2>2. PICK j \in 1..Len(v) : v[j] = x.name
    BY <1>2, <2>1 DEF PrintedOf, ListedOf
  <2>3. j \in 1..Len(d) /\ d[j] = Declaration(<<"S", v[j]>>, FALSE, {})
    BY DEF PrintedOf, Layout
  <2>4. NodeName(x, pruning) = <<"S", x.name>>
    BY <1>2 DEF NodeName
  <2>5. d[j].declares = <<"S", v[j]>>
    BY <2>3 DEF Declaration
  <2> QED  BY <2>2, <2>3, <2>4, <2>5 DEF DeclaredAs
<1>3. ASSUME NEW k \in ListedIds(p, NewNames(p))
      PROVE  /\ pos[k] \in 1..Len(d)
             /\ d[pos[k]].declares = NewNames(p)[Plain(p.function_names[k])]
  <2>1. pos[k] \in 1..Len(d) /\ d[pos[k]] = EntryOf(p, NewNames(p), pruning, k)
    BY DEF PrintedOf, Layout
  <2> QED  BY <2>1, EntryFields
<1>4. ASSUME x.at = "uf",
             NEW k \in Ids(p), place[k] \in DependsIn(t), p.funs[k].kind = "dec",
             x.name = p.funs[k].name
      PROVE  \E j : /\ DeclaredAs(t, p, v, d, pos, x, j)
                    /\ d[j].declares = NodeName(x, pruning)
  <2>1. x.name = Plain(p.function_names[k])
    BY <1>1, <1>4, DeclarationAlone
  <2>2. k \in ListedIds(p, NewNames(p))
    <3>1. x.name \in NamesAt(Graph(p), "uf")
      BY <1>4 DEF NamesAt
    <3> QED  BY <2>1, <3>1, NamesGiven DEF ListedIds
  <2>3. NewNames(p)[Plain(p.function_names[k])] = <<"UF", Plain(p.function_names[k])>>
    BY <1>4, <2>2, ListedUnobstructed
  <2>4. NodeName(x, pruning) = <<"UF", x.name>>
    BY <1>4 DEF NodeName
  <2>5. d[pos[k]].declares = NodeName(x, pruning) /\ pos[k] \in 1..Len(d)
    BY <1>3, <2>1, <2>2, <2>3, <2>4
  <2>6. DeclaredAs(t, p, v, d, pos, x, pos[k])
    BY <1>4, <2>2, <2>5, Zenon DEF DeclaredAs
  <2> QED  BY <2>5, <2>6
<1>5. ASSUME x.at = "apply", x.id \in Graph(p).funs, p.funs[x.id].kind = "def",
             x.name = p.funs[x.id].name
      PROVE  \E j : /\ DeclaredAs(t, p, v, d, pos, x, j)
                    /\ d[j].declares = NodeName(x, pruning)
  <2>1. PICK k \in Graph(p).funs : k = x.id
    BY <1>5
  <2>2. k \in ListedIds(p, NewNames(p)) /\ p.funs[k].name = Plain(p.function_names[k])
    BY <1>1, DefinitionsPlain
  <2>3. NewNames(p)[Plain(p.function_names[k])] = <<"FDEF", Plain(p.function_names[k])>>
    BY <1>5, <2>1, <2>2, ListedUnobstructed
  <2>4. NodeName(x, pruning) = <<"FDEF", x.name>>
    BY <1>5 DEF NodeName
  <2>5. d[pos[k]].declares = NodeName(x, pruning) /\ pos[k] \in 1..Len(d)
    BY <1>3, <1>5, <2>1, <2>2, <2>3, <2>4
  <2>6. DeclaredAs(t, p, v, d, pos, x, pos[k])
    BY <1>5, <2>1, <2>2, <2>5 DEF DeclaredAs
  <2> QED  BY <2>5, <2>6
<1> QED  BY <1>2, <1>4, <1>5, NodesUnobstructed

\* A declared function has no body.
LEMMA DeclaredHasNoBody ==
    ASSUME NEW t \in Seq(Commands), NEW p, NEW place, ReadFrom(t, p, place),
           NEW k \in Ids(p), p.funs[k].kind = "dec"
    PROVE  p.funs[k].body = {}
<1>1. /\ FunctionMade(t, p, place, k) /\ place[k] \in 1..Len(t)
      /\ p.funs[k].body = TermAt(t, p, place, place[k])
  BY DEF ReadFrom, FunctionsMade, TermsRead
<1>2. t[place[k]] \in Commands /\ t[place[k]].command = "declare-fun"
  BY <1>1 DEF FunctionMade, KindOf, OfFunctions, Defining
<1>3. t[place[k]].uses = {}
  BY <1>2, ScriptAssumption
<1> QED  BY <1>1, <1>3 DEF TermAt

\* Without obstacles nothing is declared twice.
LEMMA DeclaredOnce ==
    ASSUME NEW t \in Seq(Commands), NEW p, NEW place, NEW pruning, NEW out,
           NEW v, NEW d, NEW pos,
           PrintedOf(t, p, place, pruning, out, v, d, pos),
           Unobstructed(t, p, place, pruning),
           NEW i \in 1..Len(d), NEW j \in 1..Len(d), d[i].declares = d[j].declares
    PROVE  i = j
<1>1. \A l \in 1..Len(v) : d[l].declares = <<"S", v[l]>>
  <2> TAKE l \in 1..Len(v)
  <2>1. d[l] = Declaration(<<"S", v[l]>>, FALSE, {})
    BY DEF PrintedOf, Layout
  <2> QED  BY <2>1 DEF Declaration
<1>2. \A k \in ListedIds(p, NewNames(p)) :
         d[pos[k]].declares = NewNames(p)[Plain(p.function_names[k])]
  <2>1. \A k \in ListedIds(p, NewNames(p)) : d[pos[k]] = EntryOf(p, NewNames(p), pruning, k)
    BY DEF PrintedOf, Layout
  <2> QED  BY <2>1, EntryFields
<1>3. ASSUME NEW k \in ListedIds(p, NewNames(p))
      PROVE  \E s \in {"FDEF", "UF"} : d[pos[k]].declares = <<s, Plain(p.function_names[k])>>
  <2>1. \/ NewNames(p)[Plain(p.function_names[k])] = <<"FDEF", Plain(p.function_names[k])>>
        \/ NewNames(p)[Plain(p.function_names[k])] = <<"UF", Plain(p.function_names[k])>>
    BY ListedUnobstructed
  <2> QED  BY <1>2, <2>1
<1>4. \A l \in 1..Len(d) : l \in 1..Len(v) \/ \E k \in ListedIds(p, NewNames(p)) : pos[k] = l
  BY DEF PrintedOf, Layout
<1>5. CASE i \in 1..Len(v) /\ j \in 1..Len(v)
  <2>1. v[i] = v[j]
    BY <1>1, <1>5
  <2>2. IF pruning THEN ListedOf(NamesAt(Graph(p), "var"), v) ELSE v = << >>
    BY DEF PrintedOf
  <2> QED  BY <1>5, <2>1, <2>2 DEF ListedOf
<1>6. ASSUME NEW k \in ListedIds(p, NewNames(p)), NEW l \in 1..Len(v)
      PROVE  d[pos[k]].declares # d[l].declares
  BY <1>1, <1>3
<1>7. ASSUME NEW k \in ListedIds(p, NewNames(p)), NEW l \in ListedIds(p, NewNames(p)),
             d[pos[k]].declares = d[pos[l]].declares
      PROVE  k = l
  <2>1. PICK s : d[pos[k]].declares = <<s, Plain(p.function_names[k])>>
    BY <1>3
  <2>2. PICK r : d[pos[l]].declares = <<r, Plain(p.function_names[l])>>
    BY <1>3
  <2>3. Plain(p.function_names[k]) = Plain(p.function_names[l])
    <3>1. PICK m, n : m = Plain(p.function_names[k]) /\ n = Plain(p.function_names[l])
      BY Zenon
    <3>2. <<s, m>> = <<r, n>>
      BY <1>7, <2>1, <2>2, <3>1, Zenon
    <3> QED  BY <3>1, <3>2
  <2>4. p.function_names[l] = p.function_names[k]
    BY <2>3, PlainApart
  <2> QED  BY <2>4, ListedUnobstructed DEF OnlyOfName
<1>8. CASE i \in 1..Len(v) /\ j \notin 1..Len(v)
  BY <1>4, <1>6, <1>8
<1>9. CASE i \notin 1..Len(v) /\ j \in 1..Len(v)
  BY <1>4, <1>6, <1>9
<1>10. CASE i \notin 1..Len(v) /\ j \notin 1..Len(v)
  BY <1>4, <1>7, <1>10
<1> QED  BY <1>5, <1>8, <1>9, <1>10

\* Without obstacles the script can be read.
LEMMA UnobstructedReadable ==
    ASSUME NEW t \in Seq(Commands), NEW p, NEW place, NEW pruning, NEW out,
           NEW v, NEW d, NEW pos,
           PrintedOf(t, p, place, pruning, out, v, d, pos),
           Unobstructed(t, p, place, pruning)
    PROVE  Readable(out)
<1> DEFINE By(i) == {d[j].declares : j \in 1..(i - 1)}
<1>1. ReadFrom(t, p, place)
  BY DEF PrintedOf
<1>2. /\ Len(d) \in Nat /\ Len(v) \in Nat /\ DOMAIN d = 1..Len(d)
      /\ out.declarations = d
      /\ \A l \in 1..Len(v) : d[l] = Declaration(<<"S", v[l]>>, FALSE, {})
      /\ pos \in [ListedIds(p, NewNames(p)) -> (Len(v) + 1)..Len(d)]
      /\ \A l \in 1..Len(d) : l \in 1..Len(v) \/ \E k \in ListedIds(p, NewNames(p)) : pos[k] = l
  BY DEF PrintedOf, Layout
<1>3. \A i \in 1..(Len(d) + 1) : \A j \in 1..Len(d) : j < i => d[j].declares \in By(i)
  <2> TAKE i \in 1..(Len(d) + 1)
  <2> TAKE j \in 1..Len(d)
  <2> HAVE j < i
  <2>1. j \in 1..(i - 1)
    BY <1>2
  <2> QED  BY <2>1
<1>4. ASSUME NEW i \in 1..Len(d)  PROVE d[i].declares \notin By(i)
  <2> SUFFICES ASSUME NEW j \in 1..(i - 1), d[j].declares = d[i].declares  PROVE FALSE
    OBVIOUS
  <2>1. j \in 1..Len(d) /\ j # i
    BY <1>2
  <2>2. i = j
    <3> HIDE DEF By
    <3> QED  BY <2>1, DeclaredOnce
  <2> QED  BY <2>1, <2>2
<1>5. ASSUME NEW i \in 1..Len(v)  PROVE d[i].uses = {}
  <2>1. d[i] = Declaration(<<"S", v[i]>>, FALSE, {})
    BY <1>2
  <2> QED  BY <2>1 DEF Declaration
<1>6. ASSUME NEW k \in ListedIds(p, NewNames(p))
      PROVE  d[pos[k]].uses = Printed(p.funs[k].body, pruning)
  <2>1. d[pos[k]] = EntryOf(p, NewNames(p), pruning, k)
    BY DEF PrintedOf, Layout
  <2>2. LastOf(p, k) = k
    BY ListedUnobstructed
  <2> QED  BY <2>1, <2>2, EntryFields
<1>7. ASSUME NEW k \in ListedIds(p, NewNames(p)), NEW x \in p.funs[k].body
      PROVE  NodeName(x, pruning) \in By(pos[k])
  <2>1. /\ k \in Ids(p) /\ LastOf(p, k) = k
        /\ p.funs[k].kind = "dec" \/ (p.funs[k].kind = "def" /\ k \in Graph(p).funs)
    BY ListedUnobstructed
  <2>2. p.funs[k].kind # "dec"
    BY <1>1, <1>7, <2>1, DeclaredHasNoBody
  <2>3. x \in Graph(p).nodes
    BY <1>1, <1>7, <2>1, <2>2, GraphClosed
  <2>4. PICK j : DeclaredAs(t, p, v, d, pos, x, j) /\ d[j].declares = NodeName(x, pruning)
    BY <2>3, NodesDeclared
  <2>5. j \in 1..Len(d) /\ pos[k] \in (Len(v) + 1)..Len(d)
    BY <1>2, <2>4 DEF DeclaredAs
  <2>6. CASE j \in 1..Len(v)
    <3>1. j < pos[k]
      BY <1>2, <2>5, <2>6
    <3> QED  BY <1>2, <1>3, <2>4, <2>5, <3>1
  <2>7. ASSUME NEW l \in ListedIds(p, NewNames(p)), pos[l] = j,
               p.funs[l].kind = "dec" \/ (p.funs[l].kind = "def" /\ x.at = "apply" /\ x.id = l)
        PROVE  NodeName(x, pruning) \in By(pos[k])
    <3>1. LastOf(p, l) = l
      BY ListedUnobstructed
    <3>2. p.funs[l].kind = "dec" \/ (p.funs[l].kind = "def" /\ l < k)
      <4>1. CASE x.at = "apply" /\ x.id = l
        <5>1. l \in OperandFunctions(p.funs[k].body)
          BY <1>7, <4>1, InOperandFunctions
        <5>2. l \in 1..(k - 1) /\ k \in Nat
          BY <1>1, <2>1, <5>1, OperandsLower, FunctionTyped
        <5> QED  BY <2>7, <5>2
      <4> QED  BY <2>7, <4>1
    <3>3. pos[l] < pos[k]
      BY <2>1, <2>2, <3>1, <3>2 DEF PrintedOf, Layout
    <3> QED  BY <1>2, <1>3, <2>4, <2>5, <2>7, <3>3
  <2> QED  BY <2>4, <2>6, <2>7 DEF DeclaredAs
<1>8. ASSUME NEW x \in Graph(p).asserted  PROVE NodeName(x, pruning) \in By(Len(d) + 1)
  <2>1. x \in Graph(p).nodes
    BY <1>1, <1>8, GraphClosed
  <2>2. PICK j : DeclaredAs(t, p, v, d, pos, x, j) /\ d[j].declares = NodeName(x, pruning)
    BY <2>1, NodesDeclared
  <2>3. j \in 1..Len(d)
    BY <2>2 DEF DeclaredAs
  <2> QED  BY <1>2, <1>3, <2>2, <2>3
<1> HIDE DEF By
<1>9. \A i \in 1..Len(d) : d[i].uses \subseteq By(i)
  <2> TAKE i \in 1..Len(d)
  <2>1. CASE i \in 1..Len(v)
    BY <1>5, <2>1
  <2>2. ASSUME NEW k \in ListedIds(p, NewNames(p)), pos[k] = i  PROVE d[i].uses \subseteq By(i)
    BY <1>6, <1>7, <2>2 DEF Printed
  <2> QED  BY <1>2, <2>1, <2>2
<1>10. out.asserted \subseteq By(Len(d) + 1)
  <2>1. out.asserted = Printed(Graph(p).asserted, pruning)
    BY DEF PrintedOf
  <2> QED  BY <1>8, <2>1 DEF Printed
<1> QED  BY <1>2, <1>4, <1>9, <1>10 DEF Readable, By

(***************************************************************************)
(* How many constants and definitions are declared.                        *)
(***************************************************************************)
ConstantNames(t) == {t[i].name : i \in DependsAs(t, {"declare-const"})}

\* The variables of the graph are the constants depended on.
LEMMA VariablesNamed ==
    ASSUME NEW t \in Seq(Commands), NEW p, NEW place, ReadFrom(t, p, place), NEW n
    PROVE  n \in NamesAt(Graph(p), "var") <=> \E f \in ConstantNames(t) : n = Plain(f)
<1>1. ASSUME NEW x \in Graph(p).nodes, x.at = "var"
      PROVE  \E f \in ConstantNames(t) : x.name = Plain(f)
  <2>1. PICK r \in DependsIn(t) : StandsFor(t, p, place, r, x)
    BY GraphNodes
  <2>2. \A name, id : /\ UFApply(name).at # "var" /\ RecApply(id, name).at # "var"
                      /\ FuncApply(id, name).at # "var"
    BY DEF UFApply, RecApply, FuncApply
  <2>3. ~\E k \in Ids(p) : KeptFunction(p, k) /\ x \in ApplyFun(p, k)
    <3> SUFFICES ASSUME NEW k \in Ids(p), KeptFunction(p, k), x \in ApplyFun(p, k)  PROVE FALSE
      OBVIOUS
    <3>1. p.funs[k].kind \in {"dec", "def", "rec"}
      BY FunctionTyped
    <3> QED  BY <1>1, <2>2, <3>1 DEF ApplyFun, KeptFunction
  <2>4. t[r].command = "declare-const" /\ x = Var(t[r].name)
    BY <1>1, <2>1, <2>2, <2>3 DEF StandsFor
  <2>5. t[r].name \in ConstantNames(t)
    BY <2>4 DEF ConstantNames, DependsAs
  <2>6. x.name = Plain(t[r].name)
    BY <2>4 DEF Var
  <2> QED  BY <2>5, <2>6
<1>2. ASSUME NEW f \in ConstantNames(t)  PROVE Plain(f) \in NamesAt(Graph(p), "var")
  <2>1. PICK r \in DependsIn(t) : t[r].command = "declare-const" /\ f = t[r].name
    BY DEF ConstantNames, DependsAs
  <2>2. StandsFor(t, p, place, r, Var(f))
    BY <2>1 DEF StandsFor
  <2>3. Var(f) \in Graph(p).nodes
    BY <2>2, GraphNodes
  <2>4. Var(f).at = "var" /\ Var(f).name = Plain(f)
    BY DEF Var
  <2> QED  BY <2>3, <2>4 DEF NamesAt
<1>3. n \in NamesAt(Graph(p), "var") => \E f \in ConstantNames(t) : n = Plain(f)
  BY <1>1 DEF NamesAt
<1> QED  BY <1>2, <1>3

\* There are as many of them.
LEMMA VariablesCounted ==
    ASSUME NEW t \in Seq(Commands), NEW p, NEW place, ReadFrom(t, p, place)
    PROVE  /\ IsFiniteSet(NamesAt(Graph(p), "var"))
           /\ Cardinality(NamesAt(Graph(p), "var")) = Cardinality(ConstantNames(t))
<1> DEFINE D == DependsAs(t, {"declare-const"})
           S == ConstantNames(t)
           T == NamesAt(Graph(p), "var")
           name == [i \in D |-> t[i].name]
           plain == [f \in S |-> Plain(f)]
<1>1. IsFiniteSet(D)
  <2>1. Len(t) \in Nat /\ D \subseteq 1..Len(t)
    BY DependsClosed DEF ReadFrom, DependsAs
  <2> HIDE DEF D
  <2> QED  BY <2>1, PlacesFinite
<1>2. IsFiniteSet(S)
  <2>1. name \in [D -> S] /\ \A z \in S : \E x \in D : name[x] = z
    BY DEF ConstantNames
  <2> HIDE DEF D, S, name
  <2> QED  BY <1>1, <2>1, ImageFinite
<1>3. plain \in [S -> T] /\ (\A z \in T : \E x \in S : plain[x] = z)
  BY VariablesNamed
<1>4. \A x, y \in S : plain[x] = plain[y] => x = y
  BY PlainApart
<1> HIDE DEF S, T, plain
<1>5. IsFiniteSet(T) /\ Cardinality(T) = Cardinality(S)
  BY <1>2, <1>3, <1>4, SameCount
<1> QED  BY <1>5 DEF S, T

\* There is nothing in the empty set.
LEMMA NothingCounted == Cardinality({}) = 0
  BY FS_EmptySet

\* With pruning as many constants are declared as are depended on, without it none.
LEMMA VariablesDeclaredRight ==
    ASSUME NEW t \in Seq(Commands), NEW p, NEW place, NEW pruning \in BOOLEAN, NEW out,
           NEW v, NEW d, NEW pos,
           PrintedOf(t, p, place, pruning, out, v, d, pos)
    PROVE  Cardinality(DeclaredIn(out, "S")) = IF pruning THEN Cardinality(ConstantNames(t)) ELSE 0
<1>1. /\ Len(v) \in Nat /\ DOMAIN d = 1..Len(d) /\ out.declarations = d
      /\ ReadFrom(t, p, place)
      /\ \A i \in 1..Len(v) : i \in 1..Len(d) /\ d[i] = Declaration(<<"S", v[i]>>, FALSE, {})
      /\ \A i \in 1..Len(d) : i \in 1..Len(v) \/ \E k \in ListedIds(p, NewNames(p)) : pos[k] = i
      /\ \A k \in ListedIds(p, NewNames(p)) : d[pos[k]] = EntryOf(p, NewNames(p), pruning, k)
  BY DEF PrintedOf, Layout
<1>2. \A i \in 1..Len(v) : d[i].declares[1] = "S"
  <2> TAKE i \in 1..Len(v)
  <2>1. d[i] = Declaration(<<"S", v[i]>>, FALSE, {})
    BY <1>1
  <2> QED  BY <2>1 DEF Declaration
<1>3. \A k \in ListedIds(p, NewNames(p)) : d[pos[k]].declares[1] # "S"
  <2> TAKE k \in ListedIds(p, NewNames(p))
  <2>1. d[pos[k]].declares = NewNames(p)[Plain(p.function_names[k])]
    BY <1>1, EntryFields
  <2>2. Plain(p.function_names[k]) \in DOMAIN NewNames(p)
    BY DEF ListedIds
  <2> QED  BY <2>1, <2>2, NamesGiven
<1>4. DeclaredIn(out, "S") = 1..Len(v)
  <2>1. DeclaredIn(out, "S") = {i \in 1..Len(d) : d[i].declares[1] = "S"}
    BY <1>1 DEF DeclaredIn
  <2>2. \A i \in 1..Len(d) : d[i].declares[1] = "S" <=> i \in 1..Len(v)
    BY <1>1, <1>2, <1>3
  <2>3. 1..Len(v) \subseteq 1..Len(d)
    BY <1>1
  <2> QED  BY <2>1, <2>2, <2>3
<1>5. Cardinality(1..Len(v)) = Len(v)
  <2>1. PICK n \in Nat : n = Len(v)
    BY <1>1
  <2>2. Cardinality(1..n) = IF 1 > n THEN 0 ELSE n - 1 + 1
    BY FS_Interval
  <2> QED  BY <2>1, <2>2
<1>6. CASE pruning
  <2>1. Len(v) = Cardinality(NamesAt(Graph(p), "var"))
    BY <1>6 DEF PrintedOf, ListedOf
  <2> QED  BY <1>1, <1>4, <1>5, <1>6, <2>1, VariablesCounted
<1>7. CASE ~pruning
  <2>1. v = << >>
    BY <1>7 DEF PrintedOf
  <2> QED  BY <1>4, <1>5, <1>7, <2>1
<1> QED  BY <1>6, <1>7

\* The definitions in the graph are as many as are depended on; none if they were
\* expanded.
LEMMA DefinitionsCounted ==
    ASSUME NEW t \in Seq(Commands), NEW p, NEW place, ReadFrom(t, p, place)
    PROVE  LET G == VisitedOf(p, Graph(p), "def")
           IN /\ IsFiniteSet(G)
              /\ Cardinality(G) = IF p.expand_functions THEN 0
                                  ELSE Cardinality(DependsAs(t, {"define-fun"}))
<1> DEFINE G == VisitedOf(p, Graph(p), "def")
           D == DependsAs(t, {"define-fun"})
           to == [k \in G |-> place[k]]
<1>1. /\ \A k \in Ids(p) : FunctionMade(t, p, place, k)
      /\ FunctionsMade(t, p, place)
  BY DEF ReadFrom, FunctionsMade
<1>2. \A k : k \in G <=> /\ k \in Ids(p) /\ p.funs[k].kind = "def"
                         /\ ~p.expand_functions /\ place[k] \in DependsIn(t)
  BY GraphFunctions DEF VisitedOf, KeptFunction
<1>3. IsFiniteSet(G)
  <2>1. G \subseteq 1..Len(p.funs) /\ Len(p.funs) \in Nat
    BY <1>2, FunctionTyped DEF Ids
  <2> HIDE DEF G
  <2> QED  BY <2>1, PlacesFinite
<1>4. CASE p.expand_functions
  <2>1. G = {}
    <3> HIDE DEF G
    <3> QED  BY <1>2, <1>4
  <2>2. Cardinality(G) = 0
    <3> HIDE DEF G
    <3> QED  BY <2>1, NothingCounted
  <2> QED  BY <1>3, <1>4, <2>2
<1>5. CASE ~p.expand_functions
  <2>1. \A k \in G : place[k] \in D
    <3> HIDE DEF G
    <3> SUFFICES ASSUME NEW k \in G  PROVE place[k] \in D
      OBVIOUS
    <3>1. t[place[k]].command = "define-fun" /\ place[k] \in DependsIn(t)
      BY <1>1, <1>2 DEF FunctionMade, KindOf, OfFunctions, Defining
    <3> QED  BY <3>1 DEF DependsAs
  <2>2. \A i \in D : \E k \in G : place[k] = i
    <3> SUFFICES ASSUME NEW i \in DependsIn(t), t[i].command = "define-fun"
                 PROVE  \E k \in G : place[k] = i
      BY DEF DependsAs
    <3>1. t[i].command \in OfFunctions /\ KindOf(t[i].command) = "def"
      BY DEF OfFunctions, Defining, KindOf
    <3>2. PICK k \in Ids(p) : place[k] = i /\ p.funs[k].kind = "def"
      BY <3>1, FunctionDependedOn
    <3> HIDE DEF G
    <3> QED  BY <1>2, <1>5, <3>2
  <2>3. \A k, l \in G : place[k] = place[l] => k = l
    <3> HIDE DEF G
    <3> QED  BY <1>1, <1>2, FunctionTyped, PlacesApart
  <2>4. to \in [G -> D] /\ (\A z \in D : \E x \in G : to[x] = z)
        /\ (\A x, y \in G : to[x] = to[y] => x = y)
    <3> HIDE DEF G, D
    <3> QED  BY <2>1, <2>2, <2>3
  <2>5. Cardinality(D) = Cardinality(G)
    <3> HIDE DEF G, D, to
    <3> QED  BY <1>3, <2>4, SameCount
  <2> QED  BY <1>3, <1>5, <2>5
<1> QED  BY <1>4, <1>5

\* As many definitions are declared.
LEMMA DefinitionsDeclaredRight ==
    ASSUME NEW t \in Seq(Commands), NEW p, NEW place, NEW pruning, NEW out,
           NEW v, NEW d, NEW pos,
           PrintedOf(t, p, place, pruning, out, v, d, pos),
           ~UnknownDefinition(p, Graph(p))
    PROVE  Cardinality(DeclaredIn(out, "FDEF"))
              = IF p.expand_functions THEN 0 ELSE Cardinality(DependsAs(t, {"define-fun"}))
<1> DEFINE G == VisitedOf(p, Graph(p), "def")
           T == DeclaredIn(out, "FDEF")
           to == [k \in G |-> pos[k]]
<1>1. /\ DOMAIN d = 1..Len(d) /\ out.declarations = d
      /\ ReadFrom(t, p, place)
      /\ \A i \in 1..Len(v) : i \in 1..Len(d) /\ d[i] = Declaration(<<"S", v[i]>>, FALSE, {})
      /\ \A i \in 1..Len(d) : i \in 1..Len(v) \/ \E k \in ListedIds(p, NewNames(p)) : pos[k] = i
      /\ \A k \in ListedIds(p, NewNames(p)) :
            /\ d[pos[k]] = EntryOf(p, NewNames(p), pruning, k)
            /\ pos[k] \in 1..Len(d)
      /\ \A k, l \in ListedIds(p, NewNames(p)) : pos[k] = pos[l] => k = l
  <2>1. \A k \in ListedIds(p, NewNames(p)) : pos[k] \in 1..Len(d)
    BY DEF PrintedOf, Layout
  <2> QED  BY <2>1 DEF PrintedOf, Layout
<1>2. \A i : i \in T <=> i \in 1..Len(d) /\ d[i].declares[1] = "FDEF"
  BY <1>1 DEF DeclaredIn
<1>3. \A i \in 1..Len(v) : d[i].declares[1] # "FDEF"
  <2> TAKE i \in 1..Len(v)
  <2>1. d[i] = Declaration(<<"S", v[i]>>, FALSE, {})
    BY <1>1
  <2> QED  BY <2>1 DEF Declaration
<1>4. ASSUME NEW k \in G  PROVE k \in ListedIds(p, NewNames(p)) /\ pos[k] \in T
  <2>1. k \in Graph(p).funs /\ p.funs[k].kind = "def"
    BY DEF VisitedOf
  <2>2. k \in ListedIds(p, NewNames(p)) /\ p.funs[k].name = Plain(p.function_names[k])
    BY <1>1, <2>1, DefinitionsPlain
  <2>3. Plain(p.function_names[k]) \in VisitedNames(p, "def")
    BY <2>1, <2>2 DEF VisitedNames
  <2>4. Plain(p.function_names[k]) \in DOMAIN NewNames(p)
    BY <2>2 DEF ListedIds
  <2>5. NewNames(p)[Plain(p.function_names[k])] = <<"FDEF", Plain(p.function_names[k])>>
    BY <2>3, <2>4, NamesGiven
  <2>6. d[pos[k]].declares = NewNames(p)[Plain(p.function_names[k])]
    BY <1>1, <2>2, EntryFields
  <2>7. d[pos[k]].declares[1] = "FDEF"
    BY <2>5, <2>6
  <2> HIDE DEF T
  <2> QED  BY <1>1, <1>2, <2>2, <2>7
<1>5. ASSUME NEW i \in T  PROVE \E k \in G : pos[k] = i
  <2>1. i \in 1..Len(d) /\ d[i].declares[1] = "FDEF"
    BY <1>2
  <2>2. PICK k \in ListedIds(p, NewNames(p)) : pos[k] = i
    BY <1>1, <1>3, <2>1
  <2>3. d[i].declares = NewNames(p)[Plain(p.function_names[k])]
    BY <1>1, <2>2, EntryFields
  <2>4. k \in Ids(p) /\ Plain(p.function_names[k]) \in DOMAIN NewNames(p)
    BY DEF ListedIds
  <2>5. Plain(p.function_names[k]) \in VisitedNames(p, "def")
    BY <2>1, <2>3, <2>4, NamesGiven
  <2>6. PICK l \in Graph(p).funs : /\ p.funs[l].kind = "def"
                                   /\ p.funs[l].name = Plain(p.function_names[k])
    BY <2>5 DEF VisitedNames, VisitedOf
  <2>7. OnlyOfName(p, l) /\ l \in Ids(p) /\ p.funs[l].name = Plain(p.function_names[l])
    BY <1>1, <2>6, DefinitionAlone, DefinitionsPlain
  <2>8. k = l
    BY <2>4, <2>6, <2>7, PlainApart DEF OnlyOfName
  <2> QED  BY <2>2, <2>6, <2>8 DEF VisitedOf
<1>6. to \in [G -> T] /\ (\A z \in T : \E x \in G : to[x] = z)
      /\ (\A x, y \in G : to[x] = to[y] => x = y)
  <2> HIDE DEF G, T
  <2> QED  BY <1>1, <1>4, <1>5
<1>7. /\ IsFiniteSet(G)
      /\ Cardinality(G) = IF p.expand_functions THEN 0
                          ELSE Cardinality(DependsAs(t, {"define-fun"}))
  BY <1>1, DefinitionsCounted
<1> HIDE DEF G, T, to
<1>8. Cardinality(T) = Cardinality(G)
  BY <1>6, <1>7, SameCount
<1> QED  BY <1>7, <1>8 DEF T

(***************************************************************************)
(* The printed script is laid out like that.                               *)
(***************************************************************************)
LEMMA VariablesPrinted ==
    ASSUME NEW S, IsFiniteSet(S)
    PROVE  LET x == SetToSeq({Declaration(<<"S", n>>, FALSE, {}) : n \in S})
           IN /\ IsList(x)
              /\ \E v : /\ ListedOf(S, v)
                        /\ Len(v) = Len(x)
                        /\ \A i \in 1..Len(v) : x[i] = Declaration(<<"S", v[i]>>, FALSE, {})
<1> DEFINE Of(n) == Declaration(<<"S", n>>, FALSE, {})
           T == {Of(n) : n \in S}
           of == [n \in S |-> Of(n)]
<1>x. PICK x : x = SetToSeq(T)
  BY Zenon
<1>1. \A n : Of(n).declares = <<"S", n>>
  BY DEF Declaration
<1>2. \A m, n : Of(m) = Of(n) => m = n
  <2> HIDE DEF Of
  <2>1. \A m, n : <<"S", m>> = <<"S", n>> => m = n
    OBVIOUS
  <2> QED  BY <1>1, <2>1
<1>3. of \in [S -> T] /\ (\A z \in T : \E n \in S : of[n] = z)
      /\ (\A m, n \in S : of[m] = of[n] => m = n)
  <2> HIDE DEF Of
  <2> QED  BY <1>2
<1>4. IsFiniteSet(T) /\ Cardinality(T) = Cardinality(S)
  <2> HIDE DEF T, of
  <2> QED  BY <1>3, SameCount
<1>5. ListedOf(T, x)
  <2> HIDE DEF T
  <2> QED  BY <1>4, <1>x, SetListed
<1>6. /\ Len(x) \in Nat /\ Len(x) = Cardinality(S)
      /\ x \in [1..Len(x) -> T]
      /\ \A i, j \in 1..Len(x) : x[i] = x[j] => i = j
      /\ \A z \in T : \E i \in 1..Len(x) : x[i] = z
  <2> HIDE DEF T
  <2> QED  BY <1>4, <1>5 DEF ListedOf
<1>7. IsList(x)
  <2> HIDE DEF T
  <2> QED  BY <1>6 DEF IsList
<1> DEFINE v == [i \in 1..Len(x) |-> CHOOSE n \in S : x[i] = Of(n)]
<1>8. \A i \in 1..Len(x) : v[i] \in S /\ x[i] = Of(v[i])
  <2> TAKE i \in 1..Len(x)
  <2>1. \E n \in S : x[i] = Of(n)
    <3> HIDE DEF Of
    <3> QED  BY <1>6
  <2> HIDE DEF Of
  <2> QED  BY <2>1
<1>9. v \in [1..Len(x) -> S]
  <2> HIDE DEF Of
  <2> QED  BY <1>8
<1> HIDE DEF v
<1>10. Len(v) = Len(x)
  BY <1>6, <1>9
<1>11. \A i, j \in 1..Len(x) : v[i] = v[j] => i = j
  <2> HIDE DEF Of, T
  <2> QED  BY <1>6, <1>8
<1>12. \A n \in S : \E i \in 1..Len(x) : v[i] = n
  <2> TAKE n \in S
  <2>1. PICK i \in 1..Len(x) : x[i] = Of(n)
    <3> HIDE DEF Of
    <3> QED  BY <1>6
  <2>2. v[i] = n
    <3> HIDE DEF Of
    <3> QED  BY <1>2, <1>8, <2>1
  <2> QED  BY <2>2
<1>13. ListedOf(S, v)
  <2> HIDE DEF Of, T
  <2> QED  BY <1>6, <1>9, <1>10, <1>11, <1>12 DEF ListedOf
<1>14. \A i \in 1..Len(v) : x[i] = Declaration(<<"S", v[i]>>, FALSE, {})
  BY <1>8, <1>10
<1> QED  BY <1>7, <1>10, <1>13, <1>14, <1>x, Zenon

\* What dumpSMT2 prints is laid out like that.
LEMMA ScriptPrinted ==
    ASSUME NEW t \in Seq(Commands), NEW p, NEW place, ReadFrom(t, p, place),
           NEW pruning \in BOOLEAN
    PROVE  \E v, d, pos :
              PrintedOf(t, p, place, pruning, DumpSMT2(p, Graph(p), pruning), v, d, pos)
<1> DEFINE g == Graph(p)
           out == DumpSMT2(p, g, pruning)
<1>x. PICK x : x = DeclaredVariables(g, pruning)
  BY Zenon
<1>d. PICK d : d = x \o DeclaredFunctions(p, NewNames(p), "dec", pruning)
                     \o DeclaredFunctions(p, NewNames(p), "rec", pruning)
                     \o DeclaredFunctions(p, NewNames(p), "def", pruning)
  BY Zenon
<1>1. out.declarations = d /\ out.asserted = Printed(g.asserted, pruning)
  BY <1>x, <1>d DEF DumpSMT2, NewNames
<1>2. /\ IsList(x)
      /\ \E v : /\ IF pruning THEN ListedOf(NamesAt(g, "var"), v) ELSE v = << >>
                /\ Len(v) = Len(x)
                /\ \A i \in 1..Len(v) : x[i] = Declaration(<<"S", v[i]>>, FALSE, {})
  <2>1. CASE pruning
    <3>1. x = SetToSeq({Declaration(<<"S", n>>, FALSE, {}) : n \in NamesAt(g, "var")})
      BY <1>x, <2>1 DEF DeclaredVariables
    <3>2. IsFiniteSet(NamesAt(g, "var"))
      BY VariablesCounted
    <3>3. /\ IsList(x)
          /\ \E v : /\ ListedOf(NamesAt(g, "var"), v)
                    /\ Len(v) = Len(x)
                    /\ \A i \in 1..Len(v) : x[i] = Declaration(<<"S", v[i]>>, FALSE, {})
      BY <3>1, <3>2, VariablesPrinted, Zenon
    <3> QED  BY <2>1, <3>3, Zenon
  <2>2. CASE ~pruning
    <3>1. x = << >>
      BY <1>x, <2>2 DEF DeclaredVariables
    <3>2. IsList(x) /\ \A i \in 1..Len(x) : x[i] = Declaration(<<"S", x[i]>>, FALSE, {})
      BY <3>1 DEF IsList
    <3> QED  BY <2>2, <3>1, <3>2, Zenon
  <2> QED  BY <2>1, <2>2
<1>3. PICK v : /\ IF pruning THEN ListedOf(NamesAt(g, "var"), v) ELSE v = << >>
               /\ Len(v) = Len(x)
               /\ \A i \in 1..Len(v) : x[i] = Declaration(<<"S", v[i]>>, FALSE, {})
  BY <1>2
<1>4. PICK pos : Layout(p, NewNames(p), pruning, v, d, pos)
  BY <1>2, <1>3, <1>d, LaidOut
<1> HIDE DEF out
<1>5. PrintedOf(t, p, place, pruning, out, v, d, pos)
  BY <1>1, <1>3, <1>4 DEF PrintedOf
<1> QED  BY <1>5 DEF out

(***************************************************************************)
(* What the text of an answered call means is what it means to this proof. *)
(***************************************************************************)
LEMMA EarlierPlace ==
    ASSUME NEW n \in Nat, NEW i \in 1..n, NEW j \in 1..(i - 1)
    PROVE  j \in 1..n /\ j # n
  OBVIOUS

\* What the text means to the property is what it means to the invariant.
LEMMA TextMeans ==
    ASSUME text \in Seq(Commands),
           \A i \in 1..Len(text) : text[i].command = "exit" => i = Len(text)
    PROVE  /\ \A commands : DependedOnAs(commands) = DependsAs(text, commands)
           /\ \A i : IntroducedAgain(i) <=> ~IntroducedOnce(text, i)
           /\ Accepted <=> AcceptedIn(text)
<1>1. Len(text) \in Nat /\ DOMAIN text = 1..Len(text)
  OBVIOUS
<1>2. Live = 1..Len(text)
  <2>1. \A i \in 1..Len(text) : \A j \in 1..(i - 1) : text[j].command # "exit"
    <3> TAKE i \in 1..Len(text)
    <3> TAKE j \in 1..(i - 1)
    <3>1. j \in 1..Len(text) /\ j # Len(text)
      BY <1>1, EarlierPlace
    <3> QED  BY <3>1
  <2> QED  BY <1>1, <2>1 DEF Live
<1>3. \A u : Introductions(u) = IntroducingIn(text, u)
  BY <1>2 DEF Introductions, IntroducingIn
<1>4. \A i, u : Before(i, u) = BeforeIn(text, i, u)
  BY <1>2 DEF Before, BeforeIn, Introductions
<1>5. \A i, u : Referent(i, u) = ReferentIn(text, i, u)
  BY <1>4 DEF Referent, ReferentIn
<1>6. DependedOn = DependsIn(text)
  <2>1. {i \in Live : text[i].command = "assert"} = AssertsIn(text)
    BY <1>2 DEF AssertsIn
  <2>2. [i \in Live |-> {Referent(i, u) : u \in text[i].uses}]
          = [i \in 1..Len(text) |-> {ReferentIn(text, i, u) : u \in text[i].uses}]
    BY <1>2, <1>5
  <2> QED  BY <2>1, <2>2, Zenon DEF DependedOn, DependsIn
<1>7. \A commands : DependedOnAs(commands) = DependsAs(text, commands)
  BY <1>6 DEF DependedOnAs, DependsAs
<1>8. \A i : IntroducedAgain(i) <=> ~IntroducedOnce(text, i)
  BY <1>3 DEF IntroducedAgain, IntroducedOnce
<1>9. Accepted <=> AcceptedIn(text)
  <2>1. \A i \in 1..Len(text) :
           (Introductions(text[i].name) \intersect 1..(i - 1) = {})
           <=> \A j \in 1..(i - 1) : ~(text[j].command \in Introducing /\ text[j].name = text[i].name)
    <3> TAKE i \in 1..Len(text)
    <3>1. \A j \in 1..(i - 1) : j \in 1..Len(text)
      BY <1>1, EarlierPlace
    <3>2. Introductions(text[i].name) = IntroducingIn(text, text[i].name)
      BY <1>3
    <3> QED  BY <3>1, <3>2 DEF IntroducingIn
  <2> QED  BY <1>2, <1>4, <2>1 DEF Accepted, AcceptedIn, CommandAccepted
<1> QED  BY <1>7, <1>8, <1>9

\* The printed script can be read again exactly when what the assertions depend on is
\* free of recursive functions, of functions declared more than once and, without
\* subgraph pruning, of constants; it declares the constants and, on the command line,
\* the definitions they depend on: in every answer of either front to any script.
THEOREM OutputReadable == Spec => []OutputReadableExactlyWhen
<1>1. CallInv => OutputReadableExactlyWhen
  <2> SUFFICES ASSUME CallInv, answer.status = OK  PROVE OutputReadableExactlyWhen
    BY DEF OutputReadableExactlyWhen
  <2> DEFINE out == answer.output[1]
             pruning == options.subgraph_pruning
  <2>1. /\ text \in Seq(Commands)
        /\ ParserReadFrom(text, parser)
        /\ parser.expand_functions = ExpandsFunctions(front)
        /\ \A i \in 1..Len(text) : text[i].command = "exit" => i = Len(text)
        /\ graph = Graph(parser)
        /\ ~KernelThrows(parser, graph, pruning)
        /\ answer.output = To(DumpSMT2(parser, graph, pruning))
        /\ options \in OptionSets
        /\ front \in Fronts
    BY DEF CallInv, ReadSoFar
  <2>2. pruning \in BOOLEAN /\ front \in {"c", "cli"}
    BY <2>1, StabilizerAssumption
  <2>3. out = DumpSMT2(parser, Graph(parser), pruning)
    BY <2>1 DEF To
  <2>4. ~UnknownDefinition(parser, Graph(parser))
    BY <2>1 DEF KernelThrows
  <2>5. PICK place : ReadFrom(text, parser, place)
    BY <2>1 DEF ParserReadFrom
  <2>6. PICK v, d, pos : PrintedOf(text, parser, place, pruning, out, v, d, pos)
    BY <2>1, <2>2, <2>3, <2>5, ScriptPrinted
  <2>7. /\ \A commands : DependedOnAs(commands) = DependsAs(text, commands)
        /\ \A i : IntroducedAgain(i) <=> ~IntroducedOnce(text, i)
    BY <2>1, TextMeans
  <2>8. PICK o, q : o = out /\ q = pruning
    BY Zenon
  <2>9. Readable(o) <=> NoObstacle(text, q)
    <3>1. NoObstacle(text, q) => Unobstructed(text, parser, place, q)
      BY <2>2, <2>4, <2>5, <2>8 DEF Unobstructed
    <3> QED  BY <2>1, <2>2, <2>6, <2>8, <3>1, ReadableMeetsNoObstacle, UnobstructedReadable
  <2>10. Cardinality(DeclaredIn(o, "S"))
            = IF q THEN Cardinality({text[i].name : i \in DependsAs(text, {"declare-const"})})
              ELSE 0
    <3>1. Cardinality(DeclaredIn(o, "S")) = IF q THEN Cardinality(ConstantNames(text)) ELSE 0
      BY <2>1, <2>2, <2>6, <2>8, VariablesDeclaredRight
    <3> QED  BY <3>1 DEF ConstantNames
  <2>11. Cardinality(DeclaredIn(o, "FDEF"))
            = IF front = "cli" THEN Cardinality(DependsAs(text, {"define-fun"})) ELSE 0
    <3>1. parser.expand_functions <=> front # "cli"
      BY <2>1 DEF ExpandsFunctions
    <3>2. Cardinality(DeclaredIn(o, "FDEF"))
             = IF parser.expand_functions THEN 0 ELSE Cardinality(DependsAs(text, {"define-fun"}))
      BY <2>1, <2>4, <2>6, <2>8, DefinitionsDeclaredRight
    <3> QED  BY <3>1, <3>2
  <2>12. NoObstacle(text, q)
            <=> /\ DependedOnAs({"define-fun-rec"}) = {}
                /\ \A i \in DependedOnAs({"declare-fun"}) : ~IntroducedAgain(i)
                /\ q \/ DependedOnAs({"declare-const"}) = {}
    BY <2>7 DEF NoObstacle
  <2> HIDE DEF out, pruning
  <2>13. /\ Readable(o) <=>
             /\ DependedOnAs({"define-fun-rec"}) = {}
             /\ \A i \in DependedOnAs({"declare-fun"}) : ~IntroducedAgain(i)
             /\ q \/ DependedOnAs({"declare-const"}) = {}
         /\ Cardinality(DeclaredIn(o, "S")) =
             IF q THEN Cardinality({text[i].name : i \in DependedOnAs({"declare-const"})}) ELSE 0
         /\ Cardinality(DeclaredIn(o, "FDEF")) =
             IF front = "cli" THEN Cardinality(DependedOnAs({"define-fun"})) ELSE 0
    BY <2>7, <2>9, <2>10, <2>11, <2>12
  <2> QED  BY <2>8, <2>13, Zenon DEF OutputReadableExactlyWhen, out, pruning
<1> QED  BY <1>1, CallInvariant, PTL

(***************************************************************************)
(* The answers. Where the kernel throws follows from the text.             *)
(***************************************************************************)
\* A definition's number is not found exactly if definitions are kept and one depended
\* on was introduced again.
LEMMA UnknownDefinitionExactly ==
    ASSUME NEW t \in Seq(Commands), NEW p, NEW place, ReadFrom(t, p, place)
    PROVE  UnknownDefinition(p, Graph(p))
              <=> /\ ~p.expand_functions
                  /\ \E i \in DependsAs(t, {"define-fun"}) : ~IntroducedOnce(t, i)
<1>1. /\ FunctionsMade(t, p, place)
      /\ \A k \in Ids(p) : FunctionMade(t, p, place, k) /\ place[k] \in 1..Len(t)
  BY DEF ReadFrom, FunctionsMade
<1>2. \A k \in Ids(p) : p.funs[k].kind = "def" <=> t[place[k]].command = "define-fun"
  BY <1>1 DEF FunctionMade, KindOf, OfFunctions, Defining
<1>3. ASSUME NEW k \in VisitedOf(p, Graph(p), "def"), p.funs[k].name.of \notin DefFunIds(p)
      PROVE  /\ ~p.expand_functions
             /\ \E i \in DependsAs(t, {"define-fun"}) : ~IntroducedOnce(t, i)
  <2>1. k \in Graph(p).funs /\ p.funs[k].kind = "def"
    BY DEF VisitedOf
  <2>2. k \in Ids(p) /\ KeptFunction(p, k) /\ place[k] \in DependsIn(t)
    BY <2>1, GraphFunctions
  <2>3. ~p.expand_functions
    BY <2>1, <2>2 DEF KeptFunction
  <2>4. place[k] \in DependsAs(t, {"define-fun"})
    BY <1>2, <2>1, <2>2 DEF DependsAs
  <2>5. SUFFICES ASSUME IntroducedOnce(t, place[k])  PROVE FALSE
    BY <2>3, <2>4
  <2>6. \A l \in Ids(p) : p.function_names[l] = p.function_names[k] => l = k
    <3> TAKE l \in Ids(p)
    <3> HAVE p.function_names[l] = p.function_names[k]
    <3>1. place[l] \in IntroducingIn(t, t[place[k]].name)
      BY <1>1, <2>2 DEF FunctionMade, OfFunctions, Introducing, IntroducingIn
    <3>2. place[l] = place[k]
      BY <2>5, <3>1 DEF IntroducedOnce
    <3> QED  BY <1>1, <2>2, <3>2, FunctionTyped, PlacesApart
  <2>7. LastOf(p, k) = k
    BY <2>2, <2>6, LastTyped
  <2>8. p.funs[k].name.of = p.function_names[k]
    BY <1>1, <2>2 DEF FunctionMade
  <2>9. k \in DOMAIN p.function_names
    BY <1>1, <2>2 DEF FunctionsMade, Ids, ReadFrom, ParserTyped
  <2>10. p.function_names[k] \in DefFunIds(p)
    BY <2>1, <2>7, <2>9 DEF DefFunIds, LastOf, Plain
  <2> QED  BY <1>3, <2>8, <2>10
<1>4. ASSUME ~p.expand_functions, NEW i \in DependsAs(t, {"define-fun"}), ~IntroducedOnce(t, i),
             ~UnknownDefinition(p, Graph(p))
      PROVE  FALSE
  <2>1. i \in DependsIn(t) /\ t[i].command = "define-fun"
    BY DEF DependsAs
  <2>2. t[i].command \in OfFunctions /\ KindOf(t[i].command) = "def"
    BY <2>1 DEF OfFunctions, Defining, KindOf
  <2>3. PICK k \in Ids(p) : /\ place[k] = i
                            /\ p.function_names[k] = t[i].name
                            /\ p.funs[k].kind = "def"
    BY <2>1, <2>2, FunctionDependedOn
  <2>4. k \in Graph(p).funs
    BY <1>4, <2>1, <2>3, GraphFunctions DEF KeptFunction
  <2>5. OnlyOfName(p, k)
    BY <1>4, <2>3, <2>4, DefinitionAlone
  <2>6. i \in 1..Len(t) /\ i \in IntroducingIn(t, t[i].name)
    BY <2>1, DependsClosed DEF ReadFrom, IntroducingIn, Introducing, Defining
  <2>7. PICK j \in IntroducingIn(t, t[i].name) : j # i
    BY <1>4, <2>6 DEF IntroducedOnce
  <2>8. j \in 1..Len(t) /\ t[j].command \in OfFunctions /\ t[j].name = t[i].name
    BY <2>2, <2>6, <2>7, NamesApart DEF IntroducingIn
  <2>9. PICK l \in Ids(p) : place[l] = j
    BY <1>1, <2>8 DEF FunctionsMade
  <2>10. p.function_names[l] = p.function_names[k]
    BY <1>1, <2>3, <2>8, <2>9 DEF FunctionMade
  <2> QED  BY <2>3, <2>5, <2>7, <2>9, <2>10 DEF OnlyOfName
<1> QED  BY <1>3, <1>4 DEF UnknownDefinition

\* Applications of declared functions are in the graph exactly if such a function is
\* depended on, or a recursive one that applies itself.
LEMMA DeclaredApplied ==
    ASSUME NEW t \in Seq(Commands), NEW p, NEW place, ReadFrom(t, p, place)
    PROVE  NamesAt(Graph(p), "uf") # {}
              <=> \/ DependsAs(t, {"declare-fun"}) # {}
                  \/ \E i \in DependsAs(t, {"define-fun-rec"}) : t[i].name \in t[i].uses
<1>1. NamesAt(Graph(p), "uf") # {} <=> \E x \in Graph(p).nodes : x.at = "uf"
  BY DEF NamesAt
<1>2. \A k \in Ids(p) : FunctionMade(t, p, place, k) /\ p.funs[k].kind \in {"dec", "def", "rec"}
  BY FunctionTyped DEF ReadFrom, FunctionsMade
<1>3. ASSUME NEW x \in Graph(p).nodes, x.at = "uf"
      PROVE  \/ DependsAs(t, {"declare-fun"}) # {}
             \/ \E i \in DependsAs(t, {"define-fun-rec"}) : t[i].name \in t[i].uses
  <2>1. PICK r \in DependsIn(t) : StandsFor(t, p, place, r, x)
    BY GraphNodes
  <2>2. CASE /\ t[r].command = "define-fun-rec"
             /\ t[r].name \in t[r].uses
             /\ x = UFApply(Plain(t[r].name))
    BY <2>2 DEF DependsAs
  <2>3. ASSUME NEW k \in Ids(p), place[k] = r, KeptFunction(p, k), x \in ApplyFun(p, k)
        PROVE  DependsAs(t, {"declare-fun"}) # {}
    <3>1. p.funs[k].kind = "dec"
      BY <1>2, <1>3, <2>3 DEF ApplyFun, KeptFunction, FuncApply, RecApply
    <3>2. t[r].command = "declare-fun"
      BY <1>2, <2>3, <3>1 DEF FunctionMade, KindOf, OfFunctions, Defining
    <3> QED  BY <3>2 DEF DependsAs
  <2>4. x # Var(t[r].name)
    BY <1>3 DEF Var
  <2> QED  BY <2>1, <2>2, <2>3, <2>4 DEF StandsFor
<1>4. ASSUME NEW r \in DependsAs(t, {"declare-fun"})
      PROVE  \E x \in Graph(p).nodes : x.at = "uf"
  <2>1. r \in DependsIn(t) /\ t[r].command \in OfFunctions /\ KindOf(t[r].command) = "dec"
    BY DEF DependsAs, OfFunctions, KindOf
  <2>2. PICK k \in Ids(p) : /\ p.funs[k].kind = "dec"
                            /\ KeptFunction(p, k) => ApplyFun(p, k) \subseteq Graph(p).nodes
    BY <2>1, FunctionDependedOn
  <2>3. UFApply(p.funs[k].name) \in Graph(p).nodes
    BY <2>2 DEF KeptFunction, ApplyFun
  <2> QED  BY <2>3 DEF UFApply
<1>5. ASSUME NEW r \in DependsAs(t, {"define-fun-rec"}), t[r].name \in t[r].uses
      PROVE  \E x \in Graph(p).nodes : x.at = "uf"
  <2>1. r \in DependsIn(t) /\ StandsFor(t, p, place, r, UFApply(Plain(t[r].name)))
    BY <1>5 DEF DependsAs, StandsFor
  <2>2. UFApply(Plain(t[r].name)) \in Graph(p).nodes
    BY <2>1, GraphNodes
  <2> QED  BY <2>2 DEF UFApply
<1> QED  BY <1>1, <1>3, <1>4, <1>5

\* The kernel throws exactly if the text is none it copes with.
LEMMA ThrowsUnlessCopes ==
    ASSUME ReadSoFar, reading # "failed", options \in OptionSets, front \in Fronts
    PROVE  /\ KernelThrows(parser, Graph(parser), options.subgraph_pruning) <=> ~KernelCopes
           /\ Accepted
<1>1. /\ text \in Seq(Commands) /\ ParserReadFrom(text, parser)
      /\ parser.expand_functions = ExpandsFunctions(front)
      /\ \A i \in 1..Len(text) : text[i].command = "exit" => i = Len(text)
  BY DEF ReadSoFar
<1>2. options.subgraph_pruning \in BOOLEAN /\ front \in {"c", "cli"}
  BY StabilizerAssumption
<1>3. PICK place : ReadFrom(text, parser, place)
  BY <1>1 DEF ParserReadFrom
<1>4. /\ \A commands : DependedOnAs(commands) = DependsAs(text, commands)
      /\ \A i : IntroducedAgain(i) <=> ~IntroducedOnce(text, i)
      /\ Accepted <=> AcceptedIn(text)
  BY <1>1, TextMeans
<1>5. AcceptedIn(text)
  BY <1>3 DEF ReadFrom
<1>6. UnknownDefinition(parser, Graph(parser))
         <=> front = "cli" /\ \E i \in DependedOnAs({"define-fun"}) : IntroducedAgain(i)
  <2>1. ~parser.expand_functions <=> front = "cli"
    BY <1>1 DEF ExpandsFunctions
  <2> QED  BY <1>1, <1>3, <1>4, <2>1, UnknownDefinitionExactly
<1>7. NamesAt(Graph(parser), "uf") # {}
         <=> \/ DependedOnAs({"declare-fun"}) # {}
             \/ \E i \in DependedOnAs({"define-fun-rec"}) : text[i].name \in text[i].uses
  BY <1>1, <1>3, <1>4, DeclaredApplied
<1> QED  BY <1>2, <1>4, <1>5, <1>6, <1>7 DEF KernelThrows, UnnamedFunction, KernelCopes

\* While a call runs nothing outside of its script has failed; the answer that is there
\* when none runs is the right one.
AnswersRight == phase = "idle" /\ answer.status # "none" => AnswerRight

AnswerInv ==
    /\ phase \in {"idle", "reading", "kernel", "printing"}
    /\ phase # "idle" => fault = "none"
    /\ phase \in {"reading", "kernel", "printing"} => ReadSoFar
    /\ AnswersRight

\* Of the ways a call fails: an answer with an error that the call asks for is right.
LEMMA ThrownRight ==
    ASSUME Throw, front' = front, front \in {"c", "cli"},
           fault' \in {"none", "file", "table", "memory"},
           fault' # "none" \/ ~Accepted' \/ ~KernelCopes'
    PROVE  AnswersRight' /\ phase' = "idle"
<1>1. /\ phase' = "idle" /\ graph' = NoGraph
      /\ answer'.status = IF front = "c" THEN RuntimeError ELSE "aborted"
      /\ answer'.output = Null
      /\ front = "c" => last_error' = "some"
  BY DEF Throw, NoOutput
<1>2. answer'.status # OK
  BY <1>1 DEF OK, RuntimeError
<1> QED  BY <1>1, <1>2 DEF AnswersRight, AnswerRight


\* What a text means does not change while it does not.
LEMMA TextSame ==
    ASSUME text' = text, front' = front, options' = options
    PROVE  (Accepted' <=> Accepted) /\ (KernelCopes' <=> KernelCopes)
<1>1. Live' = Live
  BY DEF Live
<1>2. \A u : Introductions(u)' = Introductions(u)
  BY <1>1 DEF Introductions
<1>3. \A i, u : Before(i, u)' = Before(i, u)
  BY <1>2 DEF Before
<1>4. \A i, u : Referent(i, u)' = Referent(i, u)
  BY <1>3 DEF Referent
<1>5. Accepted' <=> Accepted
  BY <1>1, <1>2, <1>3 DEF Accepted
<1>6. DependedOn' = DependedOn
  BY <1>1, <1>4 DEF DependedOn
<1>7. \A c : DependedOnAs(c)' = DependedOnAs(c)
  BY <1>6 DEF DependedOnAs
<1>8. \A i : IntroducedAgain(i)' <=> IntroducedAgain(i)
  BY <1>2 DEF IntroducedAgain
<1>9. KernelCopes' <=> KernelCopes
  BY <1>7, <1>8 DEF KernelCopes
<1> QED  BY <1>5, <1>9


\* Every step keeps the answers right.
LEMMA AnswerInvKept ==
    ASSUME CallInv, AnswerInv, [Next]_vars
    PROVE  AnswerInv'
<1>1. options \in OptionSets /\ front \in Fronts /\ front \in {"c", "cli"}
  BY StabilizerAssumption DEF CallInv
<1>2. CASE UNCHANGED vars
  <2>1. /\ AnswersRight' <=> AnswersRight
        /\ ReadSoFar' <=> ReadSoFar
    <3>1. UNCHANGED <<parser, text, reading, front, options, last_error, phase, fault, answer>>
      BY <1>2 DEF vars, scriptVars, handleVars
    <3>2. (Accepted' <=> Accepted) /\ (KernelCopes' <=> KernelCopes)
      BY <3>1, TextSame
    <3> QED  BY <3>1, <3>2 DEF ReadSoFar, AnswersRight, AnswerRight, ExpandsFunctions
  <2>2. phase' = phase /\ fault' = fault
    BY <1>2 DEF vars, scriptVars, handleVars
  <2> QED  BY <2>1, <2>2 DEF AnswerInv
<1>3. ASSUME phase' = "idle", AnswersRight'  PROVE AnswerInv'
  BY <1>3 DEF AnswerInv
<1>4. ASSUME phase' \in {"reading", "kernel", "printing"}, fault' = "none", ReadSoFar'
      PROVE  AnswerInv'
  BY <1>4 DEF AnswerInv, AnswersRight
<1>5. ASSUME NEW o \in OptionSets, SetOptions(o)  PROVE AnswerInv'
  <2>1. phase' = "idle" /\ answer'.status = "none"
    BY <1>5 DEF SetOptions, NoOutput
  <2> QED  BY <1>3, <2>1 DEF AnswersRight
<1>6. CASE Call
  <2>1. CallInv'
    BY <1>6, CallInvKept DEF Next
  <2>2. phase' = "reading" /\ fault' = "none"
    BY <1>6 DEF Call
  <2>3. ReadSoFar'
    BY <2>1, <2>2 DEF CallInv
  <2> QED  BY <1>4, <2>2, <2>3
<1>7. ASSUME NEW what \in {"handle", "text", "output", "empty"}, CallWithout(what)
      PROVE  AnswerInv'
  <2>1. /\ phase' = "idle" /\ front' = front /\ front = "c" /\ fault' = what
        /\ answer'.status = InvalidArgument /\ answer'.output = Null
        /\ what # "handle" => last_error' = "some"
    BY <1>7 DEF CallWithout, NoOutput
  <2>2. InvalidArgument # OK
    BY DEF InvalidArgument, OK
  <2>3. AnswersRight'
    BY <1>7, <2>1, <2>2 DEF AnswersRight, AnswerRight
  <2> QED  BY <1>3, <2>1, <2>3
<1>8. CASE UnknownOption
  <2>1. /\ phase' = "idle" /\ front' = front /\ front = "cli" /\ fault' = "option"
        /\ answer'.status = "exit 1" /\ answer'.output = Null
    BY <1>8 DEF UnknownOption, NoOutput, handleVars
  <2>2. "exit 1" # OK
    BY DEF OK
  <2>3. AnswersRight'
    BY <2>1, <2>2 DEF AnswersRight, AnswerRight
  <2> QED  BY <1>3, <2>1, <2>3
<1>9. CASE CannotOpen \/ TableTooSmall \/ NoMemory
  <2>1. Throw /\ front' = front /\ fault' \in {"file", "table", "memory"}
    BY <1>9 DEF CannotOpen, TableTooSmall, NoMemory
  <2>2. AnswersRight' /\ phase' = "idle"
    BY <1>1, <2>1, ThrownRight
  <2> QED  BY <1>3, <2>2
<1>10. CASE ReadOn
  <2>1. /\ phase = "reading" /\ phase' = phase /\ Parse /\ front' = front /\ fault' = fault
    BY <1>10 DEF ReadOn, handleVars
  <2>2. ReadSoFar /\ fault = "none"
    BY <2>1 DEF AnswerInv
  <2>3. ReadSoFar'
    BY <2>1, <2>2, ReadingOn
  <2> QED  BY <1>4, <2>1, <2>2, <2>3
<1>11. CASE ReadingFails
  <2>1. /\ phase = "reading" /\ reading = "failed" /\ Throw
        /\ UNCHANGED <<parser, text, reading, front, options>> /\ fault' = fault
    BY <1>11 DEF ReadingFails, scriptVars
  <2>2. ReadSoFar /\ fault = "none"
    BY <2>1 DEF AnswerInv
  <2>3. ~Accepted
    <3>1. /\ text \in Seq(Commands) /\ ~AcceptedIn(text)
          /\ \A i \in 1..Len(text) : text[i].command = "exit" => i = Len(text)
      BY <2>1, <2>2 DEF ReadSoFar
    <3> QED  BY <3>1, TextMeans
  <2>4. ~Accepted'
    BY <2>1, <2>3, TextSame
  <2>5. AnswersRight' /\ phase' = "idle"
    BY <1>1, <2>1, <2>2, <2>4, ThrownRight
  <2> QED  BY <1>3, <2>5
<1>12. ASSUME UNCHANGED <<scriptVars, front, fault>>, phase \in {"reading", "kernel", "printing"},
              phase' \in {"reading", "kernel", "printing"}
       PROVE  AnswerInv'
  <2>1. ReadSoFar /\ fault = "none"
    BY <1>12 DEF AnswerInv
  <2>2. ReadSoFar'
    BY <1>12, <2>1 DEF ReadSoFar, scriptVars, ExpandsFunctions
  <2> QED  BY <1>4, <1>12, <2>1, <2>2
<1>13. CASE MakeKernel \/ ApplyKernel
  BY <1>12, <1>13 DEF MakeKernel, ApplyKernel, handleVars
<1>14. CASE KernelFails
  <2>1. /\ phase = "kernel" /\ Throw /\ fault' = fault
        /\ UNCHANGED <<parser, text, reading, front, options>>
        /\ KernelThrows(parser, graph, options.subgraph_pruning)
    BY <1>14 DEF KernelFails, scriptVars
  <2>2. ReadSoFar /\ fault = "none" /\ reading = "ended" /\ graph = Graph(parser)
    BY <2>1 DEF AnswerInv, CallInv
  <2>3. ~KernelCopes
    BY <1>1, <2>1, <2>2, ThrowsUnlessCopes
  <2>4. ~KernelCopes'
    BY <2>1, <2>3, TextSame
  <2>5. AnswersRight' /\ phase' = "idle"
    BY <1>1, <2>1, <2>2, <2>4, ThrownRight
  <2> QED  BY <1>3, <2>5
<1>15. CASE PrintScript
  <2> DEFINE out == DumpSMT2(parser, graph, options.subgraph_pruning)
  <2>1. /\ phase = "printing" /\ Return(out) /\ fault' = fault
        /\ UNCHANGED <<parser, text, reading, front, options>>
    BY <1>15 DEF PrintScript, scriptVars
  <2>2. /\ ReadSoFar /\ fault = "none" /\ reading = "ended" /\ graph = Graph(parser)
        /\ ~KernelThrows(parser, graph, options.subgraph_pruning)
    BY <2>1 DEF AnswerInv, CallInv
  <2>3. KernelCopes /\ Accepted
    BY <1>1, <2>2, ThrowsUnlessCopes
  <2>4. KernelCopes' /\ Accepted'
    BY <2>1, <2>3, TextSame
  <2> HIDE DEF out
  <2>5. /\ phase' = "idle" /\ answer'.status = OK /\ answer'.output # Null
        /\ last_error' = ""
    BY <2>1 DEF Return, To, Null
  <2>6. AnswersRight'
    BY <1>1, <2>1, <2>2, <2>4, <2>5 DEF AnswersRight, AnswerRight
  <2> QED  BY <1>3, <2>5, <2>6
<1> QED
  BY <1>2, <1>5, <1>6, <1>7, <1>8, <1>9, <1>10, <1>11, <1>13, <1>14, <1>15 DEF Next, Step

\* When no call runs the last one was answered as its arguments, its script and what
\* failed ask for: with the right status, a text exactly if it succeeded, and an error
\* left in the handle exactly if it did not (the safety of CallsAnswered).
THEOREM AnswersAlwaysRight == Spec => []AnswersRight
<1>1. Init => CallInv /\ AnswerInv
  <2>1. Init => CallInv
    BY NotOK DEF Init, CallInv
  <2>2. ASSUME Init  PROVE AnswerInv
    <3>1. phase = "idle" /\ answer.status = "none"
      BY <2>2 DEF Init, NoOutput
    <3> QED  BY <3>1 DEF AnswerInv, AnswersRight
  <2> QED  BY <2>1, <2>2
<1>2. (CallInv /\ AnswerInv) /\ [Next]_vars => (CallInv /\ AnswerInv)'
  BY CallInvKept, AnswerInvKept
<1>3. AnswerInv => AnswersRight
  BY DEF AnswerInv
<1> QED  BY <1>1, <1>2, <1>3, PTL DEF Spec

=============================================================================
