-------------------------- MODULE MCKernelSession --------------------------
(* Processes with two kernels, mostly on two presentations of one formula. *)
EXTENDS KernelSession, SortFormulas

AllModes == [cp : BOOLEAN, sbp : BOOLEAN]
Default == [cp |-> TRUE, sbp |-> TRUE]
PlainSteps == [cp |-> FALSE, sbp |-> TRUE]

Two(first, second, o) ==
    <<[script |-> first, options |-> o], [script |-> second, options |-> o]>>

TwoPresentations == {
    <<Pair("a", "b"), Pair("b", "a")>>,
    <<Cycle(<<"t1", "t2", "t3">>), Cycle(<<"t2", "t1", "t3">>)>>,
    <<TwoPairs(<<"t1", "t2">>), TwoPairs(<<"t2", "t1">>)>>,
    <<Applied(<<"t3", "t4">>, "t1", "t2"), Applied(<<"t4", "t3">>, "t2", "t1")>>,
    <<Repeated(<<"t2", "t3">>), Repeated(<<"t3", "t2">>)>>,
    <<Shared(<<"t3", "t4">>, "t1", "b"), Shared(<<"t4", "t3">>, "b", "t1")>>,
    <<Quantified(<<"t2", "t3">>), Quantified(<<"t3", "t2">>)>> }

LadderPresentations ==
    <<Ladder(<<"t1", "t2", "t3", "t4", "t5", "t6">>),
      Ladder(<<"t6", "t4", "t3", "t2", "t5", "t1">>)>>

\* The last two assertions swapped.
CrossedPresentations ==
    <<Crossed(<<"t7", "t8", "t9", "t10", "t11">>), Crossed(<<"t7", "t8", "t9", "t11", "t10">>)>>

WithSorts == {
    <<TwoSorts(<<"t1", "t2">>), TwoSorts(<<"t2", "t1">>)>>,
    <<FunctionOnSort(<<"t3", "t4", "t5">>), FunctionOnSort(<<"t5", "t4", "t3">>)>>,
    <<Enumerated(<<"t3", "t4">>), Enumerated(<<"t4", "t3">>)>>,
    <<Selected(<<"t3", "t4">>), Selected(<<"t4", "t3">>)>>,
    <<HalfSelected(<<"t3", "t4">>, BuiltIn), HalfSelected(<<"t4", "t3">>, ArrayOver("U"))>>,
    <<HalfSelected(<<"t4", "t3">>, Declared("U")), ArraysOnly>>,
    <<ArraysAndSorts(<<"t1", "t2", "t3", "t4">>), ArraysAndSorts(<<"t4", "t1", "t3", "t2">>)>> }

\* Sorts without a node whose names begin as the new ones: the sort U of a selector and
\* the datatype V, in the second session called as a sort that gets a new name.
CalledAsNew ==
    LET script(assertions, u, v) ==
            Calling(HalfSelected(assertions, Declared("U")), [U |-> u, V |-> v])
    IN {<<script(<<"t3", "t4">>, <<"SORT", 9>>, <<"DT", 9>>),
          script(<<"t4", "t3">>, <<"SORT", 9>>, <<"DT", 9>>)>>,
        <<script(<<"t3", "t4">>, <<"DT", 1>>, <<"DT", 0>>),
          script(<<"t3", "t4">>, <<"SORT", 0>>, <<"", "V">>)>>}

\* One formula is enough for the static table, the other script is what it is for.
Enough == {
    <<Plain(LadderPresentations[1]), TwoSorts(<<"t1", "t2">>)>>,
    <<Plain(LadderPresentations[1]), Enumerated(<<"t3", "t4">>)>> }

MCSessions ==
    {Two(Plain(p[1]), Plain(p[2]), o) : p \in TwoPresentations, o \in AllModes}
    \union {Two(Plain(LadderPresentations[1]), Plain(LadderPresentations[2]), Default)}
    \union {Two(Plain(CrossedPresentations[1]), Plain(CrossedPresentations[2]), Default)}
    \union {Two(Plain(Pair("a", "b")), Plain(Cycle(<<"t1", "t2", "t3">>)), PlainSteps)}
    \union {Two(p[1], p[2], o) : p \in WithSorts, o \in AllModes}
    \union {Two(p[1], p[2], Default) : p \in CalledAsNew}
    \union {Two(p[1], p[2], [cp |-> FALSE, sbp |-> b]) : p \in Enough, b \in BOOLEAN}

MCScripts == {s[k].script : s \in MCSessions, k \in 1..2}
MCInputs == {s.input : s \in MCScripts}
=============================================================================
