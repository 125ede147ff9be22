--------------------------- MODULE MCKernelLater ---------------------------
(* One kernel, with any flags, in a process where another one may have run. *)
EXTENDS Kernel, KernelFormulas

MCInputs ==
    {Pair("a", "b"), Cycle(<<"t1", "t2", "t3">>), TwoPairs(<<"t1", "t2">>),
     Applied(<<"t3", "t4">>, "t1", "t2"), Shared(<<"t3", "t4">>, "t1", "b"),
     Repeated(<<"t2", "t3">>), Deep(<<"t5", "t6">>)}

AllModes == [cp : BOOLEAN, sbp : BOOLEAN]

\* The size of the formula of the first kernel without context propagation.
EarlierSizes == {3, 6, 9}

LaterInit == Fresh /\ pre_size \in {0} \union EarlierSizes
LaterSpec == LaterInit /\ [][Next]_vars /\ RunsOn
=============================================================================
