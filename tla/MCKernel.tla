------------------------------ MODULE MCKernel ------------------------------
(* One kernel, with pruning, on one presentation of each formula. *)
EXTENDS Kernel, KernelFormulas

MCInputs ==
    {Pair("a", "b"), Chain(<<"t1", "t2">>), Cycle(<<"t1", "t2", "t3">>),
     TwoPairs(<<"t1", "t2">>), Applied(<<"t3", "t4">>, "t1", "t2"),
     Shared(<<"t3", "t4">>, "t1", "b"), Repeated(<<"t2", "t3">>), Quantified(<<"t2", "t3">>),
     Implication(<<"t5", "t6">>), Ladder(<<"t1", "t2", "t3", "t4", "t5", "t6">>),
     Crossed(<<"t7", "t8", "t9", "t10", "t11">>)}

WithPruning == [cp : BOOLEAN, sbp : {TRUE}]
=============================================================================
