----------------------------- MODULE MCPipeline -----------------------------
(* Values for TLC: odd numbers pass the predicate, map adds ten.           *)
EXTENDS Pipeline

MCPredicate(v)    == v % 2 = 1
MCMethod(v)       == v + 10
MCOperation(a, b) == a + b
MCInputs          == {<<>>, <<1>>, <<2, 1>>, <<1, 3, 2>>}
MCDemandInputs    == {<<>>, <<1, 2, 3, 5>>}
MCOthers          == {Branch(<<20, 30>>, "onComplete", FALSE), Branch(<<>>, "onError", FALSE),
                      Branch(<<20>>, "onComplete", TRUE)}
MCRenewing        == Streaming \cup {"ignoreElements", "andThen", "switchOnError"}

=============================================================================
