------------------------------- MODULE Facade -------------------------------
(***************************************************************************)
(* The classes of recpp::rx: what each of them promises of its stream, the *)
(* sources its factories make, and the class of what each method returns.  *)
(* A method wraps this publisher in an operator, doOnNext() and the like   *)
(* and takeUntil() in Tap and TakeWhile; subscribe() is that of            *)
(* DefaultSubscriber.                                                      *)
(*                                                                         *)
(* The defer() of Single, Maybe and Completable is not among the factories *)
(* here, since what the model's deferred method makes is an Observable;    *)
(* merge() is in module Merge.                                             *)
(***************************************************************************)
EXTENDS Promises

Classes == {"Observable", "Single", "Maybe", "Completable"}

ObservableFactories  == {"create", "defer", "empty", "error", "just", "never", "range", "interval"}
SingleFactories      == {"createSingle", "error", "just", "never"}
MaybeFactories       == {"createMaybe", "empty", "error", "just", "never"}
CompletableFactories == {"createCompletable", "empty", "error", "never"}

ClassesOfSource(kind) ==
  {c \in Classes :
     kind \in CASE c = "Observable" -> ObservableFactories
                [] c = "Single"     -> SingleFactories
                [] c = "Maybe"      -> MaybeFactories
                [] OTHER            -> CompletableFactories}

(* What a class lets its stream be, so far or to the end.                  *)
Obeys(c, s) ==
  CASE c = "Observable"  -> TRUE
    [] c = "Single"      -> /\ Len(s.values) <= 1
                            /\ s.end = "onComplete" => s.values # <<>>
                            /\ s.end = "onError" => s.values = <<>>
    [] c = "Maybe"       -> Len(s.values) <= 1 /\ (s.end = "onError" => s.values = <<>>)
    [] c = "Completable" -> s.values = <<>>

(* The classes another publisher can have: the one a method is given, and  *)
(* those that flatMap's method returns, some of which complete.            *)
ClassesOf(b)      == {c \in Classes : Obeys(c, Stream(b.elements, b.end))}
InnerClassesOf(b) == {c \in ClassesOf(b) : Obeys(c, Stream(b.elements, "onComplete"))}

Same(names, c) == [n \in names |-> c]

(* The methods that keep the class.                                        *)
Common              == {"tap", "observeOn", "subscribeOn", "delay"}
ObservableMethods   == Common \cup {"filter", "take", "takeWhile", "map", "defaultIfEmpty"}
SingleMethods       == Common \cup {"map"}
MaybeMethods        == Common \cup {"map", "defaultIfEmpty"}
CompletableMethods  == Common

(* The methods of Observable that make another class of it.                *)
ObservableResults ==
  Same({"allOf", "anyOf", "noneOf", "reduce", "max", "min", "count"}, "Single")
    @@ Same({"elementAt", "first", "last"}, "Maybe")
    @@ Same({"ignoreElements"}, "Completable")

(* flatMap() gives the class its method's publishers have: a Single may    *)
(* go to any class, the others keep theirs.                                *)
FlatMapResults(c, b) ==
  IF c = "Single" THEN InnerClassesOf(b) ELSE InnerClassesOf(b) \cap ({c} \ {"Completable"})

(* The classes operator o can make of a publisher of class c.              *)
Results(c, o) ==
  LET keeps == CASE c = "Observable" -> ObservableMethods
                 [] c = "Single"     -> SingleMethods
                 [] c = "Maybe"      -> MaybeMethods
                 [] OTHER            -> CompletableMethods
  IN  CASE o.name \in keeps -> {c}
        [] o.name = "flatMap" -> FlatMapResults(c, o.branch)
        [] o.name = "switchOnError" -> {c} \cap ClassesOf(o.branch)
        [] o.name = "andThen" /\ c = "Completable" -> ClassesOf(o.branch)
        [] c = "Observable" /\ o.name \in DOMAIN ObservableResults -> {ObservableResults[o.name]}
        [] c \in {"Single", "Maybe"} /\ o.name = "ignoreElements" -> {"Completable"}
        [] OTHER -> {}

(* Every class the chain of operators on a source of that kind can have,   *)
(* none if it is no chain the classes allow.                               *)
ClassesOfChain(kind, operators) ==
  FoldLeft(LAMBDA cs, o : UNION {Results(c, o) : c \in cs}, ClassesOfSource(kind), operators)

=============================================================================
