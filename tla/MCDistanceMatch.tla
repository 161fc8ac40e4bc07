-------------------------- MODULE MCDistanceMatch --------------------------
(***************************************************************************)
(* Instances of DistanceMatch: objects with any distances and hints, and   *)
(* authors.                                                                *)
(***************************************************************************)
EXTENDS AuthorMatch

CONSTANTS a, b, c

(* Two objects, which lists of up to two elements repeat in every way.     *)
ListsOf(objects) == UNION {[1 .. n -> objects] : n \in 0 .. 2}
Repeated == ListsOf({a, b}) \X ListsOf({a, b})

(* Up to two normalisation functions, each telling the objects apart or    *)
(* not.                                                                    *)
X == <<"x">>
Y == <<"y">>
Z == <<"z">>
Apart    == a :> X @@ b :> Y @@ c :> X
Together == a :> X @@ b :> X @@ c :> Z
Hints == {<<>>, <<Apart>>, <<Together>>, <<Apart, Together>>, <<Together, Apart>>}

(* Three elements in each list, some of them the same object.              *)
Doubles == {<<<<a, a, b>>, <<a, b, c>>>>,
            <<<<a, b, c>>, <<a, b, b>>>>,
            <<<<a, b, b>>, <<a, a, b>>>>}

(* At the threshold, just beyond it, and far.                              *)
Distances == {0, 144, 145, 400}

---------------------------------------------------------------------------
(* 1.0 is 1200, the threshold 0.12 and the penalty 0.05.                   *)
Doe    == Token("d", "oe")
Donny  == Token("d", "onny")
John   == Token("j", "ohn")
Johnny == Token("j", "ohnny")
Smith  == Token("s", "mith")
Smyth  == Token("s", "myth")
Initial(letter) == Token(letter, "")

Words == {Doe, Donny, John, Johnny, Smith, Smyth}

Edits == [w \in {{v, u} : v, u \in Words} |->
            CASE w = {Smith, Smyth}   -> 240
              [] w = {Johnny, Donny}  -> 400
              [] w = {John, Johnny}   -> 400
              [] w = {Doe, John}      -> 900
              [] OTHER                -> 1000]

Authors == {Author(Name(<<Doe>>, <<John>>), 1), Author(Name(<<Doe>>, <<John>>), 2),
            Author(Name(<<Doe>>, <<Initial("j")>>), 1), Author(Name(<<Doe>>, <<John, Smith>>), 1),
            Author(Name(<<Smith>>, <<John>>), 1), Author(Name(<<Smyth>>, <<John>>), 1),
            Author(Name(<<John>>, <<Doe>>), 1), Author(NoName, 1)}

(* Three authors of similar names, in every order.                         *)
Similar == {Author(Name(<<Doe>>, <<John>>), 1), Author(Name(<<Doe>>, <<Initial("j")>>), 1),
            Author(Name(<<Doe>>, <<John, Smith>>), 1)}
Crowds == {s \in [1 .. 3 -> Similar] : Range(s) = Similar}

PairsOfAuthors == (ListsOf(Authors) \X ListsOf(Authors)) \cup (Crowds \X Crowds)

OnlyInitials == {<<<<Author(Name(<<Johnny>>, <<Initial("d")>>), 1)>>,
                   <<Author(Name(<<Donny>>, <<Initial("j")>>), 1)>>>>}

NormsFor(s1, s2) ==
  IF s1 \cup s2 \subseteq {a, b, c} THEN Hints
  ELSE {AuthorNorms(s1 \cup s2)}

DistFnsFor(s1, s2) ==
  IF s1 \cup s2 \subseteq {a, b, c} THEN [s1 \X s2 -> Distances]
  ELSE AuthorDistances(s1, s2)

AnyLists == Repeated \cup Doubles \cup PairsOfAuthors
=============================================================================
