--------------------------- MODULE MCRotationDay ---------------------------
(* A line of two posts and a line of one, a seven o'clock post and its       *)
(* relief, and someone planned on a post whose shift begins later.           *)
EXTENDS RotationDay

CONSTANTS a, b, c

TwoLines == <<2, 1>>
Starts == a :> 0 @@ b :> 0 @@ c :> 1
Ends == a :> 3 @@ b :> 4 @@ c :> 4
Seats == a :> <<1, 1>> @@ b :> None @@ c :> <<1, 2>>
Reliefs == a :> None @@ b :> a @@ c :> None
Orders == a :> 1 @@ b :> 2 @@ c :> 3
SpareOne == {<<2, 1>>}
=============================================================================
