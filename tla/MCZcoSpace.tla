----------------------------- MODULE MCZcoSpace -----------------------------
(* Instances of ZcoSpace for TLC.                                            *)
EXTENDS ZcoSpace, TLC

CONSTANTS cla, app, file, transit, f, g, h

\* An adapter that acquires a bundle in two pieces, an application that waits
\* for space, and one that does not.
Files == cla :> f @@ app :> g @@ file :> h
Ones == [t \in Maker |-> 1]
Lengths == cla :> 1 @@ app :> 2 @@ file :> 1
TwoPieces == cla :> 2 @@ app :> 1 @@ file :> 1
Accounts == cla :> "in" @@ app :> "out" @@ file :> "out"
Limit == "in" :> 2 @@ "out" :> 2
Equal == [t \in Task |-> 0]
Urgent == [t \in Task |-> IF t = transit THEN 1 ELSE 0]
=============================================================================
