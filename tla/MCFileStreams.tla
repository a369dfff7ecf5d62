--------------------------- MODULE MCFileStreams ----------------------------
(***************************************************************************)
(* Files of one to three pieces, read with up to two threads into one or     *)
(* two partitions; a file for a worker is full with two edges, a buffer      *)
(* with two pieces, so that every limit is met.                              *)
(***************************************************************************)
EXTENDS FileStreams

Local(id, p) == [id |-> id, kind |-> "local", part |-> p]
Cut(id, p) == [id |-> id, kind |-> "cut", part |-> p]
File(source, pieces, cut) == [source |-> source, pieces |-> pieces, cut |-> cut]
With(follows, count, workers, stops, faults) ==
    [follows |-> follows, count |-> count, workers |-> workers,
     stops |-> stops, faults |-> faults]

\* Three lines, the last with or without an end of line; two directed edges that are
\* cuts, seen from the partition they start in; an undirected one, seen from both.
ThreeLines(cut) ==
    File("hdfs", <<<<Local(1, 0)>>, <<Local(2, 0)>>, <<Local(3, 0)>>>>, cut)
TwoCuts == File("hdfs", <<<<Cut(1, 0)>>, <<Cut(2, 0)>>>>, FALSE)
OneCut == File("hdfs", <<<<Cut(1, 0), Cut(2, 1)>>>>, FALSE)
\* Texts of which a worker makes two edges and one, or one and one.
ThreeTuples == File("kg", <<<<Local(1, 0), Local(2, 0)>>, <<Local(3, 0)>>>>, TRUE)
TwoTexts(source, second) == File(source, <<<<Local(1, 0)>>, <<second>>>>, FALSE)

Both == Kind \X {0}
Locals == {"local"} \X {0}
Cuts == {"cut"} \X Partition

MCPlans == {
    ThreeLines(TRUE) @@ With(Both, 2, 2, FALSE, {"unopened", "read"}),
    ThreeLines(FALSE) @@ With(Both, 1, 1, FALSE, {"disk", "failed", "stuck"}),
    TwoCuts @@ With(Both, 1, 2, FALSE, {}),
    OneCut @@ With(Cuts, 1, 2, FALSE, {}),
    ThreeTuples @@ With(Locals, 1, 1, TRUE, {"silent", "lost"}),
    TwoTexts("kg", Local(2, 0)) @@ With(Locals, 2, 2, FALSE, {"connection", "unopened"}),
    TwoTexts("local", Cut(2, 0)) @@ With(Both, 2, 3, FALSE, {}),
    TwoTexts("local", Local(2, 0)) @@ With(Locals, 0, 2, FALSE, {}),
    TwoTexts("kg", Local(2, 0)) @@ With(Locals, 0, 1, TRUE, {})}
=============================================================================
