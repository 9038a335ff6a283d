------------------------------ MODULE MCIsoTp ------------------------------
(* Small instances of IsoTp: who sends what, with which block sizes, and    *)
(* what may go wrong.                                                       *)
EXTENDS IsoTp

CONSTANTS a, b

ByEnd(forA, forB) == [e \in Ends |-> IF e = a THEN forA ELSE forB]

\* a sends payloads of a single frame, of one, two or three and more consecutive
\* frames to b; no payload ends a block; nothing goes wrong.
Clean == [receivers |-> {b}, foreign |-> {}, lengths |-> ByEnd({13, 27, 41}, {}),
          block |-> ByEnd(2, 2), depth |-> 2, sns |-> 2,
          lossy |-> FALSE, hasty |-> FALSE, retries |-> FALSE, closes |-> FALSE, sends |-> 3]
NoBlocks == [Clean EXCEPT !.lengths = ByEnd({7, 20, 34}, {}), !.block = ByEnd(0, 0), !.depth = 6]

\* Both ends send and receive; frames are lost, time-outs strike at any time, the
\* bus closes.
Faulty == [receivers |-> {a, b}, foreign |-> {}, lengths |-> ByEnd({7, 21}, {13}),
           block |-> ByEnd(0, 2), depth |-> 3, sns |-> 2,
           lossy |-> TRUE, hasty |-> TRUE, retries |-> FALSE, closes |-> TRUE, sends |-> 2]

\* The peer is no go-CAN Conn: any flow control may come at any time.
ForeignPeer == [receivers |-> {}, foreign |-> {b}, lengths |-> ByEnd({7, 13, 27}, {}),
                block |-> ByEnd(1, 1), depth |-> 2, sns |-> 2,
                lossy |-> FALSE, hasty |-> TRUE, retries |-> TRUE, closes |-> TRUE, sends |-> 2]

\* The payload ends exactly at the end of a block.
Dangling == [Clean EXCEPT !.lengths = ByEnd({20}, {}), !.sends = 1]

\* A caller sends again after a time-out; nothing is lost.
Retrying == [Clean EXCEPT !.lengths = ByEnd({20}, {}), !.block = ByEnd(0, 0), !.depth = 4,
                          !.sns = 16, !.hasty = TRUE, !.retries = TRUE, !.sends = 2]

Situations == {Clean, NoBlocks, Faulty, ForeignPeer}
DanglingOnly == {Dangling}
RetryingOnly == {Retrying}
=============================================================================
