---------------------------- MODULE MCFeedLimits -----------------------------
(***************************************************************************)
(* The live feed at its limits for TLC.  A behaviour is about the clients  *)
(* of confirmed rows (LiveFeed), in the end or on the way over more        *)
(* heights, or about the followers of the mempool (MempoolFeed); whatever  *)
(* it is not about stands still.                                           *)
(***************************************************************************)
EXTENDS MCLiveFeed, MempoolFeed

CONSTANTS
  OutrunsHash, \* is a block replaced of which a row went out, its hash unread?
  ReadsOverlap \* is the window asked for while a request for it is in flight?

VARIABLE about
Settling == about = "settling"
Following == about = "following"
Pending == about = "pending"

\* Two heights and every fault for what clients end up with; three heights,
\* two rows and a closed socket for what they miss on the way.
MCBudgets == IF Following THEN MCOneClose ELSE MCMoreFaults

\* What stands still does so at one initial state of its own.
MCInit ==
  /\ about \in {"settling", "following", "pending"}
  /\ Init
  /\ left \in MCBudgets
  /\ Following => MaxAction < MaxActions
  /\ Pending => chain = <<[hash |-> 1, top |-> 1]>>
  /\ MempoolInit
  /\ ~Pending => ~followed /\ addressId = "none"

Bounded ==
  IF Following THEN MaxAction' < MaxActions
  ELSE MaxBlock' < MaxBlocks /\ minted' < MaxMinted

\* No block is replaced above the block cursor while rows of it are out or in
\* hand: with FetchLimit actions a pass, these outrun the blocks.
HashFirst ==
  \A h \in (Len(chain') + 1)..Len(chain) :
    \/ h <= blockIndex
    \/ /\ actionIndex <= Top(h - 1)
       /\ \A n \in DOMAIN poll.rows : poll.rows[n].height < h

Confirmed ==
  /\ Next /\ Bounded
  /\ Following /\ ~OutrunsHash => HashFirst

MCNext ==
  \/ ~Pending /\ Confirmed /\ UNCHANGED <<mempoolVars, about>>
  \/ Pending /\ MempoolNext /\ (ReadsOverlap \/ OneRequest') /\ UNCHANGED <<vars, about>>

MCSpec ==
  MCInit /\ [][MCNext]_<<vars, mempoolVars, about>> /\ (Settling => Fairness)

\* Every variable of both parts keeps its type.
TypesOK == TypeOK /\ MempoolTypeOK

\* Read one block, one row and one replayed row at a time, over three heights
\* with two rows or two with three, a client misses no row and keeps none of a
\* replaced chain, as long as no block is replaced before its hash is read
\* (HashFirst).  A log shorter than the rollbacks of a client's absence loses
\* rows too, from three heights and three rows on.
ClientsFollow == NothingMissed /\ FollowsChain

\* What its clients end up with, for the behaviours about that.
ClientsSettle == Settling => Settles
=============================================================================
