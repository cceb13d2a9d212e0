------------------------------ MODULE LossFilter ------------------------------
(***************************************************************************)
(* The shuffling loss handler of src/vnet/loss_filter.go: of every block   *)
(* of packets it drops a fixed number, at random places.  Each method runs *)
(* under the mutex, so each is one action.                                 *)
(***************************************************************************)
EXTENDS Integers, FiniteSets

CONSTANTS
  BlockSize,   \* shuffleBlockSize
  Chances      \* loss rates, in percent, that are set

Places == 0..(BlockSize - 1)
Blocks == [Places -> BOOLEAN]

VARIABLES
  shuffledBlock, blockIdx, chance, currentDrops, pendingDrops,
  blockChance,   \* history: the rate when the block was last shuffled
  dropped        \* history: packets of this block that were dropped

vars == <<shuffledBlock, blockIdx, chance, currentDrops, pendingDrops, blockChance, dropped>>

TypeOK ==
  /\ shuffledBlock \in Blocks
  /\ blockIdx \in 0..BlockSize
  /\ chance \in Chances /\ blockChance \in Chances
  /\ currentDrops \in 0..BlockSize /\ pendingDrops \in 0..BlockSize
  /\ dropped \in 0..BlockSize

(* calculateDropsPerBlock rounds to the nearest number of packets. *)
DropsTruncated(percent) == (percent * BlockSize) \div 100
DropsPerBlock(percent) == (percent * BlockSize + 50) \div 100

Marked(block) == {i \in Places : block[i]}

(* The first n places of a set are the ones the loop of shuffleBlock meets. *)
FirstOf(S, n) == {i \in S : Cardinality({j \in S : j < i}) < n}
Flips(pending) ==
  IF pending >= currentDrops
  THEN FirstOf(Places \ Marked(shuffledBlock), pending - currentDrops)
  ELSE FirstOf(Marked(shuffledBlock), currentDrops - pending)

RecountUp(pending, n) == IF pending >= currentDrops THEN currentDrops + n ELSE currentDrops
Recount(pending, n) == IF pending >= currentDrops THEN currentDrops + n ELSE currentDrops - n

(* shuffleBlock: mark or unmark places until pendingDrops are marked, then *)
(* shuffle and start again at the first place.                             *)
ShuffleBlock(pending) ==
  LET flips == Flips(pending)
      adjusted == [i \in Places |-> shuffledBlock[i] # (i \in flips)]
  IN  /\ currentDrops' = Recount(pending, Cardinality(flips))
      /\ \E b \in Blocks : /\ Cardinality(Marked(b)) = Cardinality(Marked(adjusted))
                           /\ shuffledBlock' = b

(* newShuffleLossHandle *)
Init ==
  /\ chance \in Chances
  /\ pendingDrops = DropsPerBlock(chance) /\ currentDrops = pendingDrops
  /\ shuffledBlock \in {b \in Blocks : Cardinality(Marked(b)) = currentDrops}
  /\ blockIdx = 0
  /\ blockChance = chance /\ dropped = 0

(* shouldDropShuffle: a new block once the last one is used up. *)
UsedUp == blockIdx = BlockSize
Result(idx, before) == dropped' = before + (IF shuffledBlock'[idx] THEN 1 ELSE 0)
ShouldDrop ==
  /\ IF UsedUp
     THEN /\ ShuffleBlock(pendingDrops)
          /\ blockIdx' = 1 /\ blockChance' = chance
          /\ Result(0, 0)
     ELSE /\ blockIdx' = blockIdx + 1
          /\ UNCHANGED <<shuffledBlock, currentDrops, blockChance>>
          /\ Result(blockIdx, dropped)
  /\ UNCHANGED <<chance, pendingDrops>>

(* setLossRateShuffle *)
SetLossRate(percent, resetImmediately) ==
  /\ chance' = percent
  /\ pendingDrops' = DropsPerBlock(percent)
  /\ IF resetImmediately
     THEN /\ ShuffleBlock(DropsPerBlock(percent))
          /\ blockIdx' = 0 /\ dropped' = 0 /\ blockChance' = percent
     ELSE UNCHANGED <<shuffledBlock, currentDrops, blockIdx, dropped, blockChance>>

Next == ShouldDrop \/ \E percent \in Chances, r \in BOOLEAN : SetLossRate(percent, r)

Spec == Init /\ [][Next]_vars

-----------------------------------------------------------------------------
(* currentDrops counts the marked places through every change of the rate. *)
Counted == currentDrops = Cardinality(Marked(shuffledBlock))

(* The comment of WithShuffleLossHandler: "for every blockSize packets" the *)
(* number dropped equals round(blockSize * chance / 100).  A block that was *)
(* not restarted drops as many as the rate in force when it began says, to *)
(* half a packet.                                                          *)
BlockExact ==
  LET diff == 100 * dropped - blockChance * BlockSize
  IN  UsedUp => -50 <= diff /\ diff <= 50
=============================================================================
