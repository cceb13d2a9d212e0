-------------------------------- MODULE Filters --------------------------------
(***************************************************************************)
(* The parts of src/vnet that a chunk may pass between two routers: the    *)
(* token bucket queue (module TBFQueue), the delay filter, the loss filter *)
(* and the duplication filter.  They implement the same interface, NIC or  *)
(* ChunkFilter, and share no state, so their joint behaviour is that of    *)
(* each of them: the object under test is chosen once, and the others stay *)
(* in an initial state.                                                    *)
(***************************************************************************)
EXTENDS TBFQueue

CONSTANTS
  DelayCallers, SetDelays, Minute, DelayedChunks, DelayTime,   \* of DelayFilter
  BlockSize, Chances,                                          \* of LossFilter
  BucketSize, ExtraDelays, DupChunks, DupTime                  \* of DuplicationFilter

ASSUME DelayAssumption ==
  SetDelays \subseteq Nat /\ Minute \in Nat /\ DelayedChunks \in Nat /\ DelayTime \in Nat
ASSUME DupAssumption ==
  BucketSize \in Nat \ {0} /\ ExtraDelays \subseteq Nat /\ DupChunks \in Nat /\ DupTime \in Nat

VARIABLES
  which,   \* the object under test
  d_now, d_delay, d_queue, d_timer, d_waiting, d_done, d_rpc, d_cpc, d_count,
  d_accepted, d_out, d_early,
  shuffledBlock, blockIdx, chance, currentDrops, pendingDrops, blockChance, dropped,
  now, arrived, inq, u_rpc, call, u_delay, mu, buckets, timers, fired, taken, pushing,
  u_closed, u_cpc, stopping, dups

Delayer == INSTANCE DelayFilter WITH
  Callers <- DelayCallers, Delays <- SetDelays, MaxChunks <- DelayedChunks,
  MaxTime <- DelayTime, now <- d_now, delay <- d_delay, queue <- d_queue,
  timer <- d_timer, waiting <- d_waiting, done <- d_done, rpc <- d_rpc, cpc <- d_cpc,
  count <- d_count, accepted <- d_accepted, out <- d_out, early <- d_early

Loss == INSTANCE LossFilter

Duplicator == INSTANCE DuplicationFilter WITH
  Delays <- ExtraDelays, MaxChunks <- DupChunks, MaxTime <- DupTime,
  rpc <- u_rpc, delay <- u_delay, closed <- u_closed, cpc <- u_cpc

tbf == vars
del == <<d_now, d_delay, d_queue, d_timer, d_waiting, d_done, d_rpc, d_cpc, d_count,
         d_accepted, d_out, d_early>>
los == <<shuffledBlock, blockIdx, chance, currentDrops, pendingDrops, blockChance, dropped>>
dup == <<now, arrived, inq, u_rpc, call, u_delay, mu, buckets, timers, fired, taken,
         pushing, u_closed, u_cpc, stopping, dups>>
allVars == <<which, tbf, del, los, dup>>

Least(S) == CHOOSE x \in S : \A y \in S : x <= y
FiltersInit ==
  /\ which \in {"tbf", "delay", "loss", "duplication"}
  /\ Init /\ Delayer!Init /\ Loss!Init /\ Duplicator!Init
  /\ which # "tbf" => /\ maxSize = Least(QueueSizes)
                      /\ rate = Least(Rates) /\ burst = Least(Bursts)
  /\ which # "delay" => d_delay = Least(SetDelays)
  /\ which # "loss" => chance = 0

FiltersNext ==
  \/ which = "tbf" /\ Next /\ UNCHANGED <<which, del, los, dup>>
  \/ which = "delay" /\ Delayer!Next /\ UNCHANGED <<which, tbf, los, dup>>
  \/ which = "loss" /\ Loss!Next /\ UNCHANGED <<which, tbf, del, dup>>
  \/ which = "duplication" /\ Duplicator!Next /\ UNCHANGED <<which, tbf, del, los>>

FiltersSpec == FiltersInit /\ [][FiltersNext]_allVars

-----------------------------------------------------------------------------
(* The queue and the delay filter hand chunks on in the order they came,   *)
(* although pop may refuse and SetDelay may give a later chunk an earlier  *)
(* deadline; none is lost, and what a delay filter took over is delivered  *)
(* when its Close returns.                                                 *)
Delivery == KeptInOrder /\ Delayer!InOrder /\ Delayer!DrainedByClose

(* No chunk leaves before its delay is over: not while a delay filter is   *)
(* open, and no duplicate, whose time is rounded to a bucket boundary.     *)
NotEarly == Delayer!NotEarly /\ Duplicator!NotEarly

(* The state is well typed and what each part counts beside its data is    *)
(* exact: the size of the queued chunks, the marked places of a block; of  *)
(* every block the promised number of packets is dropped.  A chunk is      *)
(* duplicated at most once, every timer that fires finds its bucket, and   *)
(* Close leaves no timer running.                                          *)
Accounted ==
  /\ TypeOK /\ Delayer!TypeOK /\ Loss!TypeOK /\ Duplicator!TypeOK
  /\ SizeExact /\ Loss!Counted /\ Loss!BlockExact
  /\ Duplicator!DuplicatedOnce /\ Duplicator!BucketThere /\ Duplicator!NoTimersLeft

(* No goroutine is left waiting in a call of one of the parts, and no      *)
(* chunk in it is forgotten.                                               *)
NoneStuck == NothingStuck /\ Delayer!NothingStuck /\ Duplicator!NothingStuck
=============================================================================
