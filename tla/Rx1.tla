--------------------------------- MODULE Rx1 ---------------------------------
(***************************************************************************)
(* The data rate of an answer in the first receive window: the data rate   *)
(* of the uplink, lowered by the Rx1DRoffset of the table Region in the    *)
(* way of its Region_Info (RegionApplyDrOffset in region.c).  Both columns *)
(* are set by commands of the PC and of the server, one at a time and      *)
(* unchecked; Thread_Handle_Data_Task reads them in two transactions.      *)
(* (SendClassADebugData does so too, but goes on when a read fails.)       *)
(*                                                                         *)
(* region.c counts data rates from DR_0 up.  What it gets, and what its    *)
(* result becomes, is the code of the sx1301: one bit per spreading        *)
(* factor, 0x02 for SF7 to 0x40 for SF12.                                  *)
(*                                                                         *)
(* The specification is RateSpec: DownlinkProofs has it beside the Spec of *)
(* Downlink, which has the other variables of the answering thread.        *)
(***************************************************************************)
EXTENDS Integers

CONSTANTS
    Garbage,    \* what may lie in memory beside the tables of region.c
    MaxCmds     \* bound on commands

ASSUME Rx1Assumption == Garbage \subseteq 0..255 /\ MaxCmds \in Nat

VARIABLES
    Region_Info, Rx1DRoffset,   \* the columns, the same in all rows
    rxpc,                         \* the answering thread
    datarate,                   \* the uplink's, as the sx1301 reported it
    region, rx1droffset,        \* what the thread read
    down_datarate,              \* what it passes to lgw_send
    cmds

rateVars == <<Region_Info, Rx1DRoffset, rxpc, datarate, region, rx1droffset, down_datarate, cmds>>

SubtractRegions == {"CN470", "CN779", "EU433", "EU868", "KR920", "CN470_ASYNCHRONY"}
EffectiveRegions == {"AS923", "IN865"}
TableRegions == {"AU915", "US915", "US915_HYBRID"}
Regions == SubtractRegions \union EffectiveRegions \union TableRegions

\* "Rx1DRoffset Range", and the data rates of uplinks of 125 kHz.
OffsetRange(r) == CASE r \in EffectiveRegions -> 0..7
                    [] r \in {"US915", "US915_HYBRID"} -> 0..3
                    [] OTHER -> 0..5
DataRates(r) == CASE r \in {"US915", "US915_HYBRID"} -> 0..4
                  [] r = "AU915" -> 0..6
                  [] OTHER -> 0..5

\* DR_LORA_SF7 to DR_LORA_SF12.
LoraRates == {2, 4, 8, 16, 32, 64}

-----------------------------------------------------------------------------
AtLeast(a, b) == IF a > b THEN a ELSE b
AtMost(a, b) == IF a < b THEN a ELSE b

EffectiveRx1DrOffset == [i \in 0..7 |-> CASE i = 6 -> -1 [] i = 7 -> -2 [] OTHER -> i]

DatarateOffsetsAU915 ==
    << <<8, 8, 8, 8, 8, 8>>, <<9, 8, 8, 8, 8, 8>>, <<10, 9, 8, 8, 8, 8>>,
       <<11, 10, 9, 8, 8, 8>>, <<12, 11, 10, 9, 8, 8>>, <<13, 12, 11, 10, 9, 8>>,
       <<13, 13, 12, 11, 10, 9>> >>

DatarateOffsetsUS915 ==
    << <<10, 9, 8, 8>>, <<11, 10, 9, 8>>, <<12, 11, 10, 9>>, <<13, 12, 11, 10>>, <<13, 13, 12, 11>> >>

\* An index outside of a table reads whatever is there.
Entry(table, dr, off) ==
    IF dr + 1 \in DOMAIN table /\ off + 1 \in DOMAIN table[1]
    THEN {table[dr + 1][off + 1]} ELSE Garbage

\* Mutant: a difference below DR_0 is not caught.
SubtractedRaw(dr, off) == (dr - off) % 256

\* Mutant: the offset is added.
Added(dr, off) == dr + off

Subtracted(dr, off) == AtLeast(0, dr - off)

EffectiveApplied(dr, off) ==
    {AtMost(5, AtLeast(0, dr - EffectiveRx1DrOffset[off]))}

\* Without a limit to the dwell time, as it is called.  The possible results.
RegionApplyDrOffset(r, dr, off) ==
    CASE r \in EffectiveRegions -> EffectiveApplied(dr, off)
      [] r = "AU915" -> Entry(DatarateOffsetsAU915, dr, off)
      [] r \in {"US915", "US915_HYBRID"} -> Entry(DatarateOffsetsUS915, dr, off)
      [] OTHER -> {Subtracted(dr, off)}

-----------------------------------------------------------------------------
\* Channel_FrequencyTable_Init: CN470 and no offset, in every row.
RateInit ==
    /\ Region_Info = "CN470" /\ Rx1DRoffset = 0
    /\ rxpc = "wait" /\ datarate \in LoraRates
    /\ region = "CN470" /\ rx1droffset = 0 /\ down_datarate = 0
    /\ cmds = 0

Command == cmds < MaxCmds /\ cmds' = cmds + 1

\* ServerConfRegionFreq does the same.
Ack_Region_Freq_Info(r) ==
    /\ Command
    /\ Region_Info' = r
    /\ UNCHANGED <<Rx1DRoffset, rxpc, datarate, region, rx1droffset, down_datarate>>

\* ServerConfRx1DRoffsetInfo does the same; neither looks at the region.
Ack_Rx1DRoffset_Info(off) ==
    /\ Command
    /\ Rx1DRoffset' = off
    /\ UNCHANGED <<Region_Info, rxpc, datarate, region, rx1droffset, down_datarate>>

Fetch_Region_Info ==
    /\ rxpc = "wait"
    /\ region' = Region_Info /\ rxpc' = "offset"
    /\ UNCHANGED <<Region_Info, Rx1DRoffset, datarate, rx1droffset, down_datarate, cmds>>

Fetch_RX1DRoffset_Info ==
    /\ rxpc = "offset"
    /\ rx1droffset' = Rx1DRoffset /\ rxpc' = "apply"
    /\ UNCHANGED <<Region_Info, Rx1DRoffset, datarate, region, down_datarate, cmds>>

Thread_Handle_Data_Task ==
    /\ rxpc = "apply"
    /\ down_datarate' \in RegionApplyDrOffset(region, datarate, rx1droffset)
    /\ rxpc' = "send"
    /\ UNCHANGED <<Region_Info, Rx1DRoffset, datarate, region, rx1droffset, cmds>>

\* The answer to the next uplink, of any rate.
NextUplink ==
    /\ rxpc' = "wait" /\ datarate' \in LoraRates
    /\ region' = "CN470" /\ rx1droffset' = 0 /\ down_datarate' = 0
    /\ UNCHANGED <<Region_Info, Rx1DRoffset, cmds>>

\* The data base is busy: no answer.
ReadFails == rxpc \in {"wait", "offset"} /\ NextUplink

AnswerSent == rxpc = "send" /\ NextUplink

RateNext ==
    \/ \E r \in Regions : Ack_Region_Freq_Info(r)
    \/ \E off \in 0..7 : Ack_Rx1DRoffset_Info(off)
    \/ Fetch_Region_Info \/ Fetch_RX1DRoffset_Info \/ ReadFails
    \/ Thread_Handle_Data_Task \/ AnswerSent

RateSpec == RateInit /\ [][RateNext]_rateVars

-----------------------------------------------------------------------------
(* The data rate of RX1 by the regional parameters of LoRaWAN 1.0.2.       *)
Distance(a, b) == IF a > b THEN a - b ELSE b - a
Nearest(goal) == CHOOSE d \in 0..5 : \A e \in 0..5 : Distance(d, goal) <= Distance(e, goal)

Regional(r, dr, off) ==
    CASE r \in SubtractRegions -> IF off > dr THEN 0 ELSE dr - off
      [] r \in EffectiveRegions -> Nearest(dr - (IF off > 5 THEN 5 - off ELSE off))
      [] r = "AU915" -> AtLeast(8, AtMost(13, dr + 8 - off))
      [] OTHER -> AtLeast(8, AtMost(13, dr + 10 - off))

\* For every region that can be configured, RegionApplyDrOffset computes the
\* data rate of the regional parameters, given a data rate and an offset of the
\* region: the tables, the negative offsets and the limits agree with it.
ApplyIsRegional ==
    \A dr \in DataRates(Region_Info) :
        Rx1DRoffset \in OffsetRange(Region_Info)
          => RegionApplyDrOffset(Region_Info, dr, Rx1DRoffset)
               = {Regional(Region_Info, dr, Rx1DRoffset)}

\* Whatever was configured between the reads, as long as the offset stands for
\* a slower rate: in the regions without a table an answer that the sx1301 can
\* send at all goes out at the rate of its uplink or at the next faster one.
SentAsHeardOrFaster ==
    (rxpc = "send" /\ region \notin TableRegions /\ rx1droffset \in 0..5
        /\ down_datarate \in LoraRates)
      => down_datarate = datarate \/ 2 * down_datarate = datarate

\* "Computes new datarate according to the given offset": what is passed to
\* lgw_send as the data rate is one.
RateIsComputed ==
    (rxpc = "send" /\ rx1droffset \in OffsetRange(region)) => down_datarate \in LoraRates
=============================================================================
