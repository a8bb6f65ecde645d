---------------------------- MODULE UplinkProofs ----------------------------
(***************************************************************************)
(* Theorems about Uplink, for any nodes, any even W, batches of any size   *)
(* and any number of frames, joins, removals and refused statements.       *)
(***************************************************************************)
EXTENDS Uplink, Integers, TLAPS

\* A stored counter has grown by less than W with each accepted frame, and the
\* one in hand is at most one such step further; before the MIC test it is the
\* stored one, which only main changes.
Parsing == mpc \in {"parse", "mic"}

Grown ==
    /\ \A n \in Node : row[n].fcnt <= count * (W-1)
    /\ up <= (count + 1) * (W-1)
    /\ Parsing => batch # << >> /\ up = row[f.node].fcnt

\* Where main has yet to fill, or to finish, the buffer of c for the frame
\* that was counted last.
ToCopy(c) == IF c = "conf" THEN {"copy1"} ELSE {"copy1", "post1", "copy2"}
ToPost(c) == IF c = "conf" THEN {"copy1", "post1"} ELSE {"copy1", "post1", "copy2", "post2"}

\* A buffer has been posted once for each accepted frame.
Posted ==
    \A c \in Chan : /\ tok[c] <= count
                    /\ mpc \in ToPost(c) => tok[c] < count

\* The frame in hand is the first of the batch.
InHand == mpc \notin {"recv", "frame"} => batch # << >>

\* TypeOK in four groups.
FrameType ==
    /\ air \in Seq(Frame) /\ Len(air) <= MaxBatch /\ sent \in 0..MaxFrames
    /\ mpc \in {"recv", "frame", "parse", "mic", "update", "copy1", "post1", "copy2", "post2", "join"}
    /\ batch \in Seq(Frame) /\ Len(batch) <= MaxBatch
    /\ micOk \in BOOLEAN /\ tpc \in {"none", "check", "stuck"}
NodeType ==
    /\ up \in Fcnt /\ count \in Serial /\ edits \in 0..MaxEdits
    /\ row \in [Node -> [present : BOOLEAN, sess : Sess, fcnt : Fcnt]]
    /\ dev \in [Node -> [sess : Sess, fcnt : 0..MaxFcnt]]
KeyType ==
    /\ flag \in BOOLEAN /\ nwk \in (Node \X Sess) \cup {<< >>}
    /\ hit \subseteq {"busy", "flag", "keys", "check"}
    /\ joining \subseteq Node /\ derived \subseteq Node /\ sessions \in 0..MaxJoins
ChanType ==
    /\ buf \in [Chan -> [data : Serial, len : Serial]]
    /\ tok \in [Chan -> Serial]
    /\ spc \in [Chan -> {"wait", "clear"}]
    /\ opened \in [Chan -> BOOLEAN]
    /\ out \in [Chan -> SUBSET [data : Serial, len : Serial]]

TypeInv == TypeOK /\ Grown /\ Posted /\ InHand

\* What is in a buffer has not been sent, unless it is about to be cleared.
Unsent ==
    \A c \in Chan :
        /\ buf[c].data <= count
        /\ mpc \in ToCopy(c) => buf[c].data < count
        /\ \A o \in out[c] : /\ o.data <= count
                             /\ mpc \in ToCopy(c) => o.data < count
                             /\ spc[c] = "wait" /\ buf[c].data > 0 => o.data # buf[c].data

\* A genuine frame is no newer than its device.
Past(x) ==
    x.good => /\ x.sess <= dev[x.node].sess
              /\ x.sess = dev[x.node].sess => x.fcnt <= dev[x.node].fcnt

\* No device is in the session that an accept is about to bring it.
Fresh ==
    \A n \in Node : /\ dev[n].sess <= sessions
                    /\ derived # {} => dev[n].sess < sessions

Heard ==
    /\ \A i \in 1..Len(air) : Past(air[i])
    /\ \A i \in 1..Len(batch) : Past(batch[i])
    /\ Fresh

\* The counter that is about to be stored is not ahead of a genuine frame's.
NotAhead == mpc = "update" /\ Genuine => up <= f.fcnt

\* While nothing came in the way of a genuine frame, main has its keys, and
\* then its counter.
Unhindered == hit = {} /\ f.good /\ Known
InWay ==
    /\ mpc = "mic" /\ Unhindered => flag /\ nwk = <<f.node, f.sess>>
    /\ mpc = "update" /\ Unhindered /\ InWindow => up = f.fcnt
USE DEF vars, mainVars, parseVars, nodeVars, joinVars, chanVars, Chan

-----------------------------------------------------------------------------
(* The constants, sequences and the counter's arithmetic.                  *)

LEMMA Bounds ==
    /\ W \in Nat /\ W > 0 /\ MaxBatch \in Nat /\ MaxFcnt \in Nat /\ MaxFrames \in Nat
    /\ MaxUp \in Nat /\ MaxJoins \in Nat /\ MaxEdits \in Nat
BY UplinkAssumption DEF UplinkAssumption

LEMMA HeadTail ==
    ASSUME NEW S, NEW q \in Seq(S), q # << >>
    PROVE  /\ Head(q) \in S /\ Head(q) = q[1]
           /\ Tail(q) \in Seq(S) /\ Len(Tail(q)) = Len(q) - 1
           /\ \A i \in 1..Len(Tail(q)) : Tail(q)[i] = q[i+1]
OBVIOUS

\* One more accepted frame is one more step of W-1.
LEMMA Steps ==
    ASSUME NEW k \in Nat
    PROVE  /\ k * (W-1) \in Nat
           /\ (k + 1) * (W-1) = k * (W-1) + (W-1)
           /\ \A m \in Nat : m <= k => m * (W-1) <= k * (W-1)
<1>1. W - 1 \in Nat
  BY Bounds
<1>2. \A d \in Nat : d * (W-1) \in Nat
  BY <1>1
<1>3. (k + 1) * (W-1) = k * (W-1) + (W-1)
  BY <1>1
<1>4. ASSUME NEW m \in Nat, m <= k
      PROVE  m * (W-1) <= k * (W-1)
  <2>1. PICK d \in Nat : k = m + d
    BY <1>4
  <2>2. k * (W-1) = m * (W-1) + d * (W-1)
    BY <2>1, <1>1
  <2>3. QED
    BY <2>2, <1>2
<1>5. QED
  BY <1>2, <1>3, <1>4

\* With or without a carry the counter grows by the difference.
LEMMA ReconstructAdds ==
    ASSUME TypeOK, batch # << >>, NEW b \in Nat
    PROVE  /\ f \in Frame /\ Diff(b) \in 0..(W-1)
           /\ Reconstruct(b) = b + Diff(b)
<1>1. f \in Frame
  BY HeadTail DEF f, TypeOK
<1>2. f.fcnt \in Nat
  BY <1>1 DEF Frame
<1>3. f.fcnt % W \in 0..(W-1) /\ b % W \in 0..(W-1)
  BY <1>2, Bounds
<1>4. Diff(b) \in 0..(W-1)
  BY <1>3, Bounds DEF Diff
<1>5. QED
  BY <1>1, <1>4, Bounds DEF Reconstruct

\* The 16 bit difference of two counters less than W apart is their difference.
LEMMA Window ==
    ASSUME NEW a \in Nat, NEW b \in Nat, b <= a, a < b + W
    PROVE  ((a % W) + W - (b % W)) % W = a - b
<1> DEFINE p == a \div W
           q == b \div W
           x == a % W
           y == b % W
<1>1. /\ p \in Int /\ q \in Int /\ x \in 0..(W-1) /\ y \in 0..(W-1)
      /\ a = W * p + x /\ b = W * q + y
  BY Bounds
<1> HIDE DEF p, q, x, y
<1>2. a - b = W * (p - q) + (x - y)
  BY <1>1, Bounds
<1>3. p - q \in {0, 1}
  <2>1. CASE p - q >= 2
    <3>1. W * (p - q) >= W * 2
      BY <2>1, <1>1, Bounds
    <3>2. QED
      BY <3>1, <1>1, <1>2, Bounds
  <2>2. CASE p - q <= -1
    <3>1. W * (p - q) <= W * (-1)
      BY <2>2, <1>1, Bounds
    <3>2. QED
      BY <3>1, <1>1, <1>2, Bounds
  <2>3. QED
    BY <2>1, <2>2, <1>1
<1>4. CASE p - q = 0
  <2>1. a - b = x - y /\ x >= y
    BY <1>4, <1>2, <1>1, Bounds
  <2>2. (x + W - y) % W = x - y
    BY <2>1, <1>1, Bounds
  <2>3. QED
    BY <2>1, <2>2 DEF x, y
<1>5. CASE p - q = 1
  <2>1. a - b = W + x - y /\ x < y
    BY <1>5, <1>2, <1>1, Bounds
  <2>2. (x + W - y) % W = W + x - y
    BY <2>1, <1>1, Bounds
  <2>3. QED
    BY <2>1, <2>2 DEF x, y
<1>6. QED
  BY <1>3, <1>4, <1>5
-----------------------------------------------------------------------------
(* Types.                                                                  *)

LEMMA InitTypes == Init => TypeInv
<1> SUFFICES ASSUME Init PROVE TypeInv
  OBVIOUS
<1>1. 0 \in Fcnt /\ 0 \in Sess /\ 0 \in Serial
  <2>1. (MaxUp + 1) * (W - 1) \in Nat
    BY Bounds, Steps
  <2>2. QED
    BY <2>1, Bounds DEF Fcnt, Sess, Mixed, Serial
<1>2. 0 \in 0..MaxFrames /\ 0 \in 0..MaxFcnt /\ 0 \in 0..MaxEdits /\ 0 \in 0..MaxJoins
  BY Bounds
<1>2a. /\ air \in Seq(Frame) /\ Len(air) <= MaxBatch /\ batch \in Seq(Frame) /\ Len(batch) <= MaxBatch
  BY Bounds DEF Init
<1>2b. TypeOK
  BY <1>1, <1>2, <1>2a DEF Init, TypeOK, Cleared
<1>3. 0 * (W - 1) \in Nat /\ (0 + 1) * (W - 1) \in Nat
  BY Bounds, Steps
<1>4. Grown /\ Posted /\ InHand
  BY <1>3 DEF Init, Grown, Parsing, Posted, ToPost, InHand
<1>5. QED
  BY <1>2b, <1>4 DEF TypeInv

LEMMA Types ==
    /\ TypeOK <=> FrameType /\ NodeType /\ KeyType /\ ChanType
    /\ TypeOK' <=> FrameType' /\ NodeType' /\ KeyType' /\ ChanType'
BY DEF TypeOK, FrameType, NodeType, KeyType, ChanType

LEMMA FrameInHand ==
    ASSUME FrameType, batch # << >>
    PROVE  /\ f \in Frame /\ f.node \in Node
           /\ Tail(batch) \in Seq(Frame) /\ Len(Tail(batch)) <= MaxBatch
<1>1. f \in Frame
  BY HeadTail DEF f, FrameType
<1>2. Len(batch) \in Nat /\ Len(batch) <= MaxBatch
  BY DEF FrameType
<1>3. QED
  BY <1>1, <1>2, HeadTail, Bounds DEF Frame, FrameType

\* What each invariant depends on.
LEMMA KeepNodes ==
    ASSUME NodeType, UNCHANGED <<up, count, row, dev>>, UNCHANGED edits \/ Refused
    PROVE  NodeType'
BY Bounds DEF NodeType, Refused

LEMMA EditsType ==
    ASSUME NodeType, UNCHANGED edits \/ Refused
    PROVE  edits' \in 0..MaxEdits
BY Bounds DEF NodeType, Refused

LEMMA KeepKeys ==
    ASSUME KeyType, UNCHANGED <<parseVars, joinVars>>
    PROVE  KeyType'
BY DEF KeyType

LEMMA KeepChans ==
    ASSUME ChanType, UNCHANGED chanVars
    PROVE  ChanType'
BY DEF ChanType

LEMMA KeepGrown ==
    ASSUME Grown, UNCHANGED <<up, count>>, \A n \in Node : row'[n].fcnt = row[n].fcnt,
           Parsing' => Parsing /\ UNCHANGED batch /\ f.node \in Node
    PROVE  Grown'
BY DEF Grown, f

LEMMA KeepPosted ==
    ASSUME Posted, UNCHANGED <<tok, count>>,
           mpc' = mpc \/ mpc' \in {"recv", "frame", "parse", "mic", "update", "join"}
    PROVE  Posted'
BY DEF Posted, ToPost

LEMMA ReceiveTypes ==
    ASSUME TypeInv, Receive
    PROVE  TypeInv'
<1>1. FrameType'
  <2>1. << >> \in Seq(Frame) /\ Len(<< >>) <= MaxBatch
    BY Bounds
  <2>2. QED
    BY <2>1 DEF TypeInv, Receive, TypeOK, FrameType
<1>2. NodeType' /\ KeyType' /\ ChanType'
  BY Types, KeepNodes, KeepKeys, KeepChans DEF TypeInv, Receive
<1>3. (Grown /\ Posted /\ InHand)'
  BY KeepGrown, KeepPosted DEF TypeInv, Receive, InHand, Parsing
<1>4. QED
  BY <1>1, <1>2, <1>3, Types DEF TypeInv

LEMMA BatchDoneTypes ==
    ASSUME TypeInv, BatchDone
    PROVE  TypeInv'
<1>1. FrameType'
  BY DEF TypeInv, BatchDone, TypeOK, FrameType
<1>2. NodeType' /\ KeyType' /\ ChanType'
  BY Types, KeepNodes, KeepKeys, KeepChans DEF TypeInv, BatchDone
<1>3. (Grown /\ Posted /\ InHand)'
  BY KeepGrown, KeepPosted DEF TypeInv, BatchDone, InHand, Parsing
<1>4. QED
  BY <1>1, <1>2, <1>3, Types DEF TypeInv

LEMMA JoinFrameTypes ==
    ASSUME TypeInv, JoinFrame
    PROVE  TypeInv'
<1>1. FrameType /\ NodeType /\ KeyType /\ ChanType /\ batch # << >>
  BY Types DEF TypeInv, JoinFrame, InFrame
<1>2. /\ f \in Frame /\ f.node \in Node
      /\ Tail(batch) \in Seq(Frame) /\ Len(Tail(batch)) <= MaxBatch
  BY <1>1, FrameInHand
<1>3. /\ batch' = Tail(batch) /\ mpc' = "frame"
      /\ UNCHANGED <<air, sent, micOk, up, count, parseVars, derived, sessions, dev, tpc, chanVars>>
  BY DEF JoinFrame, Next1
<1>4. FrameType'
  BY <1>1, <1>2, <1>3 DEF FrameType
<1>5. /\ row' \in {row, [row EXCEPT ![f.node].fcnt = 0]}
      /\ joining' \in {joining, joining \cup {f.node}}
      /\ UNCHANGED edits \/ Refused
  BY DEF JoinFrame, Zeroed, Queued
<1>6. 0 \in Fcnt /\ count * (W-1) \in Nat
  BY <1>1, Bounds, Steps DEF Fcnt, NodeType, Serial
<1>7. NodeType'
  <2>1. edits' \in 0..MaxEdits
    BY <1>1, <1>5, EditsType
  <2>2. QED
    BY <1>1, <1>2, <1>3, <1>5, <1>6, <2>1 DEF NodeType
<1>8. KeyType' /\ ChanType'
  BY <1>1, <1>2, <1>3, <1>5, KeepChans DEF KeyType
<1>9. Grown'
  <2>1. \A n \in Node : row'[n].fcnt = row[n].fcnt \/ row'[n].fcnt = 0
    BY <1>1, <1>2, <1>5 DEF NodeType
  <2>2. QED
    BY <2>1, <1>3, <1>6 DEF TypeInv, Grown, Parsing
<1>10. Posted' /\ InHand'
  BY <1>3, KeepPosted DEF TypeInv, InHand
<1>11. QED
  BY <1>4, <1>7, <1>8, <1>9, <1>10, Types DEF TypeInv

LEMMA FetchFcntTypes ==
    ASSUME TypeInv, FetchFcnt
    PROVE  TypeInv'
<1>1. FrameType /\ NodeType /\ KeyType /\ ChanType /\ batch # << >>
  BY Types DEF TypeInv, FetchFcnt, InFrame
<1>2. /\ f.node \in Node
      /\ Tail(batch) \in Seq(Frame) /\ Len(Tail(batch)) <= MaxBatch
  BY <1>1, FrameInHand
<1>3. /\ \/ mpc' = "parse" /\ batch' = batch /\ up' = row[f.node].fcnt
         \/ mpc' = "frame" /\ batch' = Tail(batch) /\ up' = up
      /\ hit' \in {{}, {"busy"}}
      /\ UNCHANGED edits \/ Refused
      /\ UNCHANGED <<air, sent, micOk, count, flag, nwk, row, joinVars, dev, tpc, chanVars>>
  BY DEF FetchFcnt, Next1
<1>4. FrameType'
  BY <1>1, <1>2, <1>3 DEF FrameType
<1>5. NodeType'
  BY <1>1, <1>2, <1>3, Bounds DEF NodeType, Refused
<1>6. KeyType' /\ ChanType'
  BY <1>1, <1>3, KeepChans DEF KeyType
<1>7. Grown'
  <2>1. row[f.node].fcnt \in Nat /\ row[f.node].fcnt <= count * (W-1) /\ count \in Nat
    BY <1>1, <1>2 DEF TypeInv, NodeType, Grown, Fcnt, Serial
  <2>2. count * (W-1) \in Nat /\ count * (W-1) <= (count + 1) * (W-1) /\ (count + 1) * (W-1) \in Nat
    BY <2>1, Bounds, Steps
  <2>3. up' <= (count + 1) * (W-1)
    BY <1>3, <2>1, <2>2 DEF TypeInv, Grown
  <2>4. Parsing' => batch' # << >> /\ up' = row'[f'.node].fcnt
    BY <1>1, <1>3 DEF Parsing, f
  <2>5. QED
    BY <1>3, <2>3, <2>4 DEF TypeInv, Grown
<1>8. Posted' /\ InHand'
  BY <1>1, <1>3, KeepPosted DEF TypeInv, InHand
<1>9. QED
  BY <1>4, <1>5, <1>6, <1>7, <1>8, Types DEF TypeInv

LEMMA ParseTableTypes ==
    ASSUME TypeInv, ParseTable
    PROVE  TypeInv'
<1>1. FrameType /\ NodeType /\ KeyType /\ ChanType /\ batch # << >>
  BY Types DEF TypeInv, ParseTable, InHand
<1>2. f \in Frame /\ f.node \in Node /\ f.sess \in Sess
  BY <1>1, FrameInHand DEF Frame
<1>3. /\ mpc = "parse" /\ mpc' = "mic"
      /\ flag' \in {Known, FALSE} /\ nwk' \in {nwk, <<f.node, f.sess>>}
      /\ hit' \in {hit, hit \cup {"busy"}}
      /\ UNCHANGED edits \/ Refused
      /\ UNCHANGED <<air, sent, batch, micOk, up, count, row, joinVars, dev, tpc, chanVars>>
  BY DEF ParseTable
<1>4. FrameType' /\ NodeType' /\ ChanType'
  BY <1>1, <1>3, KeepNodes, KeepChans DEF FrameType
<1>5. flag' \in BOOLEAN
  BY <1>1, <1>2, <1>3 DEF NodeType, Known
<1>6. KeyType'
  BY <1>1, <1>2, <1>3, <1>5 DEF KeyType
<1>7. Grown' /\ Posted' /\ InHand'
  BY <1>1, <1>2, <1>3, KeepGrown, KeepPosted DEF TypeInv, InHand, Parsing
<1>8. QED
  BY <1>4, <1>6, <1>7, Types DEF TypeInv

LEMMA DataFrameTypes ==
    ASSUME TypeInv, DataFrame
    PROVE  TypeInv'
<1>1. FrameType /\ NodeType /\ KeyType /\ ChanType /\ batch # << >> /\ up \in Nat
  BY Types DEF TypeInv, DataFrame, InHand, NodeType, Fcnt
<1>2. /\ f.node \in Node /\ Diff(up) \in 0..(W-1)
      /\ Reconstruct(up) = up + Diff(up)
      /\ Tail(batch) \in Seq(Frame) /\ Len(Tail(batch)) <= MaxBatch
  BY <1>1, FrameInHand, ReconstructAdds DEF TypeInv
<1>3. /\ batch' \in {batch, Tail(batch)}
      /\ mpc' = "frame" \/ (mpc' = "update" /\ batch' = batch)
      /\ micOk' \in {micOk, micOk \/ MicMatches}
      /\ up' \in {up, Reconstruct(up)}
      /\ UNCHANGED <<air, sent, count, parseVars, nodeVars, tpc, chanVars>>
  BY DEF DataFrame, Next1
<1>4. micOk' \in BOOLEAN
  BY <1>1, <1>3 DEF FrameType, MicMatches
<1>5. FrameType'
  BY <1>1, <1>2, <1>3, <1>4 DEF FrameType
<1>6. /\ count \in Nat /\ count * (W-1) \in Nat
      /\ (count + 1) * (W-1) = count * (W-1) + (W-1)
  BY <1>1, Bounds, Steps DEF NodeType, Serial
<1>7. up <= count * (W-1)
  BY <1>2 DEF TypeInv, Grown, Parsing, DataFrame
<1>8. up' \in Nat /\ up' <= (count + 1) * (W-1)
  <2> DEFINE k == count * (W-1)
  <2>1. k \in Nat /\ (count + 1) * (W-1) = k + (W-1) /\ up <= k
    BY <1>6, <1>7
  <2> HIDE DEF k
  <2>2. Reconstruct(up) \in Nat /\ Reconstruct(up) <= k + (W-1) /\ up <= k + (W-1)
    BY <1>1, <2>1, <1>2, Bounds, SMTT(30)
  <2>3. QED
    BY <1>1, <1>3, <2>1, <2>2
<1>9. up' \in Fcnt
  <2>1. count + 1 <= MaxUp + 1 /\ count + 1 \in Nat /\ MaxUp + 1 \in Nat
    BY <1>1, Bounds DEF NodeType, Serial
  <2>2. (count + 1) * (W-1) <= (MaxUp + 1) * (W-1)
        /\ (count + 1) * (W-1) \in Nat /\ (MaxUp + 1) * (W-1) \in Nat
    BY <2>1, Steps
  <2>3. QED
    BY <2>2, <1>8 DEF Fcnt
<1>10. NodeType'
  BY <1>1, <1>3, <1>9 DEF NodeType
<1>11. KeyType' /\ ChanType'
  BY <1>1, <1>3, KeepKeys, KeepChans
<1>12. Grown'
  BY <1>3, <1>8 DEF TypeInv, Grown, Parsing
<1>13. Posted' /\ InHand'
  BY <1>1, <1>3, KeepPosted DEF TypeInv, InHand
<1>14. QED
  BY <1>5, <1>10, <1>11, <1>12, <1>13, Types DEF TypeInv

LEMMA UpdateTypes ==
    ASSUME TypeInv, Update
    PROVE  TypeInv'
<1>1. FrameType /\ NodeType /\ KeyType /\ ChanType /\ batch # << >>
  BY Types DEF TypeInv, Update, InHand
<1>2. /\ f.node \in Node
      /\ Tail(batch) \in Seq(Frame) /\ Len(Tail(batch)) <= MaxBatch
  BY <1>1, FrameInHand
<1>3. count \in Nat /\ count < MaxUp
  BY <1>1 DEF Update, NodeType, Serial
<1>4. /\ UNCHANGED <<air, sent, micOk, up, flag, nwk, joinVars, dev, chanVars>>
      /\ hit' \in {hit, hit \cup {"busy"}}
      /\ UNCHANGED edits \/ Refused
  BY DEF Update
<1>5. KeyType' /\ ChanType'
  BY <1>1, <1>4, KeepChans DEF KeyType
<1>6. CASE Passes
  <2>1. /\ row' \in {row, [row EXCEPT ![f.node].fcnt = up]}
        /\ count' = count + 1
        /\ tpc' = "check" /\ mpc' = "copy1" /\ UNCHANGED batch
    BY <1>6 DEF Update, Stored, Passes, Next1
  <2>2. count' \in Nat /\ count' \in Serial
    BY <2>1, <1>3, Bounds DEF Serial
  <2>3. FrameType'
    BY <1>1, <1>4, <2>1 DEF FrameType
  <2>4. NodeType'
    <3>1. edits' \in 0..MaxEdits
      BY <1>1, <1>4, EditsType
    <3>2. QED
      BY <1>1, <1>2, <1>4, <2>1, <2>2, <3>1 DEF NodeType
  <2>5. Grown'
    <3>1. \A n \in Node : row[n].fcnt \in Nat
      BY <1>1 DEF NodeType, Fcnt
    <3>2. count * (W-1) <= count' * (W-1) /\ count' * (W-1) \in Nat /\ count * (W-1) \in Nat
      BY <1>3, <2>1, <2>2, Steps
    <3>3. (count' + 1) * (W-1) \in Nat /\ count' * (W-1) <= (count' + 1) * (W-1)
      BY <2>2, Steps
    <3>4. up \in Nat /\ up <= count' * (W-1) /\ up' = up
      BY <1>1, <1>4, <2>1 DEF TypeInv, NodeType, Grown, Fcnt
    <3>5. \A n \in Node : row'[n].fcnt = row[n].fcnt \/ row'[n].fcnt = up
      BY <1>1, <1>2, <2>1 DEF NodeType
    <3>6. QED
      BY <2>1, <3>1, <3>2, <3>3, <3>4, <3>5 DEF TypeInv, Grown, Parsing
  <2>6. Posted'
    BY <1>1, <1>3, <1>4, <2>1 DEF TypeInv, ChanType, Serial, Posted, ToPost
  <2>7. InHand'
    BY <1>1, <2>1 DEF InHand
  <2>8. QED
    BY <1>5, <2>3, <2>4, <2>5, <2>6, <2>7, Types DEF TypeInv
<1>7. CASE ~Passes
  <2>1. batch' = Tail(batch) /\ mpc' = "frame" /\ UNCHANGED <<row, count, tpc>>
    BY <1>7 DEF Update, Next1
  <2>2. FrameType'
    BY <1>1, <1>2, <1>4, <2>1 DEF FrameType
  <2>3. NodeType'
    BY <1>1, <1>4, <2>1, KeepNodes
  <2>4. Grown' /\ Posted' /\ InHand'
    BY <1>4, <2>1, KeepGrown, KeepPosted DEF TypeInv, InHand, Parsing
  <2>5. QED
    BY <1>5, <2>2, <2>3, <2>4, Types DEF TypeInv
<1>8. QED
  BY <1>6, <1>7

LEMMA MainChanTypes ==
    ASSUME TypeInv, NEW c \in Chan, Copy(c) \/ Finish(c)
    PROVE  TypeInv'
<1>1. FrameType /\ NodeType /\ KeyType /\ ChanType /\ batch # << >>
  BY Types DEF TypeInv, Copy, Finish, InHand
<1>2. /\ mpc' \in {"post1", "post2", "copy2", "join"}
      /\ up' \in {up, 0} /\ flag' \in {flag, FALSE}
      /\ UNCHANGED <<air, sent, batch, micOk, count, nwk, hit, nodeVars, tpc, spc, opened, out>>
  BY DEF Copy, Finish
<1>3. FrameType' /\ KeyType'
  BY <1>1, <1>2 DEF FrameType, KeyType
<1>4. NodeType' /\ Grown'
  <2>1. count \in Nat
    BY <1>1 DEF NodeType, Serial
  <2>2. 0 \in Fcnt /\ (count + 1) * (W-1) \in Nat
    BY <2>1, Bounds, Steps DEF Fcnt
  <2>3. QED
    BY <1>1, <1>2, <2>2 DEF TypeInv, NodeType, Grown, Parsing
<1>5. count \in Serial /\ \A d \in Chan : tok[d] \in Nat
  BY <1>1 DEF NodeType, ChanType, Serial
<1>6. CASE Copy(c)
  <2>1. /\ UNCHANGED tok
        /\ buf' = [buf EXCEPT ![c] = [data |-> count, len |-> IF c = "conf" THEN 0 ELSE @.len]]
    BY <1>6 DEF Copy
  <2>2. 0 \in Serial
    BY Bounds DEF Serial
  <2>3. ChanType'
    BY <1>1, <1>2, <1>5, <2>1, <2>2 DEF ChanType
  <2>4. Posted'
    BY <1>2, <1>6, <2>1 DEF TypeInv, Copy, Posted, ToPost
  <2>5. QED
    BY <1>1, <1>2, <1>3, <1>4, <2>3, <2>4, Types DEF TypeInv, InHand
<1>7. CASE Finish(c)
  <2>1. /\ tok' = [tok EXCEPT ![c] = @ + 1]
        /\ buf' = [buf EXCEPT ![c].len = count]
        /\ mpc \in ToPost(c)
    BY <1>7 DEF Finish, ToPost
  <2>2. tok[c] < count /\ tok[c] + 1 \in Serial
    BY <1>5, <2>1, Bounds DEF TypeInv, Posted, Serial
  <2>3. ChanType'
    BY <1>1, <1>2, <1>5, <2>1, <2>2 DEF ChanType
  <2>4. Posted'
    BY <1>1, <1>2, <1>5, <1>7, <2>1, <2>2 DEF TypeInv, Finish, Posted, ToPost, ChanType, Serial
  <2>5. QED
    BY <1>1, <1>2, <1>3, <1>4, <2>3, <2>4, Types DEF TypeInv, InHand
<1>8. QED
  BY <1>6, <1>7

LEMMA JoinedTypes ==
    ASSUME TypeInv, Joined
    PROVE  TypeInv'
<1>1. FrameType /\ NodeType /\ KeyType /\ ChanType /\ batch # << >>
  BY Types DEF TypeInv, Joined, InHand
<1>2. Tail(batch) \in Seq(Frame) /\ Len(Tail(batch)) <= MaxBatch
  BY <1>1, FrameInHand
<1>3. /\ batch' = Tail(batch) /\ mpc' = "frame"
      /\ UNCHANGED <<air, sent, micOk, up, count, parseVars, nodeVars, tpc, chanVars>>
  BY DEF Joined, Next1
<1>4. FrameType'
  BY <1>1, <1>2, <1>3 DEF FrameType
<1>5. NodeType' /\ KeyType' /\ ChanType'
  BY <1>1, <1>3, KeepNodes, KeepKeys, KeepChans
<1>6. Grown' /\ Posted' /\ InHand'
  BY <1>3, KeepGrown, KeepPosted DEF TypeInv, InHand, Parsing
<1>7. QED
  BY <1>4, <1>5, <1>6, Types DEF TypeInv

LEMMA TaskQueueTypes ==
    ASSUME TypeInv, TaskQueue
    PROVE  TypeInv'
<1>1. FrameType /\ NodeType /\ KeyType /\ ChanType
  BY Types DEF TypeInv
<1>2. /\ tpc' \in {"none", "stuck"}
      /\ hit' \in {hit, hit \cup {"check"}}
      /\ UNCHANGED edits \/ Refused
      /\ UNCHANGED <<air, sent, mpc, batch, micOk, up, count, flag, nwk, row, joinVars, dev, chanVars>>
  BY DEF TaskQueue
<1>3. FrameType' /\ KeyType'
  BY <1>1, <1>2 DEF FrameType, KeyType
<1>4. NodeType' /\ ChanType'
  BY <1>1, <1>2, KeepNodes, KeepChans
<1>5. Grown' /\ Posted' /\ InHand'
  BY <1>1, <1>2, FrameInHand, KeepGrown, KeepPosted DEF TypeInv, InHand, Parsing
<1>6. QED
  BY <1>3, <1>4, <1>5, Types DEF TypeInv

LEMMA SendStepTypes ==
    ASSUME TypeInv, NEW c \in Chan, SendStep(c)
    PROVE  TypeInv'
<1>1. FrameType /\ NodeType /\ KeyType /\ ChanType
  BY Types DEF TypeInv
<1>2. UNCHANGED <<mainVars, nodeVars, tpc>>
  BY DEF SendStep, SendTo, Clear
<1>3. FrameType' /\ KeyType'
  BY <1>1, <1>2, KeepKeys DEF FrameType
<1>4. NodeType' /\ Grown'
  <2>1. Parsing => f.node \in Node
    BY <1>1, FrameInHand DEF TypeInv, InHand, Parsing
  <2>2. QED
    BY <1>1, <1>2, <2>1, KeepNodes, KeepGrown DEF TypeInv, Parsing
<1>5. CASE SendTo(c)
  <2>1. tok[c] \in Serial /\ tok[c] > 0 /\ tok' = [tok EXCEPT ![c] = @ - 1]
        /\ spc' = [spc EXCEPT ![c] = "clear"] /\ UNCHANGED buf
    BY <1>1, <1>5 DEF SendTo, ChanType
  <2>2. tok[c] - 1 \in Serial
    BY <2>1, Bounds DEF Serial
  <2>3. \/ out' = [out EXCEPT ![c] = @ \cup {buf[c]}] /\ UNCHANGED opened
        \/ opened' = [opened EXCEPT ![c] = FALSE] /\ UNCHANGED out
    BY <1>5 DEF SendTo
  <2>4. ChanType'
    <3>1. buf[c] \in [data : Serial, len : Serial] /\ out[c] \subseteq [data : Serial, len : Serial]
      BY <1>1 DEF ChanType
    <3>2. out' \in [Chan -> SUBSET [data : Serial, len : Serial]]
      BY <1>1, <2>3, <3>1 DEF ChanType
    <3>3. opened' \in [Chan -> BOOLEAN]
      BY <1>1, <2>3 DEF ChanType
    <3>4. QED
      BY <1>1, <2>1, <2>2, <3>2, <3>3 DEF ChanType
  <2>5. Posted'
    BY <1>1, <1>2, <2>1 DEF TypeInv, Posted, ChanType, NodeType, Serial
  <2>6. QED
    BY <1>2, <1>3, <1>4, <2>4, <2>5, Types DEF TypeInv, InHand
<1>6. CASE Clear(c)
  <2>1. 0 \in Serial
    BY Bounds DEF Serial
  <2>2. ChanType'
    BY <1>1, <1>6, <2>1 DEF ChanType, Clear, Cleared
  <2>3. Posted'
    BY <1>2, <1>6, KeepPosted DEF TypeInv, Clear
  <2>4. QED
    BY <1>2, <1>3, <1>4, <2>2, <2>3, Types DEF TypeInv, InHand
<1>7. QED
  BY <1>5, <1>6 DEF SendStep

LEMMA ArrivesTypes ==
    ASSUME FrameType, NEW x \in Frame, Arrives(x), UNCHANGED <<mpc, batch, micOk, tpc>>
    PROVE  FrameType'
<1>1. Append(air, x) \in Seq(Frame) /\ Len(Append(air, x)) = Len(air) + 1 /\ Len(air) \in Nat
  BY DEF FrameType
<1>2. Len(air) + 1 <= MaxBatch /\ sent + 1 \in 0..MaxFrames
  BY <1>1, Bounds DEF Arrives, FrameType
<1>3. QED
  BY <1>1, <1>2 DEF Arrives, FrameType

LEMMA EnvironmentTypes ==
    ASSUME TypeInv, NEW n \in Node,
           \/ Transmit(n) \/ Lost(n) \/ Foreign(n) \/ Request(n)
           \/ Derive(n) \/ Accept(n) \/ Remove(n)
    PROVE  TypeInv'
<1>1. FrameType /\ NodeType /\ KeyType /\ ChanType
  BY Types DEF TypeInv
<1>2. UNCHANGED <<mpc, batch, micOk, up, count, tpc, chanVars>>
  BY DEF Transmit, Lost, Foreign, Request, Derive, Accept, Remove
<1>3. ChanType'
  BY <1>1, <1>2, KeepChans
<1>4. /\ row[n].sess \in Sess /\ dev[n].sess \in Sess /\ dev[n].fcnt \in Nat /\ dev[n].fcnt <= MaxFcnt
      /\ row[n].present \in BOOLEAN /\ row[n].fcnt \in Fcnt
  BY <1>1, Bounds DEF NodeType
<1>5. FrameType'
  <2>1. CASE UNCHANGED <<air, sent>>
    BY <1>1, <1>2, <2>1 DEF FrameType
  <2>2. CASE Transmit(n)
    <3>1. Data(n, dev[n].sess, dev[n].fcnt, TRUE) \in Frame
      BY <1>4, Bounds DEF Data, Frame
    <3>2. QED
      BY <1>1, <1>2, <2>2, <3>1, ArrivesTypes DEF Transmit
  <2>3. CASE Foreign(n)
    <3>1. PICK c \in 0..W-1 : Arrives(Data(n, row[n].sess, c, FALSE))
      BY <2>3 DEF Foreign
    <3>2. c \in 0..MaxFcnt+W
      BY <3>1, Bounds
    <3>3. Data(n, row[n].sess, c, FALSE) \in Frame
      BY <1>4, <3>2 DEF Data, Frame
    <3>4. QED
      BY <1>1, <1>2, <3>1, <3>3, ArrivesTypes
  <2>4. CASE Request(n)
    <3>1. Join(n) \in Frame
      BY Bounds DEF Join, Frame, Sess, Mixed
    <3>2. QED
      BY <1>1, <1>2, <2>4, <3>1, ArrivesTypes DEF Request
  <2>5. QED
    BY <2>1, <2>2, <2>3, <2>4 DEF Lost, Derive, Accept, Remove
<1>6. /\ row'[n].fcnt = row[n].fcnt
      /\ \A m \in Node \ {n} : row'[m] = row[m]
      /\ NodeType'
  <2>1. CASE Transmit(n)
    <3>1. PICK k \in {0, 1} : dev[n].fcnt + k <= MaxFcnt /\ dev' = [dev EXCEPT ![n].fcnt = @ + k]
      BY <2>1 DEF Transmit
    <3>2. dev[n].fcnt + k \in 0..MaxFcnt
      BY <1>4, <3>1, Bounds
    <3>3. QED
      BY <1>1, <1>2, <2>1, <3>1, <3>2 DEF NodeType, Transmit
  <2>2. CASE Lost(n)
    <3>1. dev[n].fcnt + 1 \in 0..MaxFcnt
      BY <1>4, <2>2, Bounds DEF Lost
    <3>2. QED
      BY <1>1, <1>2, <2>2, <3>1 DEF NodeType, Lost
  <2>3. CASE Foreign(n) \/ Request(n)
    BY <1>1, <1>2, <2>3, KeepNodes DEF Foreign, Request
  <2>4. CASE Accept(n)
    <3>1. sessions \in Sess /\ Mixed \in Sess /\ 0 \in 0..MaxFcnt
      BY <1>1, Bounds DEF KeyType, Sess, Mixed
    <3>2. /\ row' \in {row, [row EXCEPT ![n].sess = sessions], [row EXCEPT ![n].sess = Mixed]}
          /\ dev' \in {dev, [dev EXCEPT ![n] = [sess |-> sessions, fcnt |-> 0]]}
          /\ UNCHANGED edits \/ Refused
      BY <2>4 DEF Accept
    <3>3. QED
      BY <1>1, <1>2, <3>1, <3>2, Bounds DEF NodeType, Refused
  <2>5. CASE Remove(n)
    <3>1. edits + 1 \in 0..MaxEdits
      BY <1>1, <2>5, Bounds DEF NodeType, Remove
    <3>2. QED
      BY <1>1, <1>2, <2>5, <3>1 DEF NodeType, Remove
  <2>6. CASE Derive(n)
    BY <1>1, <1>2, <2>6, KeepNodes DEF Derive
  <2>7. QED
    BY <2>1, <2>2, <2>3, <2>4, <2>5, <2>6
<1>7. KeyType'
  <2>1. CASE Derive(n)
    <3>1. sessions + 1 \in 0..MaxJoins /\ <<n, sessions + 1>> \in Node \X Sess
      BY <1>1, <2>1, Bounds DEF Derive, KeyType, Sess, Mixed
    <3>2. QED
      BY <1>1, <2>1, <3>1 DEF Derive, KeyType, Interferes
  <2>2. CASE Accept(n)
    BY <1>1, <2>2 DEF Accept, KeyType
  <2>3. QED
    BY <1>1, <2>1, <2>2, KeepKeys DEF Transmit, Lost, Foreign, Request, Remove
<1>8. Grown' /\ Posted' /\ InHand'
  <2>1. Parsing => f.node \in Node
    BY <1>1, FrameInHand DEF TypeInv, InHand, Parsing
  <2>2. QED
    BY <1>2, <1>6, <2>1, KeepGrown, KeepPosted DEF TypeInv, InHand, Parsing
<1>9. QED
  BY <1>3, <1>5, <1>6, <1>7, <1>8, Types DEF TypeInv

LEMMA ClearFlagTypes ==
    ASSUME TypeInv, ClearFlag
    PROVE  TypeInv'
<1>1. FrameType /\ NodeType /\ KeyType /\ ChanType
  BY Types DEF TypeInv
<1>2. /\ flag' = FALSE /\ hit' \in {hit, hit \cup {"flag"}}
      /\ UNCHANGED <<air, sent, mpc, batch, micOk, up, count, nwk, nodeVars, tpc, chanVars>>
  BY DEF ClearFlag, Interferes
<1>3. FrameType' /\ KeyType'
  BY <1>1, <1>2 DEF FrameType, KeyType
<1>4. NodeType' /\ ChanType'
  BY <1>1, <1>2, KeepNodes, KeepChans
<1>5. Grown' /\ Posted' /\ InHand'
  BY <1>1, <1>2, FrameInHand, KeepGrown, KeepPosted DEF TypeInv, InHand, Parsing
<1>6. QED
  BY <1>3, <1>4, <1>5, Types DEF TypeInv

LEMMA NextTypes == TypeInv /\ [Next]_vars => TypeInv'
<1> SUFFICES ASSUME TypeInv, [Next]_vars PROVE TypeInv'
  OBVIOUS
<1>1. CASE UNCHANGED vars
  BY <1>1 DEF TypeInv, TypeOK, Grown, Parsing, f, Posted, InHand
<1>2. CASE Main
  BY <1>2, BatchDoneTypes, JoinFrameTypes, FetchFcntTypes, ParseTableTypes, DataFrameTypes, UpdateTypes, JoinedTypes,
     MainChanTypes DEF Main
<1>3. CASE Environment
  BY <1>3, EnvironmentTypes, ClearFlagTypes DEF Environment
<1>4. QED
  BY <1>1, <1>2, <1>3, ReceiveTypes, TaskQueueTypes, SendStepTypes DEF Next

\* The type invariant of the data branch of LoRaWAN_Parse and its senders: the
\* counters, also the 32 bit ones that are extended from 16 bits, stay within
\* what the accepted frames can have made of them.
THEOREM UplinkTypeCorrect == Spec => []TypeOK
<1>1. Spec => []TypeInv
  BY InitTypes, NextTypes, PTL DEF Spec
<1>2. TypeInv => TypeOK
  BY DEF TypeInv
<1>3. QED
  BY <1>1, <1>2, PTL

-----------------------------------------------------------------------------
(* The counter window.                                                     *)

LEMMA WindowFound ==
    ASSUME TypeInv, batch # << >>, InWindow
    PROVE  Reconstruct(row[f.node].fcnt) = f.fcnt
<1> DEFINE b == row[f.node].fcnt
<1>1. f \in Frame /\ f.node \in Node
  BY FrameInHand, Types DEF TypeInv
<1>2. f.fcnt \in Nat /\ b \in Nat
  BY <1>1 DEF TypeInv, TypeOK, Frame, Fcnt
<1>3. Diff(b) = f.fcnt - b
  BY <1>2, Window DEF Diff, InWindow
<1>4. Reconstruct(b) = b + Diff(b)
  BY <1>2, ReconstructAdds DEF TypeInv
<1> HIDE DEF b
<1>5. Reconstruct(b) = f.fcnt
  BY <1>2, <1>3, <1>4
<1>6. QED
  BY <1>5 DEF b

LEMMA SessFcnt ==
    ASSUME TypeInv
    PROVE  /\ \A n \in Node : /\ row[n].sess \in Nat /\ row[n].fcnt \in Nat
                              /\ dev[n].sess \in Nat /\ dev[n].fcnt \in Nat
           /\ sessions \in Nat /\ sessions <= MaxJoins
           /\ \A i \in 1..Len(air) : air[i] \in Frame
           /\ \A i \in 1..Len(batch) : batch[i] \in Frame
           /\ \A x \in Frame : x.node \in Node /\ x.sess \in Nat /\ x.fcnt \in Nat
           /\ Len(air) \in Nat /\ Len(batch) \in Nat
<1>1. \A n \in Node : /\ row[n].sess \in Nat /\ row[n].fcnt \in Nat
                      /\ dev[n].sess \in Nat /\ dev[n].fcnt \in Nat
  BY DEF TypeInv, TypeOK, Sess, Fcnt
<1>2. air \in Seq(Frame) /\ batch \in Seq(Frame) /\ sessions \in Nat /\ sessions <= MaxJoins
  BY Bounds DEF TypeInv, TypeOK
<1>3. \A x \in Frame : x.node \in Node /\ x.sess \in Nat /\ x.fcnt \in Nat
  BY DEF Frame, Sess
<1>4. QED
  BY <1>1, <1>2, <1>3

\* What a frame was stays true when its device goes on.
LEMMA PastStays ==
    ASSUME TypeInv,
           \A n \in Node : \/ dev'[n].sess = dev[n].sess /\ dev'[n].fcnt >= dev[n].fcnt
                           \/ dev'[n].sess > dev[n].sess,
           \A n \in Node : dev'[n].sess \in Nat /\ dev'[n].fcnt \in Nat
    PROVE  \A x \in Frame : Past(x) => Past(x)'
BY SessFcnt, SMTT(30) DEF Past

\* Steps of main, the senders and others that send no frame and leave the
\* devices and the sessions alone.
LEMMA KeepHeard ==
    ASSUME TypeInv, Heard, UNCHANGED <<air, batch, dev, derived, sessions>>
    PROVE  Heard'
BY DEF Heard, Past, Fresh

\* The next frame of the batch.
LEMMA NextHeard ==
    ASSUME TypeInv, Heard, batch # << >>, Next1, UNCHANGED <<air, dev, derived, sessions>>
    PROVE  Heard'
<1>1. batch \in Seq(Frame) /\ batch' = Tail(batch)
  BY DEF Next1, TypeInv, TypeOK
<1>2. \A i \in 1..Len(batch') : i+1 \in 1..Len(batch) /\ batch'[i] = batch[i+1]
  BY <1>1, HeadTail
<1>3. QED
  BY <1>1, <1>2 DEF Heard, Past, Fresh

LEMMA ReceiveHeard ==
    ASSUME TypeInv, Heard, Receive
    PROVE  Heard'
<1>1. Len(<< >>) = 0
  OBVIOUS
<1>2. QED
  BY <1>1 DEF Receive, Heard, Past, Fresh

LEMMA ArrivesHeard ==
    ASSUME TypeInv, Heard, NEW x \in Frame, Arrives(x), Past(x)',
           UNCHANGED <<batch, derived, sessions>>,
           \A n \in Node : dev'[n].sess = dev[n].sess /\ dev'[n].fcnt >= dev[n].fcnt
                           /\ dev'[n].fcnt \in Nat
    PROVE  Heard'
<1>1. \A y \in Frame : Past(y) => Past(y)'
  BY SessFcnt, PastStays
<1>2. air \in Seq(Frame) /\ air' = Append(air, x)
  BY DEF Arrives, TypeInv, TypeOK
<1>3. \A i \in 1..Len(air') : air'[i] = x \/ (i \in 1..Len(air) /\ air'[i] = air[i])
  BY <1>2
<1>4. (\A i \in 1..Len(air) : Past(air[i]))'
  BY <1>1, <1>3, SessFcnt DEF Heard
<1>5. (\A i \in 1..Len(batch) : Past(batch[i]))'
  BY <1>1, SessFcnt DEF Heard
<1>6. Fresh'
  BY DEF Heard, Fresh
<1>7. QED
  BY <1>4, <1>5, <1>6 DEF Heard

\* The session of an accept is later than any its device was in.
LEMMA AcceptHeard ==
    ASSUME TypeInv, Heard, NEW n \in Node, Accept(n)
    PROVE  Heard'
<1>1. /\ UNCHANGED <<air, batch, sessions>> /\ derived' = {}
      /\ dev' = [dev EXCEPT ![n] = [sess |-> sessions, fcnt |-> 0]] \/ dev' = dev
      /\ dev \in [Node -> [sess : Sess, fcnt : 0..MaxFcnt]]
  BY DEF Accept, TypeInv, TypeOK
<1>2. /\ \A m \in Node \ {n} : dev'[m] = dev[m]
      /\ dev'[n] = dev[n] \/ (dev'[n].sess = sessions /\ dev'[n].fcnt = 0)
  BY <1>1
<1>3. dev[n].sess < sessions /\ \A m \in Node : dev[m].sess <= sessions
  BY DEF Heard, Fresh, Accept
<1>4. \A m \in Node : /\ \/ dev'[m].sess = dev[m].sess /\ dev'[m].fcnt >= dev[m].fcnt
                        \/ dev'[m].sess > dev[m].sess
                     /\ dev'[m].sess \in Nat /\ dev'[m].fcnt \in Nat
                     /\ dev'[m].sess <= sessions
  <2>1. ASSUME NEW m \in Node
        PROVE  /\ \/ dev'[m].sess = dev[m].sess /\ dev'[m].fcnt >= dev[m].fcnt
                  \/ dev'[m].sess > dev[m].sess
               /\ dev'[m].sess \in Nat /\ dev'[m].fcnt \in Nat
               /\ dev'[m].sess <= sessions
    BY <1>2, <1>3, SessFcnt, SMTT(30)
  <2>2. QED
    BY <2>1
<1>5. \A y \in Frame : Past(y) => Past(y)'
  BY <1>4, PastStays
<1>6. QED
  BY <1>1, <1>4, <1>5, SessFcnt DEF Heard, Fresh

LEMMA EnvironmentHeard ==
    ASSUME TypeInv, Heard, Environment
    PROVE  Heard'
<1>0. CASE ClearFlag
  BY <1>0, KeepHeard DEF ClearFlag
<1>1. ASSUME NEW n \in Node, Transmit(n)
      PROVE  Heard'
  <2>1. PICK k \in {0, 1} : dev[n].fcnt + k <= MaxFcnt /\ dev' = [dev EXCEPT ![n].fcnt = @ + k]
    BY <1>1 DEF Transmit
  <2>2. /\ dev'[n].sess = dev[n].sess /\ dev'[n].fcnt = dev[n].fcnt + k
        /\ \A m \in Node \ {n} : dev'[m] = dev[m]
    BY <2>1 DEF TypeInv, TypeOK
  <2>3. \A m \in Node : dev'[m].sess = dev[m].sess /\ dev'[m].fcnt >= dev[m].fcnt
                        /\ dev'[m].fcnt \in Nat
    BY <2>1, <2>2, SessFcnt
  <2>4. Data(n, dev[n].sess, dev[n].fcnt, TRUE) \in Frame
    <3>1. dev[n] \in [sess : Sess, fcnt : 0..MaxFcnt]
      BY DEF TypeInv, TypeOK
    <3>2. QED
      BY <3>1, Bounds DEF Data, Frame
  <2>5. PICK x \in Frame : x = Data(n, dev[n].sess, dev[n].fcnt, TRUE)
    BY <2>4
  <2>6. x.node = n /\ x.sess = dev[n].sess /\ x.fcnt = dev[n].fcnt
    BY <2>5 DEF Data
  <2>7. Past(x)'
    BY <2>6, <2>3, SessFcnt DEF Past
  <2>8. Arrives(x) /\ UNCHANGED <<batch, derived, sessions>>
    BY <1>1, <2>5 DEF Transmit
  <2>9. QED
    BY <2>3, <2>7, <2>8, ArrivesHeard
<1>2. ASSUME NEW n \in Node, Lost(n)
      PROVE  Heard'
  <2>1. /\ dev'[n].sess = dev[n].sess /\ dev'[n].fcnt = dev[n].fcnt + 1
        /\ \A m \in Node \ {n} : dev'[m] = dev[m]
        /\ UNCHANGED <<air, batch, derived, sessions>>
    BY <1>2 DEF Lost, TypeInv, TypeOK
  <2>2. \A m \in Node : /\ dev'[m].sess = dev[m].sess /\ dev'[m].fcnt >= dev[m].fcnt
                        /\ dev'[m].sess \in Nat /\ dev'[m].fcnt \in Nat
    BY <2>1, SessFcnt, SMTT(30)
  <2>3. \A y \in Frame : Past(y) => Past(y)'
    BY <2>2, PastStays
  <2>4. QED
    BY <2>1, <2>2, <2>3, SessFcnt DEF Heard, Fresh
<1>3. ASSUME NEW n \in Node, Foreign(n)
      PROVE  Heard'
  <2>1. PICK c \in 0..W-1 : Arrives(Data(n, row[n].sess, c, FALSE))
    BY <1>3 DEF Foreign
  <2>2. c \in 0..MaxFcnt+W /\ row[n].sess \in Sess
    BY <2>1, Bounds DEF TypeInv, TypeOK
  <2>3. PICK x \in Frame : x = Data(n, row[n].sess, c, FALSE)
    BY <2>2 DEF Data, Frame
  <2>4. Past(x)'
    BY <2>3 DEF Data, Past
  <2>5. Arrives(x) /\ UNCHANGED <<batch, dev, derived, sessions>>
    BY <1>3, <2>1, <2>3 DEF Foreign
  <2>6. QED
    BY <2>4, <2>5, ArrivesHeard, SessFcnt
<1>4. ASSUME NEW n \in Node, Request(n)
      PROVE  Heard'
  <2>1. dev'[n].sess \in Nat /\ dev'[n].fcnt \in Nat
    BY <1>4, SessFcnt DEF Request
  <2>2. Join(n) \in Frame /\ Past(Join(n))'
    BY <2>1, Bounds DEF Join, Frame, Past, Sess, Mixed
  <2>3. QED
    BY <1>4, <2>2, ArrivesHeard, SessFcnt DEF Request
<1>5. ASSUME NEW n \in Node, Derive(n)
      PROVE  Heard'
  <2>1. sessions' = sessions + 1 /\ UNCHANGED <<air, batch, dev>>
    BY <1>5 DEF Derive
  <2>2. Fresh'
    BY <2>1, SessFcnt DEF Heard, Fresh
  <2>3. QED
    BY <2>1, <2>2 DEF Heard, Past
<1>6. ASSUME NEW n \in Node, Remove(n)
      PROVE  Heard'
  BY <1>6, KeepHeard DEF Remove
<1>7. QED
  BY <1>0, <1>1, <1>2, <1>3, <1>4, <1>5, <1>6, AcceptHeard DEF Environment

LEMMA NextHears == TypeInv /\ Heard /\ [Next]_vars => Heard'
<1> SUFFICES ASSUME TypeInv, Heard, [Next]_vars PROVE Heard'
  OBVIOUS
<1>1. CASE UNCHANGED vars
  BY <1>1, KeepHeard
<1>2. CASE JoinFrame \/ Joined
  BY <1>2, NextHeard DEF JoinFrame, Joined, InFrame, TypeInv, InHand
<1>3. CASE FetchFcnt \/ DataFrame \/ Update
  <2>1. batch # << >> /\ UNCHANGED <<air, dev, derived, sessions>>
    BY <1>3 DEF FetchFcnt, DataFrame, Update, InFrame, TypeInv, InHand
  <2>2. Next1 \/ UNCHANGED batch
    BY <1>3 DEF FetchFcnt, DataFrame, Update, Passes
  <2>3. QED
    BY <2>1, <2>2, NextHeard, KeepHeard
<1>4. CASE BatchDone \/ ParseTable \/ TaskQueue \/ (\E c \in Chan : Copy(c) \/ Finish(c) \/ SendStep(c))
  BY <1>4, KeepHeard DEF BatchDone, ParseTable, TaskQueue, Copy, Finish, SendStep, SendTo, Clear
<1>5. QED
  BY <1>1, <1>2, <1>3, <1>4, ReceiveHeard, EnvironmentHeard DEF Next, Main

\* The frame in hand is of an older session than the one an accept brings.
LEMMA KnownBefore ==
    ASSUME TypeInv, Heard, [Next]_vars, batch # << >>, UNCHANGED batch, Known', f.good
    PROVE  Known
<1>1. f \in Frame /\ f.node \in Node /\ f = batch[1] /\ 1 \in 1..Len(batch) /\ f' = f
  BY FrameInHand, Types, HeadTail, SessFcnt, SMTT(30) DEF TypeInv, TypeOK, f
<1>2. row \in [Node -> [present : BOOLEAN, sess : Sess, fcnt : Fcnt]]
  BY DEF TypeInv, TypeOK
<1>3. ASSUME NEW n \in Node, Accept(n), n = f.node
      PROVE  Known
  <2>1. f.sess <= dev[n].sess /\ dev[n].sess < sessions
    BY <1>1, <1>3 DEF Heard, Past, Fresh, Accept
  <2>2. f.sess # sessions /\ f.sess # Mixed
    BY <1>1, <2>1, SessFcnt, Bounds DEF Mixed
  <2>3. row'[n] = row[n] \/ row'[n].sess \in {sessions, Mixed}
    BY <1>2, <1>3 DEF Accept
  <2>4. QED
    BY <1>1, <1>3, <2>2, <2>3 DEF Known
<1>4. ASSUME NEW n \in Node, Accept(n), n # f.node
      PROVE  Known
  BY <1>1, <1>2, <1>4 DEF Accept, Known
<1>5. ASSUME NEW n \in Node, Remove(n)
      PROVE  Known
  BY <1>1, <1>2, <1>5 DEF Remove, Known
<1>6. CASE Update
  BY <1>1, <1>2, <1>6 DEF Update, Known
<1>7. CASE JoinFrame
  BY <1>1, <1>2, <1>7 DEF JoinFrame, Zeroed, Known
<1>8. CASE UNCHANGED row
  BY <1>1, <1>8 DEF Known
<1>9. QED
  BY <1>3, <1>4, <1>5, <1>6, <1>7, <1>8 DEF Next, Main, Environment, SendStep, BatchDone,
     FetchFcnt, ParseTable, DataFrame, Joined, Copy, Finish, Receive, TaskQueue, Transmit, Lost,
     Foreign, Request, Derive, ClearFlag, SendTo, Clear

\* The counters of the rows are main's alone.
LEMMA CountersStay ==
    ASSUME TypeInv, Environment
    PROVE  \A m \in Node : row'[m].fcnt = row[m].fcnt
<1>1. row \in [Node -> [present : BOOLEAN, sess : Sess, fcnt : Fcnt]]
  BY DEF TypeInv, TypeOK
<1>2. ASSUME NEW n \in Node, Accept(n)
      PROVE  \A m \in Node : row'[m].fcnt = row[m].fcnt
  <2>1. row' \in {row, [row EXCEPT ![n].sess = sessions], [row EXCEPT ![n].sess = Mixed]}
    BY <1>2 DEF Accept
  <2>2. QED
    BY <1>1, <2>1
<1>3. ASSUME NEW n \in Node, Remove(n)
      PROVE  \A m \in Node : row'[m].fcnt = row[m].fcnt
  BY <1>1, <1>3 DEF Remove
<1>4. QED
  BY <1>2, <1>3 DEF Environment, Transmit, Lost, Foreign, Request, Derive, ClearFlag

\* Steps of the others, during which main stays where it is.
LEMMA OthersInWay ==
    ASSUME TypeInv, Heard, InWay, [Next]_vars, UNCHANGED <<mpc, batch, up>>,
           hit \subseteq hit', hit' = {} /\ mpc = "mic" => UNCHANGED <<flag, nwk>>,
           \A n \in Node : row'[n].fcnt = row[n].fcnt
    PROVE  InWay'
<1>1. ASSUME mpc \in {"mic", "update"}, Unhindered'
      PROVE  Unhindered /\ f' = f /\ (InWindow' <=> InWindow)
  <2>1. batch # << >> /\ f' = f /\ f.node \in Node
    BY <1>1, FrameInHand, Types DEF TypeInv, InHand, f
  <2>2. Known
    BY <1>1, <2>1, KnownBefore DEF Unhindered
  <2>3. InWindow' <=> InWindow
    BY <2>1 DEF InWindow
  <2>4. QED
    BY <1>1, <2>1, <2>2, <2>3 DEF Unhindered
<1>2. QED
  BY <1>1 DEF InWay, Unhindered

LEMMA DataFrameInWay ==
    ASSUME TypeInv, InWay, DataFrame
    PROVE  InWay'
<1>1. mpc = "mic" /\ batch # << >> /\ up = row[f.node].fcnt
  BY DEF DataFrame, TypeInv, Grown, Parsing
<1>2. UNCHANGED <<row, hit>>
  BY DEF DataFrame
<1>3. CASE Next1
  BY <1>3 DEF Next1, InWay
<1>4. CASE ~Next1
  <2>1. /\ mpc' = "update" /\ UNCHANGED batch /\ f' = f
        /\ up' = IF NoCarry(up) \/ MicMatches THEN Reconstruct(up) ELSE up
    BY <1>4 DEF DataFrame, f
  <2>2. ASSUME Unhindered', InWindow'
        PROVE  up' = f'.fcnt
    <3>1. Unhindered /\ InWindow
      BY <1>2, <2>1, <2>2 DEF Unhindered, Known, InWindow
    <3>2. Reconstruct(up) = f.fcnt
      BY <1>1, <3>1, WindowFound
    <3>3. MicMatches
      BY <1>1, <3>1, <3>2 DEF InWay, MicMatches, Unhindered
    <3>4. QED
      BY <2>1, <3>2, <3>3
  <2>3. QED
    BY <2>1, <2>2 DEF InWay
<1>5. QED
  BY <1>3, <1>4

LEMMA NextInWay == TypeInv /\ Heard /\ InWay /\ [Next]_vars => InWay'
<1> SUFFICES ASSUME TypeInv, Heard, InWay, [Next]_vars PROVE InWay'
  OBVIOUS
<1>1. CASE UNCHANGED vars
  BY <1>1, OthersInWay
<1>2. CASE mpc' \notin {"mic", "update"}
  BY <1>2 DEF InWay
<1>3. CASE ParseTable
  <2>1. UNCHANGED <<batch, row>> /\ mpc' = "mic" /\ f' = f
    BY <1>3 DEF ParseTable, f
  <2>2. ASSUME Unhindered' PROVE flag' /\ nwk' = <<f.node, f.sess>>
    <3>1. Known
      BY <2>1, <2>2 DEF Unhindered, Known
    <3>2. hit' = {}
      BY <2>2 DEF Unhindered
    <3>3. flag' = Known /\ nwk' = IF Known THEN <<f.node, f.sess>> ELSE nwk
      BY <1>3, <3>2 DEF ParseTable
    <3>4. QED
      BY <3>1, <3>3
  <2>3. QED
    BY <2>1, <2>2 DEF InWay
<1>4. CASE TaskQueue \/ (\E c \in Chan : SendStep(c))
  BY <1>4, OthersInWay DEF TaskQueue, SendStep, SendTo, Clear
<1>5. CASE Environment
  <2>1. CASE ClearFlag
    <3>1. UNCHANGED <<mpc, batch, up, nwk, row>> /\ hit \subseteq hit' /\ (mpc = "mic" => hit' # {})
      BY <2>1 DEF ClearFlag, Interferes
    <3>2. QED
      BY <3>1, OthersInWay
  <2>2. ASSUME NEW n \in Node, Derive(n)
        PROVE  InWay'
    <3>1. UNCHANGED <<mpc, batch, up, flag, row>> /\ hit \subseteq hit' /\ (mpc = "mic" => hit' # {})
      BY <2>2 DEF Derive, Interferes
    <3>2. QED
      BY <3>1, OthersInWay
  <2>3. ASSUME NEW n \in Node,
               Transmit(n) \/ Lost(n) \/ Foreign(n) \/ Request(n) \/ Accept(n) \/ Remove(n)
        PROVE  InWay'
    <3>1. UNCHANGED <<mpc, batch, up, flag, nwk, hit>>
      BY <2>3 DEF Transmit, Lost, Foreign, Request, Accept, Remove
    <3>2. \A m \in Node : row'[m].fcnt = row[m].fcnt
      BY <1>5, CountersStay
    <3>3. QED
      BY <3>1, <3>2, OthersInWay
  <2>4. QED
    BY <1>5, <2>1, <2>2, <2>3 DEF Environment
<1>6. QED
  BY <1>1, <1>2, <1>3, <1>4, <1>5, DataFrameInWay DEF Next, Main, BatchDone, JoinFrame,
     FetchFcnt, Update, Passes, Joined, Copy, Finish, Receive, Next1

LEMMA WindowStep ==
    ASSUME TypeInv, InWay, [Next]_vars, mpc \in {"frame", "mic", "update"},
           batch # << >>, f.kind = "data", Known, InWindow
    PROVE  /\ batch' # batch => hit' # {}
           /\ count' # count => row'[f.node].fcnt = f.fcnt \/ hit' # {}
<1>1. f.node \in Node /\ f.good /\ row \in [Node -> [present : BOOLEAN, sess : Sess, fcnt : Fcnt]]
  BY FrameInHand, Types DEF TypeInv, TypeOK, InWindow
<1>2. CASE FetchFcnt
  BY <1>2 DEF FetchFcnt
<1>3. CASE DataFrame
  <2>1. hit' = hit /\ count' = count
    BY <1>3 DEF DataFrame
  <2>2. ASSUME hit = {} PROVE batch' = batch
    <3>1. flag /\ nwk = <<f.node, f.sess>> /\ up = row[f.node].fcnt
      BY <1>1, <1>3, <2>2 DEF InWay, Unhindered, DataFrame, TypeInv, Grown, Parsing
    <3>2. MicMatches
      BY <1>1, <3>1, WindowFound DEF MicMatches
    <3>3. QED
      BY <1>3, <3>1, <3>2 DEF DataFrame
  <2>3. QED
    BY <2>1, <2>2
<1>4. CASE Update
  <2>1. CASE hit' # {}
    BY <2>1
  <2>2. CASE hit' = {}
    <3>1. hit = {} /\ row' = [row EXCEPT ![f.node].fcnt = up] /\ UNCHANGED batch
      BY <1>4, <2>2 DEF Update, Passes, Stored
    <3>2. up = f.fcnt
      BY <1>1, <1>4, <3>1 DEF InWay, Unhindered, Update
    <3>3. QED
      BY <1>1, <3>1, <3>2
  <2>3. QED
    BY <2>1, <2>2
<1>5. CASE UNCHANGED <<batch, count>>
  BY <1>5
<1>6. QED
  BY <1>2, <1>3, <1>4, <1>5 DEF Next, Main, Environment, SendStep, Receive, BatchDone, JoinFrame,
     InFrame, ParseTable, Joined, Copy, Finish, TaskQueue, SendTo, Clear, Transmit, Lost, Foreign,
     Request, Derive, Accept, Remove, ClearFlag

\* Losses of up to W-1 frames do not lose the device: LoRaWAN_Parse finds the
\* counter of every genuine frame in the window, for any W, unless a statement
\* was refused or another thread cleared the flag or replaced the key.
THEOREM WindowIsAccepted == Spec => InWindowAccepted
<1>1. Init => Heard /\ InWay
  <2>1. Len(<< >>) = 0
    OBVIOUS
  <2>2. QED
    BY <2>1 DEF Init, Heard, Past, Fresh, InWay
<1>2. TypeInv /\ InWay /\ [Next]_vars =>
        [/\ mpc \in {"frame", "mic", "update"} /\ batch # << >> /\ f.kind = "data"
            /\ Known /\ InWindow
         => /\ batch' # batch => hit' # {}
            /\ count' # count => row'[f.node].fcnt = f.fcnt \/ hit' # {}]_vars
  BY WindowStep
<1>3. QED
  BY <1>1, <1>2, InitTypes, NextTypes, NextHears, NextInWay, PTL DEF Spec, InWindowAccepted

-----------------------------------------------------------------------------
(* The buffers of the two senders.                                         *)

LEMMA KeepUnsent ==
    ASSUME Unsent, UNCHANGED <<count, buf, spc, out>>,
           mpc' = mpc \/ mpc' \in {"recv", "frame", "parse", "mic", "update", "join"}
    PROVE  Unsent'
BY DEF Unsent, ToCopy

LEMMA CopyUnsent ==
    ASSUME TypeInv, Unsent, NEW c \in Chan, Copy(c)
    PROVE  Unsent'
<1>0. count \in Nat /\ buf \in [Chan -> [data : Serial, len : Serial]]
  BY DEF TypeInv, TypeOK, Serial
<1>1. /\ mpc \in ToCopy(c) /\ mpc' \notin ToCopy(c)
      /\ \A d \in Chan : mpc' \in ToCopy(d) => mpc \in ToCopy(d)
      /\ UNCHANGED <<count, spc, out>>
  BY DEF Copy, ToCopy
<1>2. buf'[c].data = count /\ \A d \in Chan \ {c} : buf'[d] = buf[d]
  BY <1>0 DEF Copy
<1>3. ASSUME NEW o \in out[c]
      PROVE  o.data < count
  BY <1>1, <1>3 DEF Unsent
<1>4. \A o \in out[c] : o.data # count /\ o.data <= count
  <2>1. \A o \in out[c] : o.data \in Nat
    BY DEF TypeInv, TypeOK, Serial
  <2>2. QED
    BY <1>0, <1>3, <2>1
<1>5. QED
  BY <1>0, <1>1, <1>2, <1>4 DEF Unsent

LEMMA SendToUnsent ==
    ASSUME TypeInv, Unsent, NEW c \in Chan, SendTo(c)
    PROVE  Unsent'
<1>1. /\ UNCHANGED <<mpc, count, buf>>
      /\ spc' = [spc EXCEPT ![c] = "clear"]
      /\ out' = [out EXCEPT ![c] = @ \cup {buf[c]}] \/ out' = out
      /\ spc \in [Chan -> {"wait", "clear"}]
      /\ out \in [Chan -> SUBSET [data : Serial, len : Serial]]
  BY DEF SendTo, TypeInv, TypeOK
<1>2. spc'[c] = "clear" /\ \A d \in Chan \ {c} : spc'[d] = spc[d] /\ out'[d] = out[d]
  BY <1>1
<1>3. out'[c] \subseteq out[c] \cup {buf[c]}
  BY <1>1
<1>4. QED
  BY <1>1, <1>2, <1>3 DEF Unsent

LEMMA NextUnsent == TypeInv /\ Unsent /\ [Next]_vars => Unsent'
<1> SUFFICES ASSUME TypeInv, Unsent, [Next]_vars PROVE Unsent'
  OBVIOUS
<1>1. CASE UNCHANGED vars
  BY <1>1 DEF Unsent
<1>2. CASE BatchDone \/ JoinFrame \/ FetchFcnt \/ ParseTable \/ DataFrame \/ Joined \/ Receive
  BY <1>2, KeepUnsent
     DEF BatchDone, JoinFrame, FetchFcnt, ParseTable, DataFrame, Joined, Receive, Next1
<1>3. CASE Update
  <2>1. count \in Nat /\ \A c \in Chan : buf[c].data \in Nat /\ \A o \in out[c] : o.data \in Nat
    BY DEF TypeInv, TypeOK, Serial
  <2>2. CASE count' = count
    BY <1>3, <2>2, <2>1, KeepUnsent DEF Update, Passes, Next1
  <2>3. CASE count' = count + 1
    BY <1>3, <2>1, <2>3 DEF Update, Passes, Next1, Unsent
  <2>4. QED
    BY <1>3, <2>2, <2>3 DEF Update, Passes
<1>4. ASSUME NEW c \in Chan, Copy(c)
      PROVE  Unsent'
  BY <1>4, CopyUnsent
<1>5. ASSUME NEW c \in Chan, Finish(c)
      PROVE  Unsent'
  <2>1. /\ UNCHANGED <<count, spc, out>>
        /\ \A d \in Chan : mpc' \in ToCopy(d) => mpc \in ToCopy(d)
    BY <1>5 DEF Finish, ToCopy
  <2>2. \A d \in Chan : buf'[d].data = buf[d].data
    BY <1>5 DEF Finish, TypeInv, TypeOK
  <2>3. QED
    BY <2>1, <2>2 DEF Unsent
<1>6. ASSUME NEW c \in Chan, SendTo(c)
      PROVE  Unsent'
  BY <1>6, SendToUnsent
<1>7. ASSUME NEW c \in Chan, Clear(c)
      PROVE  Unsent'
  <2>1. /\ UNCHANGED <<mpc, count, out>>
        /\ buf'[c].data = 0
        /\ \A d \in Chan \ {c} : buf'[d] = buf[d] /\ spc'[d] = spc[d]
    BY <1>7 DEF Clear, Cleared, TypeInv, TypeOK
  <2>2. count \in Nat /\ buf[c].data \in Nat
    BY DEF TypeInv, TypeOK, Serial
  <2>3. QED
    BY <2>1, <2>2 DEF Unsent
<1>8. CASE Environment \/ TaskQueue
  BY <1>8, KeepUnsent DEF Environment, TaskQueue, Transmit, Lost, Foreign, Request, Derive, Accept,
     Remove, ClearFlag
<1>9. QED
  BY <1>1, <1>2, <1>3, <1>4, <1>5, <1>6, <1>7, <1>8 DEF Next, Main, SendStep

\* The content of a frame is passed on at most once to lora_conf and at most
\* once to lora_pkt_communicate, whenever the sender finds it and clears it.
THEOREM NothingPassedOnTwice == Spec => PassedOnOnce
<1>1. Init => Unsent
  BY DEF Init, Unsent, ToCopy, Cleared
<1>2. Unsent =>
        [\A c \in Chan : SendTo(c) /\ buf[c].data > 0 /\ opened[c] /\ buf[c].len > 0
                           => \A o \in out[c] : o.data # buf[c].data]_vars
  BY DEF Unsent, SendTo
<1>3. QED
  BY <1>1, <1>2, InitTypes, NextTypes, NextUnsent, PTL DEF Spec, PassedOnOnce

-----------------------------------------------------------------------------
(* The stored counter and the device's own.                                *)

LEMMA GenuineStays ==
    ASSUME TypeInv, batch # << >>, UNCHANGED batch, \A n \in Node : row'[n].fcnt = row[n].fcnt
    PROVE  Genuine' <=> Genuine
<1>1. f.node \in Node /\ f' = f
  BY FrameInHand, Types DEF TypeInv, f
<1>2. QED
  BY <1>1 DEF Genuine, Reconstruct, NoCarry, Diff

LEMMA NextNotAhead == TypeInv /\ NotAhead /\ [Next]_vars => NotAhead'
<1> SUFFICES ASSUME TypeInv, NotAhead, [Next]_vars, mpc' = "update", Genuine' PROVE up' <= f'.fcnt
  BY DEF NotAhead
<1>1. CASE DataFrame
  <2>1. /\ UNCHANGED <<batch, row>> /\ batch # << >> /\ f' = f
        /\ up = row[f.node].fcnt /\ up' \in {up, Reconstruct(up)}
    BY <1>1 DEF DataFrame, Next1, TypeInv, Grown, Parsing, f
  <2>2. Reconstruct(up) = f.fcnt
    BY <2>1, GenuineStays DEF Genuine
  <2>3. up \in Nat
    BY DEF TypeInv, TypeOK, Fcnt
  <2>4. up <= Reconstruct(up) /\ Reconstruct(up) \in Nat
    <3>1. Reconstruct(up) = up + Diff(up) /\ Diff(up) \in 0..(W-1)
      BY <2>1, <2>3, ReconstructAdds DEF TypeInv
    <3>2. QED
      BY <2>3, <3>1, Bounds
  <2>5. QED
    BY <2>1, <2>2, <2>3, <2>4
<1>2. CASE mpc = "update" /\ UNCHANGED <<mpc, batch, up>> /\ \A n \in Node : row'[n].fcnt = row[n].fcnt
  BY <1>2, GenuineStays DEF NotAhead, TypeInv, InHand, f
<1>3. CASE Environment
  <2>1. UNCHANGED <<mpc, batch, up>>
    BY <1>3 DEF Environment, Transmit, Lost, Foreign, Request, Derive, Accept, Remove, ClearFlag
  <2>2. \A n \in Node : row'[n].fcnt = row[n].fcnt
    BY <1>3, CountersStay
  <2>3. QED
    BY <1>2, <2>1, <2>2
<1>4. CASE UNCHANGED vars \/ TaskQueue \/ (\E c \in Chan : SendStep(c))
  BY <1>2, <1>4 DEF TaskQueue, SendStep, SendTo, Clear
<1>5. QED
  BY <1>1, <1>3, <1>4 DEF Next, Main, Receive, BatchDone, JoinFrame, FetchFcnt, ParseTable, Update,
     Passes, Joined, Copy, Finish, Next1

\* How a counter gets ahead, in one step.
LEMMA AheadStep ==
    ASSUME TypeInv, Heard, NotAhead, [Next]_vars, NEW n \in Node,
           RowNotAhead(n), ~RowNotAhead(n)', ~Accept(n)
    PROVE  ~Genuine
<1>1. /\ row \in [Node -> [present : BOOLEAN, sess : Sess, fcnt : Fcnt]]
      /\ dev \in [Node -> [sess : Sess, fcnt : 0..MaxFcnt]]
  BY DEF TypeInv, TypeOK
<1>2. CASE UNCHANGED <<row, dev>>
  BY <1>2 DEF RowNotAhead
<1>3. CASE JoinFrame
  <2>1. f.node \in Node
    BY <1>3, FrameInHand, Types DEF JoinFrame, InFrame, TypeInv
  <2>2. /\ dev' = dev
        /\ row' = row \/ row' = [row EXCEPT ![f.node].fcnt = 0]
    BY <1>3 DEF JoinFrame, Zeroed
  <2>3. \/ row'[n] = row[n]
        \/ row'[n].fcnt = 0
    BY <1>1, <2>1, <2>2
  <2>4. QED
    BY <2>2, <2>3, SessFcnt DEF RowNotAhead
<1>4. CASE Update
  <2>1. CASE UNCHANGED row
    BY <1>4, <2>1, <1>2 DEF Update
  <2>2. CASE ~(UNCHANGED row)
    <3>1. batch # << >>
      BY <1>4 DEF Update, TypeInv, InHand
    <3>2. f \in Frame /\ f.node \in Node /\ f = batch[1] /\ 1 \in 1..Len(batch)
      BY <3>1, FrameInHand, Types, HeadTail DEF TypeInv, TypeOK, f
    <3>3. row' = [row EXCEPT ![f.node].fcnt = up] /\ dev' = dev /\ mpc = "update" /\ Known
      BY <1>4, <2>2 DEF Update, Stored
    <3>4. CASE n = f.node
      <4>1. /\ row'[n].fcnt = up /\ row'[n].sess = row[n].sess
            /\ row[n].sess = f.sess
        BY <1>1, <3>2, <3>3, <3>4 DEF Known
      <4>2. ASSUME Genuine PROVE FALSE
        <5>1. up <= f.fcnt /\ f.good
          BY <3>3, <4>2 DEF NotAhead, Genuine
        <5>2. f.sess = dev[n].sess => f.fcnt <= dev[n].fcnt
          BY <3>2, <3>4, <5>1 DEF Heard, Past
        <5>3. up \in Nat /\ f.fcnt \in Nat /\ dev[n].fcnt \in Nat
          BY <3>2, SessFcnt DEF TypeInv, TypeOK, Fcnt
        <5>4. QED
          BY <3>3, <4>1, <5>1, <5>2, <5>3 DEF RowNotAhead
      <4>3. QED
        BY <4>2
    <3>5. CASE n # f.node
      BY <1>1, <3>3, <3>5 DEF RowNotAhead
    <3>6. QED
      BY <3>4, <3>5
  <2>3. QED
    BY <1>4, <2>1, <2>2 DEF Update
<1>5. ASSUME NEW m \in Node, Accept(m)
      PROVE  FALSE
  BY <1>1, <1>5 DEF Accept, RowNotAhead
<1>6. ASSUME NEW m \in Node, Transmit(m) \/ Lost(m)
      PROVE  FALSE
  <2>1. row' = row /\ \E k \in {0, 1} : dev' = [dev EXCEPT ![m].fcnt = @ + k]
    BY <1>6 DEF Transmit, Lost
  <2>2. dev'[n].sess = dev[n].sess /\ dev'[n].fcnt \in {dev[n].fcnt, dev[n].fcnt + 0, dev[n].fcnt + 1}
    BY <1>1, <2>1
  <2>3. QED
    BY <2>1, <2>2, SessFcnt DEF RowNotAhead
<1>7. ASSUME NEW m \in Node, Remove(m)
      PROVE  FALSE
  BY <1>1, <1>7 DEF Remove, RowNotAhead
<1>8. QED
  BY <1>2, <1>3, <1>4, <1>5, <1>6, <1>7 DEF Next, Main, Environment, SendStep,
     BatchDone, FetchFcnt, ParseTable, DataFrame, Joined, Copy, Finish, Receive, TaskQueue,
     Foreign, Request, Derive, ClearFlag, SendTo, Clear

\* A stored counter overtakes its device only with a frame that rides on the
\* MIC of an earlier one of its batch, or with the accept of a join.
THEOREM OvertakingIsExplained == Spec => AheadExplained
<1>1. Init => Heard /\ NotAhead
  <2>1. Len(<< >>) = 0
    OBVIOUS
  <2>2. QED
    BY <2>1 DEF Init, Heard, Past, Fresh, NotAhead
<1>2. TypeInv /\ Heard /\ NotAhead /\ [Next]_vars =>
        [\A n \in Node : RowNotAhead(n) /\ ~RowNotAhead(n)' => Accept(n) \/ ~Genuine]_vars
  BY AheadStep
<1>3. QED
  BY <1>1, <1>2, InitTypes, NextTypes, NextHears, NextNotAhead, PTL DEF Spec, AheadExplained
=============================================================================
