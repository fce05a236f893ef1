---------------------------- MODULE WebApp_proofs ----------------------------
(***************************************************************************)
(* Theorems about WebApp, each for the specification of the part it is     *)
(* about, and what they come to for the whole: the particles of the power  *)
(* flow, the axis of a chart, the pages that ask the server, the dashboard *)
(* with its panels, labels, the figures of energy, the rate of the moment, *)
(* the numbers of the devices, the bars of alerts, what charts draw and    *)
(* the types of all of them, for any values of their constants.            *)
(***************************************************************************)
EXTENDS WebApp, Sums_proofs

-----------------------------------------------------------------------------
(* The particles of the power flow. *)

(* One more element counts for one at most. *)
LEMMA OneMore ==
  ASSUME NEW S, IsFiniteSet(S), NEW n \in Nat, Cardinality(S) <= n, NEW x
  PROVE  IsFiniteSet(S \cup {x}) /\ Cardinality(S \cup {x}) <= n + 1
<1>1. Cardinality(S) \in Nat BY FS_CardinalityType
<1>2. /\ IsFiniteSet(S \cup {x})
      /\ Cardinality(S \cup {x}) = IF x \in S THEN Cardinality(S) ELSE Cardinality(S) + 1
  BY FS_AddElement
<1>3. CASE x \in S
  BY <1>1, <1>2, <1>3
<1>4. CASE x \notin S
  BY <1>1, <1>2, <1>4
<1>. QED BY <1>3, <1>4

(* Three things at most. *)
LEMMA AtMostThree ==
  ASSUME NEW a, NEW b, NEW c
  PROVE  IsFiniteSet({a, b, c}) /\ Cardinality({a, b, c}) <= 3
<1>0. IsFiniteSet({a}) /\ Cardinality({a}) = 1 BY FS_Singleton
<1>1. IsFiniteSet({a}) /\ Cardinality({a}) <= 1 BY <1>0
<1>2. IsFiniteSet({a} \cup {b}) /\ Cardinality({a} \cup {b}) <= 1 + 1
  BY <1>1, OneMore
<1> DEFINE pair == {a} \cup {b}
<1>3. IsFiniteSet(pair) /\ Cardinality(pair) <= 2 BY <1>2
<1> HIDE DEF pair
<1>4. IsFiniteSet(pair \cup {c}) /\ Cardinality(pair \cup {c}) <= 2 + 1
  BY <1>3, OneMore
<1>5. pair \cup {c} = {a, b, c} BY DEF pair
<1>. QED BY <1>4, <1>5

(* Pieces of three sources at most, one of each. *)
LEMMA FewPieces ==
  ASSUME NEW S, NEW a, NEW b, NEW c, \A p \in S : p.source \in {a, b, c},
         \A p, q \in S : p.source = q.source => p = q
  PROVE  Cardinality(S) <= 3
<1> DEFINE Of(s) == CHOOSE p \in S : p.source = s
<1>1. \A p \in S : p = Of(p.source) OBVIOUS
<1>2. S \subseteq {Of(a), Of(b), Of(c)} BY <1>1
<1> HIDE DEF Of
<1>3. IsFiniteSet({Of(a), Of(b), Of(c)}) /\ Cardinality({Of(a), Of(b), Of(c)}) <= 3
  BY AtMostThree
<1>4. IsFiniteSet(S) /\ Cardinality(S) <= Cardinality({Of(a), Of(b), Of(c)})
  BY <1>2, <1>3, FS_Subset
<1>. QED BY <1>3, <1>4, FS_CardinalityType

(* Readings as the panel keeps them. *)
Watts == [{"Solar", "Grid", "Battery", "Home"} -> Int]

(* The power across the bridge goes one way at a time. *)
LEMMA OneDirection ==
  ASSUME NEW v \in Watts
  PROVE  ~(HasPower(v, "BridgeLR") /\ HasPower(v, "BridgeRL"))
<1> DEFINE solar == IF v.Solar > 0 THEN v.Solar ELSE 0
           w == solar + v.Grid
<1>1. v.Solar \in Int /\ v.Grid \in Int BY DEF Watts
<1>2. w \in Int BY <1>1
<1>3. /\ Flow(v)["BridgeLR"] = IF w > 0 THEN w ELSE 0
      /\ Flow(v)["BridgeRL"] = IF -w > 0 THEN -w ELSE 0
  BY DEF Flow
<1> HIDE DEF w
<1>. QED BY <1>2, <1>3 DEF HasPower, MinPower

(* The sources the panel knows. *)
LEMMA SourcesNamed ==
  Sources = {"Solar", "GridImport", "GridExport", "BatteryDischarge", "BatteryCharge",
             "Home", "BridgeLR", "BridgeRL"}
  BY DEF Sources, Flow

(* Nothing read yet counts as a reading. *)
LEMMA NoReadingTyped == NoReading \in Watts
  BY DEF NoReading, Watts

(* The sources that no other leads to. *)
Starts == {"Solar", "GridImport", "BatteryDischarge"}

(* What a piece may be sent to from its path, the power being what it is. *)
Turns(source) ==
  CASE source \in {"Solar", "GridImport"} -> {"GridExport", "BridgeLR"}
    [] source = "BatteryDischarge"        -> {"BatteryCharge", "Home", "BridgeRL"}
    [] source = "BridgeLR"                -> {"BatteryCharge", "Home"}
    [] source = "BridgeRL"                -> {"GridExport"}
    [] OTHER -> {}

(* The sources of the pieces there may be at a time. *)
Stages == {{s} : s \in Starts} \cup
          {{"GridExport", "BridgeLR"}, {"GridExport", "BatteryCharge", "Home"},
           {"BatteryCharge", "Home", "BridgeRL"}}

(* The point a piece of a source goes to in the end. *)
EndPoint(source) ==
  CASE source \in {"Solar", "GridImport", "BridgeRL"} -> "TrunkL_Mid"
    [] source \in {"BatteryDischarge", "BridgeLR"}    -> "TrunkR_Mid"
    [] source = "GridExport"    -> "Grid"
    [] source = "BatteryCharge" -> "Battery"
    [] source = "Home"          -> "Home"

(* A piece has all of its way before it, or the last point. *)
PieceTyped(p) ==
  \E s \in Sources, at \in Sizes : \E path \in {Way(s), <<EndPoint(s)>>} :
     p = [source |-> s, path |-> path, size |-> at]

(* A new piece is well formed. *)
LEMMA Placed ==
  ASSUME NEW s \in Sources, NEW at \in Sizes
  PROVE  PieceTyped(Piece(s, at)) /\ Piece(s, at).source = s
  BY DEF Piece, PieceTyped

(* A way leads straight to its end, or by one point that is no junction. *)
LEMMA Ways ==
  ASSUME NEW s \in Sources
  PROVE  Way(s) = <<EndPoint(s)>> \/ \E a : Way(s) = <<a, EndPoint(s)>> /\ Junction(a) = {}
<1>1. CASE s = "Solar"
  <2>1. /\ Way(s) = <<"TrunkL_Top", "TrunkL_Mid">>
        /\ Junction("TrunkL_Top") = {} /\ EndPoint(s) = "TrunkL_Mid"
    BY <1>1 DEF Way, Junction, EndPoint
  <2>. QED BY <2>1
<1>2. CASE s = "GridImport"
  <2>1. /\ Way(s) = <<"TrunkL_Bot", "TrunkL_Mid">>
        /\ Junction("TrunkL_Bot") = {} /\ EndPoint(s) = "TrunkL_Mid"
    BY <1>2 DEF Way, Junction, EndPoint
  <2>. QED BY <2>1
<1>3. CASE s = "BatteryDischarge"
  <2>1. /\ Way(s) = <<"TrunkR_Bot", "TrunkR_Mid">>
        /\ Junction("TrunkR_Bot") = {} /\ EndPoint(s) = "TrunkR_Mid"
    BY <1>3 DEF Way, Junction, EndPoint
  <2>. QED BY <2>1
<1>4. CASE s = "GridExport"
  <2>1. Way(s) = <<"TrunkL_Bot", "Grid">> /\ Junction("TrunkL_Bot") = {} /\ EndPoint(s) = "Grid"
    BY <1>4 DEF Way, Junction, EndPoint
  <2>. QED BY <2>1
<1>5. CASE s = "BatteryCharge"
  <2>1. /\ Way(s) = <<"TrunkR_Bot", "Battery">>
        /\ Junction("TrunkR_Bot") = {} /\ EndPoint(s) = "Battery"
    BY <1>5 DEF Way, Junction, EndPoint
  <2>. QED BY <2>1
<1>6. CASE s = "Home"
  <2>1. Way(s) = <<"TrunkR_Top", "Home">> /\ Junction("TrunkR_Top") = {} /\ EndPoint(s) = "Home"
    BY <1>6 DEF Way, Junction, EndPoint
  <2>. QED BY <2>1
<1>7. CASE s \in {"BridgeLR", "BridgeRL"} BY <1>7 DEF Way, EndPoint
<1>. QED BY <1>1, <1>2, <1>3, <1>4, <1>5, <1>6, <1>7, SourcesNamed

(* The parts of short sequences. *)
LEMMA Sequences ==
  ASSUME NEW a, NEW b
  PROVE  /\ Len(<<a, b>>) = 2 /\ Head(<<a, b>>) = a /\ Tail(<<a, b>>) = <<b>>
         /\ Len(<<b>>) = 1 /\ Head(<<b>>) = b
  OBVIOUS

(* A junction a piece gets to is the end of its way. *)
LEMMA Ahead ==
  ASSUME NEW p, PieceTyped(p)
  PROVE  /\ p.source \in Sources
         /\ Len(p.path) > 1 => PieceTyped([p EXCEPT !.path = Tail(@)])
                               /\ [p EXCEPT !.path = Tail(@)].source = p.source
         /\ Junction(Head(p.path)) \in {{}, Junction(EndPoint(p.source))}
<1>1. PICK s \in Sources, at \in Sizes : \E path \in {Way(s), <<EndPoint(s)>>} :
        p = [source |-> s, path |-> path, size |-> at]
  BY DEF PieceTyped
<1>2. PICK path \in {Way(s), <<EndPoint(s)>>} : p = [source |-> s, path |-> path, size |-> at]
  BY <1>1
<1>3. p.source = s /\ p.path = path /\ p.size = at BY <1>2
<1>4. path = <<EndPoint(s)>> \/ \E a : path = <<a, EndPoint(s)>> /\ Junction(a) = {}
  BY Ways
<1>5. CASE path = <<EndPoint(s)>>
  BY <1>3, <1>5, Sequences
<1>6. CASE \E a : path = <<a, EndPoint(s)>> /\ Junction(a) = {}
  <2>1. PICK a : path = <<a, EndPoint(s)>> /\ Junction(a) = {} BY <1>6
  <2>2. Tail(path) = <<EndPoint(s)>> /\ Head(path) = a BY <2>1, Sequences
  <2> DEFINE rest == Tail(path)
  <2>3. [p EXCEPT !.path = Tail(@)] = [p EXCEPT !.path = rest] BY <1>3
  <2> HIDE DEF rest
  <2>4. [p EXCEPT !.path = rest] = [source |-> s, path |-> rest, size |-> at] BY <1>2
  <2>5. rest = <<EndPoint(s)>> BY <2>2 DEF rest
  <2>. QED BY <1>3, <2>1, <2>2, <2>3, <2>4, <2>5 DEF PieceTyped
<1>. QED BY <1>4, <1>5, <1>6

(* From the end of its way a piece of a source turns to no other sources,    *)
(* except for the bridge it came by.                                         *)
LEMMA Junctions ==
  ASSUME NEW s \in Sources, NEW t \in Junction(EndPoint(s))
  PROVE  /\ t \in Sources
         /\ \/ t \in Turns(s)
            \/ t = "BridgeLR" /\ s = "BridgeRL"
            \/ t = "BridgeRL" /\ s = "BridgeLR"
<1>1. CASE s \in {"Solar", "GridImport", "BridgeRL"}
  BY <1>1, SourcesNamed DEF EndPoint, Junction, Turns
<1>2. CASE s \in {"BatteryDischarge", "BridgeLR"}
  BY <1>2, SourcesNamed DEF EndPoint, Junction, Turns
<1>3. CASE s \in {"GridExport", "BatteryCharge", "Home"}
  BY <1>3 DEF EndPoint, Junction
<1>. QED BY <1>1, <1>2, <1>3, SourcesNamed

(* Where a piece has power, what it becomes is one piece of its source, or   *)
(* pieces of sources it turns to, one of each.                               *)
LEMMA GoesOn ==
  ASSUME values \in Watts, size \in Sizes,
         NEW p, PieceTyped(p), HasPower(values, p.source)
  PROVE  /\ \A q \in Onward(p) : PieceTyped(q)
         /\ \A q, r \in Onward(p) : q.source = r.source => q = r
         /\ \/ \A q \in Onward(p) : q.source = p.source
            \/ \A q \in Onward(p) : q.source \in Turns(p.source)
<1> DEFINE targets == {s \in Junction(Head(p.path)) : HasPower(values, s)}
<1>1. CASE p.size = size /\ Junction(Head(p.path)) # {}
  <2>1. Onward(p) = {Piece(s, size) : s \in targets} BY <1>1 DEF Onward
  <2>2. \A s \in targets : s \in Turns(p.source) /\ s \in Sources
    BY Ahead, Junctions, OneDirection
  <2> HIDE DEF targets
  <2>3. \A s \in targets : PieceTyped(Piece(s, size)) /\ Piece(s, size).source = s
    BY <2>2, Placed
  <2>. QED BY <2>1, <2>2, <2>3
<1>2. CASE ~(p.size = size /\ Junction(Head(p.path)) # {}) /\ Len(p.path) > 1
  <2> DEFINE moved == [p EXCEPT !.path = Tail(@)]
  <2>1. PieceTyped(moved) /\ moved.source = p.source BY <1>2, Ahead
  <2>2. Onward(p) = {moved} BY <1>2 DEF Onward
  <2> HIDE DEF moved
  <2>. QED BY <2>1, <2>2
<1>3. CASE ~(p.size = size /\ Junction(Head(p.path)) # {}) /\ ~(Len(p.path) > 1)
  <2>1. Onward(p) = {} BY <1>3 DEF Onward
  <2>. QED BY <2>1
<1>. QED BY <1>1, <1>2, <1>3

-----------------------------------------------------------------------------
(* What a panel follows: one piece of each source, of sources that can be    *)
(* there together; and before a piece reaches its first junction, nothing    *)
(* has crossed the bridge.                                                   *)
Crossed == {"BridgeLR", "BridgeRL"} \cap trail

(* What holds of the particles of one panel. *)
PiecesInv(ps) ==
  /\ \A p \in ps : PieceTyped(p)
  /\ \A p, q \in ps : p.source = q.source => p = q
  /\ \E stage \in Stages : \A p \in ps : p.source \in stage

(* What holds of every panel: the inductive invariant of NeverBackAcross. *)
FlowInv ==
  /\ values \in Watts /\ size \in Sizes
  /\ PiecesInv(pieces)
  /\ \A p \in pieces : p.source \in trail /\ (p.source \in Starts => Crossed = {})
  /\ ~({"BridgeLR", "BridgeRL"} \subseteq trail)

(* Where a piece q comes from in a frame in which some arrive. *)
From(p, q, arrived) == (q = p /\ p \notin arrived) \/ (p \in arrived /\ q \in Onward(p))

(* What comes of a piece in a frame is that piece, or what it turned to. *)
LEMMA FromOne ==
  ASSUME FlowInv, NEW p \in Powered, NEW arrived
  PROVE  /\ p \in pieces /\ PieceTyped(p)
         /\ \A q : From(p, q, arrived) => PieceTyped(q)
         /\ \A q, r : From(p, q, arrived) /\ From(p, r, arrived) /\ q.source = r.source => q = r
         /\ \/ \A q : From(p, q, arrived) => q.source = p.source
            \/ \A q : From(p, q, arrived) => q.source \in Turns(p.source)
<1>1. p \in pieces /\ PieceTyped(p) /\ HasPower(values, p.source)
  BY DEF Powered, FlowInv, PiecesInv
<1>2. /\ \A q \in Onward(p) : PieceTyped(q)
      /\ \A q, r \in Onward(p) : q.source = r.source => q = r
      /\ \/ \A q \in Onward(p) : q.source = p.source
         \/ \A q \in Onward(p) : q.source \in Turns(p.source)
  BY <1>1, GoesOn DEF FlowInv
<1>3. CASE p \in arrived BY <1>1, <1>2, <1>3 DEF From
<1>4. CASE p \notin arrived BY <1>1, <1>4 DEF From
<1>. QED BY <1>3, <1>4

(* Sources of one stage have nothing to turn to in common. *)
LEMMA Apart ==
  ASSUME NEW stage \in Stages, NEW s \in stage, NEW t \in stage, s # t
  PROVE  ({s} \cup Turns(s)) \cap ({t} \cup Turns(t)) = {}
  BY DEF Stages, Turns, Starts

(* A frame keeps the pieces apart, and on their side of the bridge. *)
LEMMA FrameStays ==
  ASSUME FlowInv, Frame
  PROVE  FlowInv'
<1>1. PICK arrived \in SUBSET Powered :
        /\ pieces' = (Powered \ arrived) \cup UNION {Onward(p) : p \in arrived}
        /\ trail' = trail \cup {p.source : p \in pieces'}
        /\ values' = values /\ size' = size
  BY DEF Frame, dataVars
<1>2. \A q \in pieces' : \E p \in Powered : From(p, q, arrived)
  BY <1>1 DEF From
<1>3. PICK stage \in Stages : \A p \in pieces : p.source \in stage
  BY DEF FlowInv, PiecesInv
<1>4. \A q \in pieces' : PieceTyped(q)
  BY <1>2, FromOne
<1>5. \A p \in Powered : \A q : From(p, q, arrived)
         => p \in pieces /\ p.source \in stage /\ q.source \in {p.source} \cup Turns(p.source)
  BY <1>3, FromOne
<1>6. ASSUME NEW q \in pieces', NEW r \in pieces', q.source = r.source
      PROVE  q = r
  <2>1. PICK p \in Powered : From(p, q, arrived) BY <1>2
  <2>2. PICK o \in Powered : From(o, r, arrived) BY <1>2
  <2>3. p.source # o.source => FALSE
    BY <1>5, <1>6, <2>1, <2>2, Apart
  <2>4. p = o BY <2>3, <1>5, <2>1, <2>2 DEF FlowInv, PiecesInv
  <2>. QED BY <1>6, <2>1, <2>2, <2>4, FromOne
<1>7. PICK next \in Stages : \A q \in pieces' : q.source \in next
  <2> SUFFICES \E next \in Stages : \A q \in pieces' : q.source \in next OBVIOUS
  <2>1. ASSUME NEW s \in stage, NEW turned \in Stages, NEW same \in Stages,
               stage \subseteq same, (stage \ {s}) \cup Turns(s) \subseteq turned,
               \A t \in stage \ {s} : Turns(t) = {}
        PROVE  \E next \in Stages : \A q \in pieces' : q.source \in next
    <3>1. CASE \E p \in Powered : p.source = s
      <4>1. PICK p \in Powered : p.source = s BY <3>1
      <4>2. \A o \in Powered : o.source = s => o = p
        BY <4>1, FromOne DEF FlowInv, PiecesInv
      <4>3. CASE \A q : From(p, q, arrived) => q.source = s
        <5>1. \A q \in pieces' : q.source \in same
          BY <1>2, <1>5, <2>1, <4>2, <4>3
        <5>. QED BY <5>1
      <4>4. CASE \A q : From(p, q, arrived) => q.source \in Turns(s)
        <5>1. \A q \in pieces' : q.source \in turned
          BY <1>2, <1>5, <2>1, <4>2, <4>4
        <5>. QED BY <5>1
      <4>. QED BY <4>1, <4>3, <4>4, FromOne
    <3>2. CASE \A p \in Powered : p.source # s
      <4>1. \A q \in pieces' : q.source \in same
        BY <1>2, <1>5, <2>1, <3>2
      <4>. QED BY <4>1
    <3>. QED BY <3>1, <3>2
  <2>2. ASSUME NEW s \in Starts, stage = {s}
        PROVE  \E next \in Stages : \A q \in pieces' : q.source \in next
    <3>1. PICK turned \in Stages : Turns(s) \subseteq turned
      BY DEF Starts, Turns, Stages
    <3>. QED BY <2>1, <2>2, <3>1
  <2>3. CASE stage = {"GridExport", "BridgeLR"}
    <3>1. {"GridExport", "BatteryCharge", "Home"} \in Stages BY DEF Stages
    <3>2. (stage \ {"BridgeLR"}) \cup Turns("BridgeLR")
            \subseteq {"GridExport", "BatteryCharge", "Home"}
      BY <2>3 DEF Turns
    <3>3. \A t \in stage \ {"BridgeLR"} : Turns(t) = {} BY <2>3 DEF Turns
    <3>. QED BY <2>1, <2>3, <3>1, <3>2, <3>3
  <2>4. CASE stage = {"GridExport", "BatteryCharge", "Home"}
    <3>1. \A t \in stage : Turns(t) = {} BY <2>4 DEF Turns
    <3>. QED BY <2>1, <2>4, <3>1
  <2>5. CASE stage = {"BatteryCharge", "Home", "BridgeRL"}
    <3>1. {"GridExport", "BatteryCharge", "Home"} \in Stages BY DEF Stages
    <3>2. (stage \ {"BridgeRL"}) \cup Turns("BridgeRL")
            \subseteq {"GridExport", "BatteryCharge", "Home"}
      BY <2>5 DEF Turns
    <3>3. \A t \in stage \ {"BridgeRL"} : Turns(t) = {} BY <2>5 DEF Turns
    <3>. QED BY <2>1, <2>5, <3>1, <3>2, <3>3
  <2>. QED BY <2>2, <2>3, <2>4, <2>5 DEF Stages
<1>8. PiecesInv(pieces)' BY <1>4, <1>6, <1>7 DEF PiecesInv
(* What is new on the trail is what a first junction sent on, so that        *)
(* nothing had crossed before; and no stage has both directions.             *)
<1>9. ASSUME NEW q \in pieces', q.source \notin trail
      PROVE  q.source \notin Starts /\ (q.source \in {"BridgeLR", "BridgeRL"} => Crossed = {})
  <2>1. PICK p \in Powered : From(p, q, arrived) BY <1>2
  <2>2. p \in pieces /\ q.source \in {p.source} \cup Turns(p.source) BY <1>5, <2>1
  <2>3. p.source \in trail /\ (p.source \in Starts => Crossed = {}) BY <2>2 DEF FlowInv
  <2>4. q.source \in Turns(p.source) BY <1>9, <2>2, <2>3
  <2>. QED BY <2>3, <2>4 DEF Turns, Starts
<1>10. ~({"BridgeLR", "BridgeRL"} \subseteq next) /\ \A s \in next \cap Starts : next = {s}
  BY DEF Stages, Starts
<1>11. ~({"BridgeLR", "BridgeRL"} \subseteq trail')
  BY <1>1, <1>7, <1>9, <1>10 DEF FlowInv, Crossed
<1>12. ASSUME NEW q \in pieces', q.source \in Starts PROVE Crossed' = {}
  <2>1. q.source \in trail BY <1>9, <1>12
  <2>2. PICK p \in Powered : From(p, q, arrived) BY <1>2
  <2>3. p \in pieces /\ p.source = q.source
    BY <1>5, <1>12, <2>2 DEF Turns, Starts
  <2>4. Crossed = {} BY <1>12, <2>3 DEF FlowInv
  <2>5. next = {q.source} BY <1>7, <1>10, <1>12
  <2>6. trail' = trail BY <1>1, <1>7, <2>1, <2>5
  <2>. QED BY <2>4, <2>6 DEF Crossed
<1>13. \A q \in pieces' : q.source \in trail' BY <1>1
<1>. QED BY <1>1, <1>8, <1>11, <1>12, <1>13 DEF FlowInv

(* Every step of the panel keeps the invariant. *)
LEMMA FlowStep == ASSUME FlowInv, [FlowNext]_flowVars PROVE FlowInv'
<1>1. CASE Frame BY <1>1, FrameStays
<1>2. CASE UNCHANGED <<pieces, trail>> /\ values' \in Watts /\ size' \in Sizes
  BY <1>2 DEF FlowInv, PiecesInv, Crossed
<1>3. CASE UNCHANGED flowVars
  BY <1>2, <1>3 DEF flowVars, FlowInv
<1>4. CASE FetchAgain \/ ValuesArrive \/ ValuesFail \/ GridStatusEnds
  <2>1. UNCHANGED <<pieces, trail, size>> /\ values' \in Readings \cup {values}
    BY <1>4 DEF FetchAgain, ValuesArrive, ValuesFail, GridStatusEnds
  <2>2. values' \in Watts BY <2>1, FlowAssumption DEF FlowInv, Watts
  <2>. QED BY <1>2, <2>1, <2>2 DEF FlowInv
<1>5. CASE Resize BY <1>2, <1>5 DEF Resize, dataVars, FlowInv
<1>6. ASSUME NEW s \in Starts, Spawn(s) PROVE FlowInv'
  <2>1. /\ pieces' = {Piece(s, size)} /\ trail' = {s}
        /\ values' \in Watts /\ size' = size /\ size \in Sizes
    BY <1>6 DEF Spawn, dataVars, FlowInv
  <2>2. PieceTyped(Piece(s, size)) /\ Piece(s, size).source = s
    BY <2>1, Placed, SourcesNamed DEF Starts
  <2>3. PiecesInv(pieces)' BY <2>1, <2>2 DEF PiecesInv, Stages
  <2>4. Crossed' = {} /\ ~({"BridgeLR", "BridgeRL"} \subseteq trail')
    BY <2>1 DEF Crossed, Starts
  <2>. QED BY <2>1, <2>2, <2>3, <2>4 DEF FlowInv
<1>. QED BY <1>1, <1>3, <1>4, <1>5, <1>6 DEF FlowNext, Starts

(* However the readings and the panel's size change while a particle is on   *)
(* its way, neither it nor what it splits into crosses the bridge in both    *)
(* directions, and they are three at most (animate).                         *)
THEOREM NeverBackAcross == FlowSpec => []OneWayAcross
<1>1. FlowInit => FlowInv
  BY NoReadingTyped DEF FlowInit, FlowInv, PiecesInv, Crossed, Stages
<1>2. FlowInv /\ [FlowNext]_flowVars => FlowInv' BY FlowStep
<1>3. FlowInv => OneWayAcross
  <2> SUFFICES ASSUME FlowInv PROVE OneWayAcross OBVIOUS
  <2>1. PICK stage \in Stages : \A p \in pieces : p.source \in stage
    BY DEF FlowInv, PiecesInv
  <2>2. \E a, b, c : stage = {a, b, c}
    <3>1. ASSUME NEW s, stage = {s} PROVE stage = {s, s, s} BY <3>1
    <3>2. CASE stage = {"GridExport", "BridgeLR"}
      <4>1. stage = {"GridExport", "BridgeLR", "BridgeLR"} BY <3>2
      <4>. QED BY <4>1
    <3>3. CASE stage = {"GridExport", "BatteryCharge", "Home"} BY <3>3
    <3>4. CASE stage = {"BatteryCharge", "Home", "BridgeRL"} BY <3>4
    <3>. QED BY <3>1, <3>2, <3>3, <3>4 DEF Stages
  <2>3. \A p, q \in pieces : p.source = q.source => p = q BY DEF FlowInv, PiecesInv
  <2>4. Cardinality(pieces) <= 3 BY <2>1, <2>2, <2>3, FewPieces
  <2>. QED BY <2>4 DEF FlowInv, OneWayAcross
<1>. QED BY <1>1, <1>2, <1>3, PTL DEF FlowSpec

-----------------------------------------------------------------------------
(* The axis of a chart. *)

(* A range that begins before it ends, and has ended. *)
Past(range) == /\ range \in Int \X Int /\ range[1] < range[2] /\ range[2] <= now

(* While the panel takes itself for zoomed, the drawing's range is the       *)
(* chart's; the drawing may keep a range of its own only when it does not.   *)
ZoomInv ==
  /\ now \in Int /\ tf \in Timeframes
  /\ zoomed \in BOOLEAN
  /\ zoom # Whole => Past(zoom)
  /\ zoomed => zoom # Whole /\ visible = zoom

(* A range moved as a whole is a range, and another one if it moved at all. *)
LEMMA ShiftedRange ==
  ASSUME NEW r \in Int \X Int, NEW d \in Int
  PROVE  /\ <<r[1] + d, r[2] + d>> \in Int \X Int
         /\ <<r[1] + d, r[2] + d>>[1] = r[1] + d
         /\ <<r[1] + d, r[2] + d>>[2] = r[2] + d
         /\ <<r[1] + d, r[2] + d>> # Whole
         /\ d # 0 => <<r[1] + d, r[2] + d>> # r
  BY DEF Whole

(* The range of a timeframe has ended. *)
LEMMA PresentRange ==
  ASSUME now \in Int, NEW d \in Timeframes
  PROVE  LastOf(d) # Whole /\ Past(LastOf(d)) /\ LastOf(d)[2] = now
  BY ZoomAssumption DEF LastOf, Whole, Past

(* What the chart asks for is always a range of the past. *)
LEMMA QueriedIsPast ==
  ASSUME ZoomInv PROVE Queried # Whole /\ Past(Queried)
<1>1. CASE zoom # Whole BY <1>1 DEF Queried, ZoomInv
<1>2. CASE zoom = Whole BY <1>2, PresentRange DEF Queried, ZoomInv
<1>. QED BY <1>1, <1>2

(* Settle keeps the invariant for a range that has ended, provided that a    *)
(* panel which goes on as zoomed has a new one.                              *)
LEMMA Settles ==
  ASSUME ZoomInv, now' = now, chart' = chart,
         NEW d \in Timeframes, NEW r, NEW z \in BOOLEAN, Settle(d, r, z),
         r # Whole => Past(r), z => r \notin {Whole, zoom}
  PROVE  ZoomInv'
<1>1. tf' = d /\ zoom' = r /\ zoomed' = z BY DEF Settle
<1>2. z => visible' = r BY DEF Settle
<1>3. zoom' # Whole => Past(zoom)' BY <1>1 DEF Past, Whole
<1>. QED BY <1>1, <1>2, <1>3 DEF ZoomInv, Whole

(* A zoomed chart and its drawing keep one range of the past (ChartPanel).   *)
THEOREM ZoomInvKept == ZoomSpec => []ZoomInv
<1>1. ZoomInit => ZoomInv
  <2>. SUFFICES ASSUME ZoomInit PROVE ZoomInv OBVIOUS
  <2>1. tf \in Timeframes BY ZoomAssumption DEF ZoomInit
  <2>2. now \in Int /\ zoomed = FALSE /\ zoom = Whole BY ZoomAssumption DEF ZoomInit
  <2>. QED BY <2>1, <2>2 DEF ZoomInv
<1>2. ZoomInv /\ [Moves]_zoomVars => ZoomInv'
  <2>. SUFFICES ASSUME ZoomInv, [Moves]_zoomVars PROVE ZoomInv' OBVIOUS
  <2>. USE ZoomAssumption
  <2>1. CASE Tick BY <2>1 DEF Tick, ZoomInv, Past, Whole
  <2>2. ASSUME NEW d \in Timeframes, TfChange(d) PROVE ZoomInv'
    BY <2>2, Settles DEF TfChange, Touch, ZoomInv
  <2>3. ASSUME NEW d \in Timeframes, GlobalTfChange(d) PROVE ZoomInv'
    BY <2>3, Settles DEF GlobalTfChange, Touch, ZoomInv
  <2>4. ASSUME NEW from \in 0 .. End, NEW to \in 0 .. End, Select(<<from, to>>)
        PROVE  ZoomInv'
    <3>1. Axis = Queried BY DEF Axis, Queried, ZoomInv
    <3>2. Queried[2] <= now /\ Queried[2] \in Int BY QueriedIsPast DEF Past
    <3>3. /\ now' = now /\ chart' = chart /\ tf' = tf /\ zoomed' = TRUE
          /\ visible' = <<from, to>> /\ zoom' = <<from, to>>
          /\ from < to /\ to <= Axis[2]
      BY <2>4 DEF Select, Touch
    <3>4. <<from, to>> # Whole BY DEF Whole
    <3>5. Past(zoom)' BY <3>1, <3>2, <3>3 DEF Past, ZoomInv
    <3>. QED BY <3>3, <3>4, <3>5 DEF ZoomInv, Whole
  <2>5. CASE HandleReset BY <2>5, Settles DEF HandleReset, Touch, ZoomInv
  <2>6. CASE HandlePrev
    <3>. DEFINE r == <<Queried[1] - tf, Queried[2] - tf>>
    <3>1. Past(Queried) BY QueriedIsPast
    <3>2. tf \in Int /\ tf > 0 BY DEF ZoomInv
    <3>3. r # Whole /\ Past(r) /\ r # Queried BY <3>1, <3>2 DEF Past, Whole, ZoomInv
    <3>4. zoomed => r \notin {Whole, zoom} BY <3>3 DEF ZoomInv, Queried
    <3>5. Settle(tf, r, zoomed) /\ now' = now /\ chart' = chart BY <2>6 DEF HandlePrev, Touch
    <3>. HIDE DEF r
    <3>. QED BY <3>3, <3>4, <3>5, Settles DEF ZoomInv
  <2>7. CASE HandleNext
    <3>. DEFINE r == <<zoom[1] + tf, zoom[2] + tf>>
    <3>1. Past(zoom) /\ now' = now /\ chart' = chart BY <2>7 DEF HandleNext, Touch, ZoomInv
    <3>2. tf \in Int /\ tf > 0 BY DEF ZoomInv
    <3>3. CASE zoom[2] + tf >= now
      <4>1. Settle(tf, Whole, FALSE) BY <2>7, <3>3 DEF HandleNext
      <4>. QED BY <4>1, <3>1, Settles DEF ZoomInv
    <3>4. CASE ~(zoom[2] + tf >= now)
      <4>1. Settle(tf, r, zoomed) BY <2>7, <3>4 DEF HandleNext
      <4>2. r # Whole /\ Past(r) /\ r # zoom BY <3>1, <3>2, <3>4 DEF Past, Whole, ZoomInv
      <4>. HIDE DEF r
      <4>. QED BY <4>1, <4>2, <3>1, Settles DEF ZoomInv
    <3>. QED BY <3>3, <3>4
  <2>8. CASE UNCHANGED zoomVars BY <2>8 DEF zoomVars, ZoomInv, Past, Whole
  <2>. QED BY <2>1, <2>2, <2>3, <2>4, <2>5, <2>6, <2>7, <2>8 DEF Moves
<1>. QED BY <1>1, <1>2, PTL DEF ZoomSpec

(* The axis of a chart shows the range its data was asked for, and nothing   *)
(* of the future, however timeframes, selections and steps through time      *)
(* follow one another (zoomRange, isZoomed, visibleRange).                   *)
THEOREM AxisInStep == ZoomSpec => []AxisMatchesQuery
<1>1. ZoomInv => AxisMatchesQuery
  <2>. SUFFICES ASSUME ZoomInv PROVE AxisMatchesQuery OBVIOUS
  <2>1. Axis = Queried BY DEF Axis, Queried, ZoomInv
  <2>2. Queried[2] <= now BY QueriedIsPast DEF Past
  <2>. QED BY <2>1, <2>2 DEF AxisMatchesQuery
<1>. QED BY <1>1, ZoomInvKept, PTL

-----------------------------------------------------------------------------
(* The pages that ask the server. *)

(* What is said of a query, or nothing yet. *)
Said == Queries \cup {None}

(* No query of the explorer is under way. *)
NonePending == \A q \in Queries : pending[q] = 0

(* The one query under way is the last, and what was said before is gone. *)
LastPending ==
  \E q \in Queries : /\ explorer.last = q /\ explorer.error = None
                     /\ pending[q] = 1 /\ \A r \in Queries \ {q} : pending[r] = 0

(* Unless the Enter key mixed queries, one is under way at most, the last;   *)
(* and every mark is of a run that worked.                                   *)
PagesInv ==
  /\ explorer \in [error : Said, result : Said, loading : BOOLEAN, last : Said, mixed : BOOLEAN]
  /\ pending \in [Queries -> Nat]
  /\ ~explorer.mixed => (NonePending /\ ShownQuery = explorer.last) \/ LastPending
  /\ marks \in [Collectors -> [ran : BOOLEAN, success : BOOLEAN]]
  /\ MarkedMeansCollected

(* Steps that leave the explorer alone, and steps that leave the marks alone. *)
ExplorerStays == UNCHANGED explorerVars
MarksStay == UNCHANGED <<marks, collected>>

(* Every step of the explorer keeps the invariant. *)
LEMMA ExplorerSteps ==
  ASSUME PagesInv, MarksStay, NEW q \in Queries,
         HandleQuery(q) \/ QueryAnswered(q) \/ QueryFails(q)
  PROVE  PagesInv'
<1> USE DEF PagesInv, MarksStay, MarkedMeansCollected, Said
<1>1. CASE HandleQuery(q)
  <2>1. /\ explorer' = [explorer EXCEPT !.loading = TRUE, !.error = None, !.last = q,
                                 !.mixed = @ \/ \E r \in Queries : pending[r] > 0]
        /\ pending' = [pending EXCEPT ![q] = @ + 1]
    BY <1>1 DEF HandleQuery
  <2>2. /\ explorer'.error = None /\ explorer'.last = q
        /\ explorer'.mixed = (explorer.mixed \/ \E r \in Queries : pending[r] > 0)
    BY <2>1
  <2>3. explorer' \in [error : Said, result : Said, loading : BOOLEAN, last : Said, mixed : BOOLEAN]
    BY <2>1
  <2>4. pending' \in [Queries -> Nat] BY <2>1
  <2>5. ~explorer'.mixed => LastPending'
    <3> SUFFICES ASSUME ~explorer'.mixed PROVE LastPending' OBVIOUS
    <3>0. ~\E r \in Queries : pending[r] > 0 BY <2>2
    <3>1. \A r \in Queries : pending[r] = 0 BY <3>0
    <3>2. pending'[q] = 1 /\ \A r \in Queries \ {q} : pending'[r] = 0 BY <2>1, <3>1
    <3>. QED BY <2>2, <3>2 DEF LastPending
  <2>. QED BY <2>3, <2>4, <2>5
<1>2. CASE QueryAnswered(q)
  <2>1. /\ explorer' = [explorer EXCEPT !.result = q, !.loading = FALSE]
        /\ pending[q] > 0 /\ pending' = [pending EXCEPT ![q] = @ - 1]
    BY <1>2 DEF QueryAnswered, QueryEnds
  <2>2. /\ explorer'.error = explorer.error /\ explorer'.last = explorer.last
        /\ explorer'.mixed = explorer.mixed /\ explorer'.result = q
    BY <2>1
  <2>3. explorer' \in [error : Said, result : Said, loading : BOOLEAN, last : Said, mixed : BOOLEAN]
    BY <2>1
  <2>4. pending' \in [Queries -> Nat] BY <2>1
  <2>5. ~explorer'.mixed => NonePending' /\ ShownQuery' = explorer'.last
    BY <2>1, <2>2 DEF LastPending, NonePending, ShownQuery
  <2>. QED BY <2>3, <2>4, <2>5
<1>3. CASE QueryFails(q)
  <2>1. /\ explorer' = [explorer EXCEPT !.error = q, !.result = None, !.loading = FALSE]
        /\ pending[q] > 0 /\ pending' = [pending EXCEPT ![q] = @ - 1]
    BY <1>3 DEF QueryFails, QueryEnds
  <2>2. /\ explorer'.error = q /\ explorer'.last = explorer.last
        /\ explorer'.mixed = explorer.mixed
    BY <2>1
  <2>3. explorer' \in [error : Said, result : Said, loading : BOOLEAN, last : Said, mixed : BOOLEAN]
    BY <2>1
  <2>4. pending' \in [Queries -> Nat] BY <2>1
  <2>5. ~explorer'.mixed => NonePending' /\ ShownQuery' = explorer'.last
    BY <2>1, <2>2, PagesAssumption DEF LastPending, NonePending, ShownQuery
  <2>. QED BY <2>3, <2>4, <2>5
<1>. QED BY <1>1, <1>2, <1>3

(* Other pages leave both alone. *)
LEMMA RestStays ==
  ASSUME PagesInv, ExplorerStays,
         marks' \in [Collectors -> [ran : BOOLEAN, success : BOOLEAN]], MarkedMeansCollected'
  PROVE  PagesInv'
  BY DEF PagesInv, ExplorerStays, explorerVars, NonePending, LastPending, ShownQuery

(* Every step of the pages keeps the invariant. *)
LEMMA PagesStep == ASSUME PagesInv, [PagesNext]_pageVars PROVE PagesInv'
<1>1. CASE ExplorerStays /\ MarksStay
  BY <1>1, RestStays DEF MarksStay, PagesInv, MarkedMeansCollected
<1>2. CASE PageFetchArrives \/ PageFetchFails
  BY <1>1, <1>2 DEF PageFetchArrives, PageFetchFails, troubleVars, ExplorerStays, MarksStay
<1>3. ASSUME NEW q \in Queries, HandleQuery(q) \/ QueryAnswered(q) \/ QueryFails(q)
      PROVE  PagesInv'
  <2>1. MarksStay
    BY <1>3 DEF HandleQuery, QueryAnswered, QueryFails, QueryEnds, troubleVars, MarksStay
  <2>. QED BY <1>3, <2>1, ExplorerSteps
<1>4. ASSUME NEW q \in Queries, SelectQuery(q) PROVE PagesInv'
  BY <1>1, <1>4 DEF SelectQuery, Trouble, ExplorerStays, MarksStay
<1>5. ASSUME NEW c \in Collectors, RunOne(c) PROVE PagesInv'
  BY <1>1, <1>5 DEF RunOne, Trouble, ExplorerStays, MarksStay
<1>6. CASE RunAll \/ RunQuery \/ RunQueryEnds \/ DownloadBundle \/ BundleEnds
  BY <1>1, <1>6 DEF RunAll, RunQuery, RunQueryEnds, DownloadBundle, BundleEnds, Trouble,
                    ExplorerStays, MarksStay
(* Marks as they were, or of runs that had this result. *)
<1>7. ASSUME NEW c \in Collectors, OneLost(c) PROVE PagesInv'
  BY <1>7, RestStays DEF OneLost, Trouble, ExplorerStays, PagesInv, MarkedMeansCollected
<1>8. ASSUME NEW c \in Collectors, NEW success \in BOOLEAN, OneEnds(c, success) PROVE PagesInv'
  <2>1. /\ marks' = [marks EXCEPT ![c] = [ran |-> TRUE, success |-> success]]
        /\ collected' = collected \cup (IF success THEN {c} ELSE {}) /\ ExplorerStays
    BY <1>8 DEF OneEnds, Trouble, ExplorerStays
  <2>2. marks' \in [Collectors -> [ran : BOOLEAN, success : BOOLEAN]] BY <2>1 DEF PagesInv
  <2>3. MarkedMeansCollected' BY <2>1 DEF PagesInv, MarkedMeansCollected
  <2>. QED BY <2>1, <2>2, <2>3, RestStays
<1>9. CASE AllFails
  BY <1>9, RestStays DEF AllFails, Trouble, ExplorerStays, PagesInv, MarkedMeansCollected
<1>10. ASSUME NEW worked \in SUBSET Collectors, AllEnds(worked) PROVE PagesInv'
  <2>1. /\ marks' = [c \in Collectors |-> [ran |-> TRUE, success |-> c \in worked]]
        /\ collected' = collected \cup worked /\ ExplorerStays
    BY <1>10 DEF AllEnds, Trouble, ExplorerStays
  <2>2. marks' \in [Collectors -> [ran : BOOLEAN, success : BOOLEAN]] BY <2>1
  <2>3. MarkedMeansCollected' BY <2>1 DEF MarkedMeansCollected
  <2>. QED BY <2>1, <2>2, <2>3, RestStays
<1>11. CASE UNCHANGED pageVars
  BY <1>1, <1>11 DEF pageVars, ExplorerStays, MarksStay, explorerVars
<1>. QED
  BY <1>2, <1>3, <1>4, <1>5, <1>6, <1>7, <1>8, <1>9, <1>10, <1>11 DEF PagesNext

(* The explorer shows the answer to the last query, and marks are those of   *)
(* runs that worked, whatever is answered late, refused or lost              *)
(* (handleQuery, handleForceRun).                                            *)
THEOREM PagesHonest == PagesSpec => [](ExplorerInStep /\ MarkedMeansCollected)
<1>1. PagesInit => PagesInv
  BY DEF PagesInit, PagesInv, Said, NonePending, ShownQuery, MarkedMeansCollected
<1>2. PagesInv /\ [PagesNext]_pageVars => PagesInv' BY PagesStep
<1>3. PagesInv => ExplorerInStep /\ MarkedMeansCollected
  BY DEF PagesInv, ExplorerInStep, NonePending, LastPending
<1>. QED BY <1>1, <1>2, <1>3, PTL DEF PagesSpec

-----------------------------------------------------------------------------
(* The dashboard. *)

(* A choice of a timeframe, or none; what the contexts, the page and a chart *)
(* hold of it.                                                               *)
Choice == Offered \cup {None}
ContextType == [global : Offered, mixed : BOOLEAN]
BoardPage == [at : {"away", "loading", "empty", "shown"}, first : BOOLEAN, loads : Nat]
ChartType == [local : Choice, prev : Choice, zoom : BOOLEAN, data : Board!Ranges \cup {None}]

BoardTyped == /\ ctx \in ContextType /\ page \in BoardPage /\ clicks \in Nat
         /\ overrides \in [Panels -> Choice] /\ panel \in [Panels -> ChartType]

(* The timeframe a chart is given. *)
GivenTo(p) == IF overrides[p] = None THEN ctx.global ELSE overrides[p]

(* A chart has followed what it was last given; what it shows is that, or    *)
(* its own default as long as nothing was chosen on it.                      *)
Following(p) ==
  /\ panel[p].prev = GivenTo(p)
  /\ panel[p].local = GivenTo(p) \/ (overrides[p] = None /\ panel[p].local = Board!Default(p))

ChartsFollow ==
  /\ Board!Shown => \A p \in Panels : Following(p)
  /\ ~Board!Shown => overrides = Board!NoOverrides

(* Panels are shown only after the configured timeframe was applied. *)
AppliedOnce == Board!Shown /\ page.first => Configured = None

(* The inductive invariant of PanelsFollow and NothingSnapsBack. *)
BoardInv == BoardTyped /\ ChartsFollow /\ AppliedOnce

(* What a chart shows when no dashboard gave it a timeframe. *)
LEMMA DefaultIsChoice ==
  ASSUME NEW p PROVE Board!Default(p) \in Choice
  BY BoardAssumption DEF Board!Default, Choice

(* Following the global timeframe leaves a chart its type. *)
LEMMA SyncTyped ==
  ASSUME NEW one \in ChartType, NEW timeframe \in Offered
  PROVE  Board!Sync(one, timeframe) \in ChartType
  BY DEF Board!Sync, ChartType, Choice

(* What a render leaves, given what an event has set: charts that show what  *)
(* they were given last, what has just been chosen on them, or their default.*)
Renderable(c, over, one, p) ==
  /\ one.prev \in Offered
  /\ \/ one.local = one.prev
     \/ over[p] = one.local /\ over[p] # None /\ (ctx.mixed => c.mixed)
     \/ over[p] = None /\ one.local = Board!Default(p)

(* So does a render of every chart, the answers it asks for included. *)
LEMMA RendersTyped ==
  ASSUME NEW c \in ContextType, NEW over \in [Panels -> Choice],
         NEW charts \in [Panels -> ChartType], NEW pg \in BoardPage,
         Board!Render(c, over, charts, pg)
  PROVE  /\ ctx' = c /\ page' \in BoardPage /\ page'.at = pg.at /\ page'.first = pg.first
         /\ overrides' \in [Panels -> Choice] /\ panel' \in [Panels -> ChartType]
         /\ overrides' \in {over, Board!NoOverrides}
         /\ (ctx.mixed => c.mixed) => overrides' = over
         /\ \A p \in Panels :
              GivenTo(p)' \in Offered /\ panel'[p] = Board!Sync(charts[p], GivenTo(p)')
<1>. DEFINE kept == IF ctx.mixed /\ ~c.mixed THEN Board!NoOverrides ELSE over
            prop(p) == IF kept[p] = None THEN c.global ELSE kept[p]
            next == [p \in Panels |-> Board!Sync(charts[p], prop(p))]
<1>1. ctx' = c /\ overrides' = kept /\ panel' = next BY DEF Board!Render
<1>2. page' = pg \/ page' = [pg EXCEPT !.loads = @ + 1] BY DEF Board!Render
<1>3. page' \in BoardPage /\ page'.at = pg.at /\ page'.first = pg.first BY <1>2 DEF BoardPage
<1>4. kept \in [Panels -> Choice] BY DEF Board!NoOverrides, Choice
<1>5. ASSUME NEW p \in Panels
      PROVE  /\ prop(p) \in Offered /\ GivenTo(p)' = prop(p)
             /\ next[p] = Board!Sync(charts[p], prop(p)) /\ next[p] \in ChartType
  <2>1. prop(p) \in Offered BY <1>4, <1>5 DEF Choice, ContextType
  <2>2. GivenTo(p)' = prop(p) BY <1>1 DEF GivenTo
  <2>3. next[p] = Board!Sync(charts[p], prop(p)) BY <1>5
  <2>4. Board!Sync(charts[p], prop(p)) \in ChartType BY <2>1, <1>5, SyncTyped
  <2>. QED BY <2>1, <2>2, <2>3, <2>4
<1>6. next \in [Panels -> ChartType] BY <1>5
<1>7. kept \in {over, Board!NoOverrides} /\ ((ctx.mixed => c.mixed) => kept = over) OBVIOUS
<1>. HIDE DEF kept, next
<1>. QED BY <1>1, <1>3, <1>4, <1>5, <1>6, <1>7

(* After a render every chart follows what the page gives it. *)
LEMMA Renders ==
  ASSUME NEW c \in ContextType, NEW over \in [Panels -> Choice],
         NEW charts \in [Panels -> ChartType], NEW pg \in BoardPage,
         \A p \in Panels : Renderable(c, over, charts[p], p),
         Board!Render(c, over, charts, pg)
  PROVE  \A p \in Panels : Following(p)'
<1>. SUFFICES ASSUME NEW p \in Panels PROVE Following(p)' OBVIOUS
<1>. DEFINE one == charts[p]
<1>1. GivenTo(p)' \in Offered /\ panel'[p] = Board!Sync(one, GivenTo(p)') BY RendersTyped
<1>2. overrides'[p] = None \/ overrides'[p] = over[p] BY RendersTyped DEF Board!NoOverrides
<1>3. (ctx.mixed => c.mixed) => overrides'[p] = over[p] BY RendersTyped
<1>4. one \in ChartType /\ Renderable(c, over, one, p) OBVIOUS
<1>5. CASE one.prev \in {None, GivenTo(p)'}
  <2>1. panel'[p] = one BY <1>1, <1>5 DEF Board!Sync
  <2>2. one.prev = GivenTo(p)' BY BoardAssumption, <1>4, <1>5 DEF Renderable
  <2>3. CASE one.local = one.prev BY <2>1, <2>2, <2>3 DEF Following
  <2>4. CASE over[p] = one.local /\ over[p] # None /\ (ctx.mixed => c.mixed)
    <3>1. one.local = GivenTo(p)' BY <1>3, <2>4 DEF GivenTo
    <3>. QED BY <3>1, <2>1, <2>2 DEF Following
  <2>5. CASE over[p] = None /\ one.local = Board!Default(p)
    BY <2>1, <2>2, <2>5, <1>2 DEF Following
  <2>. QED BY <1>4, <2>3, <2>4, <2>5 DEF Renderable
<1>6. CASE one.prev \notin {None, GivenTo(p)'}
  <2>1. panel'[p] = [one EXCEPT !.local = GivenTo(p)', !.prev = GivenTo(p)']
    BY <1>1, <1>6 DEF Board!Sync
  <2>2. panel'[p].local = GivenTo(p)' /\ panel'[p].prev = GivenTo(p)'
    BY <2>1, <1>4 DEF ChartType
  <2>. QED BY <2>2 DEF Following
<1>. QED BY <1>5, <1>6

(* A render of charts as they were, be they shown or not. *)
LEMMA RendersShown ==
  ASSUME BoardInv, NEW c \in ContextType,
         Board!Render(c, overrides, panel, page), clicks' \in Nat
  PROVE  BoardInv' /\ ctx' = c
<1>1. /\ ctx' = c /\ page' \in BoardPage /\ page'.at = page.at /\ page'.first = page.first
      /\ overrides' \in [Panels -> Choice] /\ panel' \in [Panels -> ChartType]
      /\ overrides' \in {overrides, Board!NoOverrides}
  BY RendersTyped DEF BoardInv, BoardTyped
<1>2. ASSUME Board!Shown PROVE \A p \in Panels : Following(p)'
  <2>1. \A p \in Panels : Renderable(c, overrides, panel[p], p)
    BY <1>2 DEF BoardInv, ChartsFollow, BoardTyped, Following, GivenTo, Renderable, Choice,
        ContextType
  <2>. QED BY <2>1, Renders DEF BoardInv, BoardTyped
<1>. QED BY <1>1, <1>2 DEF BoardInv, BoardTyped, ChartsFollow, AppliedOnce, Board!Shown

(* A click on one panel that the render follows. *)
LEMMA RendersChosen ==
  ASSUME BoardInv, Board!Shown, NEW p \in Panels, NEW c \in ContextType,
         NEW over \in [Panels -> Choice], NEW one \in ChartType,
         ctx.mixed => c.mixed, one.prev = panel[p].prev,
         Renderable(c, over, one, p), \A q \in Panels \ {p} : over[q] = overrides[q],
         Board!Render(c, over, [panel EXCEPT ![p] = one], page), clicks' \in Nat
  PROVE  BoardInv'
<1>. DEFINE charts == [panel EXCEPT ![p] = one]
<1>1. charts \in [Panels -> ChartType] BY DEF BoardInv, BoardTyped
<1>2. ASSUME NEW q \in Panels PROVE Renderable(c, over, charts[q], q)
  <2>1. CASE q = p BY <2>1 DEF BoardInv, BoardTyped
  <2>2. CASE q # p
    <3>1. charts[q] = panel[q] /\ over[q] = overrides[q] BY <1>2, <2>2 DEF BoardInv, BoardTyped
    <3>2. Following(q) /\ GivenTo(q) \in Offered
      BY <1>2 DEF BoardInv, ChartsFollow, BoardTyped, GivenTo, Choice, ContextType
    <3>. QED BY <3>1, <3>2 DEF Renderable, Following
  <2>. QED BY <2>1, <2>2
<1>3. /\ page' \in BoardPage /\ page'.at = page.at /\ page'.first = page.first /\ ctx' = c
      /\ overrides' \in [Panels -> Choice] /\ panel' \in [Panels -> ChartType]
  BY <1>1, RendersTyped DEF BoardInv, BoardTyped
<1>4. \A q \in Panels : Following(q)' BY <1>1, <1>2, Renders DEF BoardInv, BoardTyped
<1>. QED BY <1>3, <1>4 DEF BoardInv, BoardTyped, ChartsFollow, AppliedOnce, Board!Shown

(* A step that changes nothing of the charts but their zoom and data. *)
LEMMA ChartsStay ==
  ASSUME BoardInv, UNCHANGED <<ctx, overrides>>, page' \in BoardPage, clicks' \in Nat,
         Board!Shown' <=> Board!Shown, page'.first = page.first, panel' \in [Panels -> ChartType],
         \A p \in Panels : panel'[p].local = panel[p].local /\ panel'[p].prev = panel[p].prev
  PROVE  BoardInv'
<1>1. \A p \in Panels : Following(p) => Following(p)' BY DEF Following, GivenTo
<1>. QED BY <1>1 DEF BoardInv, BoardTyped, ChartsFollow, AppliedOnce

(* Before the first visit nothing is shown. *)
LEMMA BoardStarts == ASSUME Board!Init PROVE BoardInv
  BY BoardAssumption DEF Board!Init, BoardInv, BoardTyped, ChartsFollow, AppliedOnce,
      Board!Shown, Board!NoOverrides, Board!Unmounted,
         ContextType, BoardPage, ChartType, Choice

(* The dashboards arrive: the first time the page takes its timeframe from them. *)
LEMMA ShowStep == ASSUME BoardInv, Board!ShowDashboards PROVE BoardInv'
<1>. DEFINE snap == page.first /\ Configured # None
            c == IF snap THEN [global |-> Configured, mixed |-> FALSE] ELSE ctx
            charts == [p \in Panels |->
                         IF page.at = "shown" THEN panel[p] ELSE Board!Mount(p, c.global)]
            pg == [at |-> "shown", first |-> page.first /\ ~snap, loads |-> page.loads - 1]
<1>1. Board!Render(c, overrides, charts, pg) /\ clicks' = clicks /\ page.loads > 0
  BY DEF Board!ShowDashboards
<1>2. c \in ContextType BY BoardAssumption DEF BoardInv, BoardTyped, ContextType
<1>3. pg \in BoardPage /\ pg.at = "shown" /\ pg.first = (page.first /\ ~snap)
  BY <1>1 DEF BoardInv, BoardTyped, BoardPage
<1>4. ASSUME NEW p \in Panels
      PROVE  charts[p] \in ChartType /\ Renderable(c, overrides, charts[p], p)
  <2>1. CASE page.at = "shown"
    <3>1. charts[p] = panel[p] BY <2>1
    <3>2. Following(p) /\ GivenTo(p) \in Offered
      BY <1>4, <2>1 DEF BoardInv, ChartsFollow, Board!Shown, BoardTyped, GivenTo, Choice,
          ContextType
    <3>. QED BY <3>1, <3>2, <1>4 DEF BoardInv, BoardTyped, Renderable, Following
  <2>2. CASE page.at # "shown"
    <3>. DEFINE one == Board!Mount(p, c.global)
    <3>1. charts[p] = one BY <2>2, <1>4
    <3>2. overrides[p] = None BY <2>2, <1>4
        DEF BoardInv, ChartsFollow, Board!Shown, Board!NoOverrides
    <3>3. c.global \in Offered BY <1>2 DEF ContextType
    <3>4. /\ one \in ChartType /\ one.prev = c.global
          /\ one.local = (IF Board!Default(p) = None THEN c.global ELSE Board!Default(p))
      BY <3>3, DefaultIsChoice DEF Board!Mount, Board!Unmounted, ChartType, Choice
    <3>. HIDE DEF one
    <3>. QED BY <3>1, <3>2, <3>3, <3>4 DEF Renderable
  <2>. QED BY <2>1, <2>2
<1>5. charts \in [Panels -> ChartType] BY <1>4
<1>. HIDE DEF charts, c, pg
<1>6. /\ page' \in BoardPage /\ page'.at = pg.at /\ page'.first = pg.first /\ ctx' = c
      /\ overrides' \in [Panels -> Choice] /\ panel' \in [Panels -> ChartType]
  BY <1>1, <1>2, <1>3, <1>5, RendersTyped DEF BoardInv, BoardTyped
<1>7. \A p \in Panels : Following(p)'
  BY <1>1, <1>2, <1>3, <1>4, <1>5, Renders DEF BoardInv, BoardTyped
<1>8. page'.first => Configured = None BY <1>3, <1>6 DEF BoardInv, BoardTyped, BoardPage
<1>. QED BY <1>1, <1>2, <1>3, <1>6, <1>7, <1>8
    DEF BoardInv, BoardTyped, ChartsFollow, AppliedOnce, Board!Shown

(* A timeframe is picked for a chart, or for all of them. *)
LEMMA PickStep ==
  ASSUME BoardInv, NEW p \in Panels, NEW timeframe \in Offered,
         Board!PickPanel(p, timeframe)
  PROVE  BoardInv'
<1>. DEFINE c == [ctx EXCEPT !.mixed = @ \/ timeframe # ctx.global]
            over == [overrides EXCEPT ![p] = timeframe]
            one == [panel[p] EXCEPT !.local = timeframe, !.zoom = @ /\ p \in Board!KeepsZoom]
<1>1. Board!Shown /\ clicks' = clicks + 1
  BY DEF Board!PickPanel, Board!ClickPanel, Board!Click, Board!Shown
<1>2. [panel EXCEPT ![p].local = timeframe, ![p].zoom = @ /\ p \in Board!KeepsZoom]
        = [panel EXCEPT ![p] = one]
  BY DEF BoardInv, BoardTyped, ChartType
<1>3. Board!Render(c, over, [panel EXCEPT ![p] = one], page) BY <1>2, Zenon DEF Board!PickPanel
<1>4. c \in ContextType /\ (ctx.mixed => c.mixed) BY DEF BoardInv, BoardTyped, ContextType
<1>5. /\ over \in [Panels -> Choice] /\ over[p] = timeframe
      /\ \A q \in Panels \ {p} : over[q] = overrides[q]
  BY DEF BoardInv, BoardTyped, Choice
<1>6. one \in ChartType /\ one.prev = panel[p].prev /\ one.local = timeframe
  BY DEF BoardInv, BoardTyped, ChartType, Choice
<1>7. panel[p].prev \in Offered
  BY <1>1 DEF BoardInv, ChartsFollow, BoardTyped, Following, GivenTo, Choice, ContextType
<1>8. Renderable(c, over, one, p)
  BY BoardAssumption, <1>4, <1>5, <1>6, <1>7 DEF Renderable
<1>9. clicks' \in Nat BY <1>1 DEF BoardInv, BoardTyped
<1>. HIDE DEF c, over, one
<1>. QED BY <1>1, <1>3, <1>4, <1>5, <1>6, <1>8, <1>9, RendersChosen, Zenon

(* Zooming marks the dashboard as mixed, resetting leaves the mark. *)
LEMMA ZoomStep ==
  ASSUME BoardInv, NEW p \in Panels, NEW z \in BOOLEAN, NEW c \in ContextType,
         ctx.mixed => c.mixed, Board!Shown, clicks' \in Nat,
         Board!Render(c, overrides, [panel EXCEPT ![p].zoom = z], page)
  PROVE  BoardInv'
<1>. DEFINE one == [panel[p] EXCEPT !.zoom = z]
<1>1. Board!Render(c, overrides, [panel EXCEPT ![p] = one], page) BY Zenon
<1>2. one \in ChartType /\ one.prev = panel[p].prev /\ one.local = panel[p].local
  BY DEF BoardInv, BoardTyped, ChartType
<1>3. Following(p) /\ GivenTo(p) \in Offered
  BY DEF BoardInv, ChartsFollow, BoardTyped, GivenTo, Choice, ContextType
<1>4. Renderable(c, overrides, one, p) BY <1>2, <1>3 DEF Renderable, Following
<1>. HIDE DEF one
<1>. QED BY <1>1, <1>2, <1>4, RendersChosen DEF BoardInv, BoardTyped

(* Whatever the user does keeps the invariant. *)
LEMMA UserSteps == ASSUME BoardInv, Board!UserStep PROVE BoardInv'
<1>1. ASSUME NEW frame \in Offered, Board!PickGlobal(frame) PROVE BoardInv'
  <2>. DEFINE c == [global |-> frame, mixed |-> FALSE]
  <2>1. c \in ContextType BY DEF ContextType
  <2>2. Board!Render(c, overrides, panel, page) /\ clicks' = clicks + 1
    BY <1>1 DEF Board!PickGlobal, Board!Click
  <2>. HIDE DEF c
  <2>. QED BY <2>1, <2>2, RendersShown DEF BoardInv, BoardTyped
<1>2. ASSUME NEW frame \in Offered, NEW p \in Panels, Board!PickPanel(p, frame) PROVE BoardInv'
  BY <1>2, PickStep
<1>3. ASSUME NEW p \in Panels, Board!ZoomIn(p) PROVE BoardInv'
  <2>. DEFINE c == [ctx EXCEPT !.mixed = TRUE]
  <2>1. c \in ContextType /\ c.mixed BY DEF BoardInv, BoardTyped, ContextType
  <2>2. /\ Board!Render(c, overrides, [panel EXCEPT ![p].zoom = TRUE], page)
        /\ clicks' = clicks + 1 /\ Board!Shown
    BY <1>3 DEF Board!ZoomIn, Board!ClickPanel, Board!Click, Board!Shown
  <2>3. clicks' \in Nat /\ TRUE \in BOOLEAN /\ (ctx.mixed => c.mixed)
    BY <2>1, <2>2 DEF BoardInv, BoardTyped
  <2>. HIDE DEF c
  <2>. QED BY <2>1, <2>2, <2>3, <1>3, ZoomStep, Zenon
<1>4. ASSUME NEW p \in Panels, Board!ResetZoom(p) PROVE BoardInv'
  <2>1. /\ Board!Render(ctx, overrides, [panel EXCEPT ![p].zoom = FALSE], page)
        /\ clicks' = clicks + 1 /\ Board!Shown
    BY <1>4 DEF Board!ResetZoom, Board!ClickPanel, Board!Click, Board!Shown
  <2>2. clicks' \in Nat /\ FALSE \in BOOLEAN /\ ctx \in ContextType
    BY <2>1 DEF BoardInv, BoardTyped
  <2>. QED BY <2>1, <2>2, <1>4, ZoomStep, Zenon
<1>5. CASE Board!TogglePause
  BY <1>5, ChartsStay DEF Board!TogglePause, Board!Click, BoardInv, BoardTyped, Board!Shown
<1>6. CASE Board!ManualRefresh
  BY <1>6, ChartsStay DEF Board!ManualRefresh, Board!Query, Board!Click, BoardInv, BoardTyped,
      Board!Shown
<1>7. CASE Board!Leave
  <2>1. /\ page' \in BoardPage /\ ~Board!Shown' /\ overrides' = Board!NoOverrides /\ ctx' = ctx
        /\ clicks' = clicks + 1
    BY <1>7 DEF Board!Leave, Board!Unmount, Board!Click, Board!Shown, BoardInv, BoardTyped,
        BoardPage
  <2>2. panel' \in [Panels -> ChartType] /\ overrides' \in [Panels -> Choice]
    BY <1>7 DEF Board!Leave, Board!Unmount, Board!Unmounted, Board!NoOverrides, ChartType, Choice
  <2>. QED BY <2>1, <2>2 DEF BoardInv, BoardTyped, ChartsFollow, AppliedOnce
<1>8. CASE Board!Enter
  <2>1. page' \in BoardPage /\ ~Board!Shown' /\ ~Board!Shown
    BY <1>8 DEF Board!Enter, Board!Shown, BoardPage
  <2>. QED BY <1>8, <2>1 DEF Board!Enter, BoardInv, BoardTyped, ChartsFollow, AppliedOnce
<1>. QED BY <1>1, <1>2, <1>3, <1>4, <1>5, <1>6, <1>7, <1>8 DEF Board!UserStep

(* So does every other step of the page. *)
LEMMA BoardStep == ASSUME BoardInv, [Board!Next]_boardVars PROVE BoardInv'
<1>1. CASE Board!DashboardsArrive BY <1>1, ChartsStay
    DEF Board!DashboardsArrive, BoardInv, BoardTyped, Board!Shown
<1>2. CASE Board!DashboardsFail
  <2>1. page' \in BoardPage /\ (Board!Shown' <=> Board!Shown) /\ page'.first = page.first
    BY <1>2 DEF Board!DashboardsFail, BoardInv, BoardTyped, BoardPage, Board!Shown
  <2>. QED BY <1>2, <2>1, ChartsStay DEF Board!DashboardsFail, BoardInv, BoardTyped
<1>3. CASE Board!ShowDashboards BY <1>3, ShowStep
<1>4. CASE Board!UserStep BY <1>4, UserSteps
<1>5. ASSUME NEW p \in Panels, Board!Refresh(p) PROVE BoardInv'
  BY <1>5, ChartsStay DEF Board!Refresh, Board!Query, BoardInv, BoardTyped, Board!Shown
<1>6. ASSUME NEW p \in Panels, NEW r \in Board!Ranges, Board!Answer(p, r) PROVE BoardInv'
  <2>1. panel' = [panel EXCEPT ![p] = [panel[p] EXCEPT !.data = r]]
    BY <1>6, Zenon DEF Board!Answer
  <2>2. /\ [panel[p] EXCEPT !.data = r] \in ChartType
        /\ [panel[p] EXCEPT !.data = r].local = panel[p].local
        /\ [panel[p] EXCEPT !.data = r].prev = panel[p].prev
    BY <1>6 DEF BoardInv, BoardTyped, ChartType
  <2>3. /\ panel' \in [Panels -> ChartType]
        /\ \A q \in Panels : panel'[q].local = panel[q].local /\ panel'[q].prev = panel[q].prev
    BY <2>1, <2>2 DEF BoardInv, BoardTyped
  <2>. QED BY <1>6, <2>3, ChartsStay
      DEF Board!Answer, Board!QueryEnds, BoardInv, BoardTyped, Board!Shown
<1>7. ASSUME NEW p \in Panels, NEW r \in Board!Ranges, Board!QueryFails(p, r) PROVE BoardInv'
  BY <1>7, ChartsStay DEF Board!QueryFails, Board!QueryEnds, BoardInv, BoardTyped, Board!Shown
<1>8. CASE UNCHANGED boardVars BY <1>8, ChartsStay DEF boardVars, BoardInv, BoardTyped, Board!Shown
<1>. QED BY <1>1, <1>2, <1>3, <1>4, <1>5, <1>6, <1>7, <1>8 DEF Board!Next

-----------------------------------------------------------------------------
(* A step of the whole is a step of the dashboard or leaves it alone. *)
LEMMA BoardSteps == [WebNext]_webVars => [Board!Next]_boardVars
  BY DEF WebNext, webVars

(* What a chart shows as its timeframe is what the dashboard holds for it,   *)
(* or its own default (useSyncedTimeframe, panelTimeframes): each chart has  *)
(* followed the timeframe it was last given.                                 *)
THEOREM PanelsFollow == WebSpec => []PanelInStep
<1>1. WebInit => BoardInv BY BoardStarts DEF WebInit
<1>2. BoardInv /\ [WebNext]_webVars => BoardInv' BY BoardStep, BoardSteps
<1>3. BoardInv => PanelInStep BY
    DEF BoardInv, ChartsFollow, Following, GivenTo, Board!PanelInStep, PanelInStep
<1>. QED BY <1>1, <1>2, <1>3, PTL DEF WebSpec

(* "Only set global timeframe once on mount to prevent snapping back": while *)
(* the panels are shown only clicks change the global timeframe.             *)
THEOREM NothingSnapsBack == WebSpec => NoSnapBack
<1>. DEFINE OnlyClicks == Board!Shown /\ ctx'.global # ctx.global => clicks' > clicks
<1>1. WebInit => BoardInv BY BoardStarts DEF WebInit
<1>2. BoardInv /\ [WebNext]_webVars => BoardInv' BY BoardStep, BoardSteps
<1>3. ASSUME BoardInv, Board!Next PROVE OnlyClicks
  <2>1. CASE Board!ShowDashboards
    <3>1. Board!Shown => ctx' = ctx
      BY <2>1, <1>3 DEF Board!ShowDashboards, Board!Render, BoardInv, AppliedOnce, Board!Shown
    <3>. QED BY <3>1
  <2>2. CASE Board!UserStep
    <3>1. clicks' = clicks + 1 \/ ~Board!Shown
      BY <2>2 DEF Board!UserStep, Board!PickGlobal, Board!PickPanel, Board!ZoomIn,
          Board!ResetZoom, Board!TogglePause,
                  Board!ManualRefresh, Board!Leave, Board!Enter, Board!ClickPanel, Board!Click,
                  Board!Shown
    <3>. QED BY <3>1, <1>3 DEF BoardInv, BoardTyped
  <2>3. CASE ~Board!ShowDashboards /\ ~Board!UserStep
    <3>1. ctx' = ctx
      BY <1>3, <2>3 DEF Board!Next, Board!DashboardsArrive, Board!DashboardsFail,
          Board!Refresh, Board!Query, Board!Answer,
                        Board!QueryFails, Board!QueryEnds
    <3>. QED BY <3>1
  <2>. QED BY <2>1, <2>2, <2>3
<1>. QED BY <1>1, <1>2, <1>3, BoardSteps, PTL
    DEF WebSpec, NoSnapBack, Board!NoSnapBack, Board!vars, boardVars

-----------------------------------------------------------------------------
(* The file and the copy in memory are the same except while a save is being *)
(* written or after it broke off; then the file is a part of what was saved. *)

SaveType == [at : {"none", "posted", "writing", "stored", "failed"}, posted : LabelSets]

DiskInv ==
  /\ memory \in LabelSets /\ file \in LabelSets
  /\ save \in [Tabs -> SaveType]
  /\ torn \in LabelSets \cup {NoAttempt}
  /\ torn = NoAttempt => file = memory
  /\ torn # NoAttempt => file \in Parts(torn)
  /\ \A t \in Tabs : save[t].at = "writing" => torn = save[t].posted
  /\ \A t, u \in Tabs : save[t].at = "writing" /\ save[u].at = "writing" => t = u

(* The empty file is a part of whatever is saved. *)
LEMMA EmptyPart ==
  ASSUME NEW l \in LabelSets
  PROVE  NoLabels \in LabelSets /\ NoLabels \in Parts(l)
<1>1. NoLabels \in LabelSets
  BY DEF NoLabels, LabelSets
<1>2. \A k \in Keys : NoLabels[k] = Absent
  BY DEF NoLabels
<1> QED
  BY <1>1, <1>2 DEF Parts

(* No labels are NoAttempt. *)
LEMMA AttemptsAreLabels == NoAttempt \notin LabelSets
  BY LabelsAssumption DEF LabelSets

(* What the server keeps of a save is a set of labels. *)
LEMMA CleanedLabels ==
  ASSUME NEW l, NEW c \in Cleaned(l)
  PROVE  c \in LabelSets
  BY DEF Cleaned

(* The register begins as the file does. *)
LEMMA DiskInit == LabelsInit => DiskInv
<1> SUFFICES ASSUME LabelsInit PROVE DiskInv
  OBVIOUS
<1>1. file \in LabelSets /\ memory = file
  BY LabelsAssumption DEF LabelsInit
<1>2. NoLabels \in LabelSets
  BY DEF NoLabels, LabelSets
<1>3. NoSave \in SaveType /\ NoSave.at = "none"
  BY <1>2 DEF NoSave, SaveType
<1>4. save = [t \in Tabs |-> NoSave] /\ torn = NoAttempt
  BY DEF LabelsInit
<1> QED
  BY <1>1, <1>3, <1>4 DEF DiskInv

(* Steps that leave the disk alone and put at most one save out of writing   *)
(* or into another state.                                                    *)
LEMMA DiskKept ==
  ASSUME DiskInv, UNCHANGED diskVars,
         NEW t \in Tabs, NEW s \in SaveType, s.at # "writing",
         save' = [save EXCEPT ![t] = s]
  PROVE  DiskInv'
<1>1. memory' = memory /\ file' = file /\ torn' = torn
  BY DEF diskVars
<1>2. save' \in [Tabs -> SaveType]
  BY DEF DiskInv
<1>3. \A u \in Tabs : save'[u].at = "writing" => u # t /\ save'[u] = save[u]
  BY DEF DiskInv
<1> QED
  BY <1>1, <1>2, <1>3 DEF DiskInv

(* The same for a save that becomes another one step further on. *)
LEMMA SaveTyped ==
  ASSUME DiskInv, NEW t \in Tabs,
         NEW a \in {"none", "posted", "writing", "stored", "failed"}
  PROVE  /\ save[t].posted \in LabelSets
         /\ [save[t] EXCEPT !.at = a] \in SaveType
         /\ [save[t] EXCEPT !.at = a].at = a
         /\ [save[t] EXCEPT !.at = a].posted = save[t].posted
<1>1. save[t] \in SaveType
  BY DEF DiskInv
<1> QED
  BY <1>1 DEF SaveType

(* Its action replaced, without writing. *)
LEMMA SaveMoves ==
  ASSUME DiskInv, UNCHANGED diskVars, NEW t \in Tabs,
         NEW a \in {"none", "posted", "stored", "failed"},
         save' = [save EXCEPT ![t].at = a]
  PROVE  DiskInv'
<1> DEFINE s == [save[t] EXCEPT !.at = a]
<1>1. s \in SaveType /\ s.at = a
  BY SaveTyped
<1>2. save' = [save EXCEPT ![t] = s]
  OBVIOUS
<1> HIDE DEF s
<1> QED
  BY <1>1, <1>2, DiskKept

(* The same with the disk replaced, by the tab that writes. *)
LEMMA WriterMoves ==
  ASSUME DiskInv, NEW t \in Tabs,
         NEW a \in {"writing", "stored", "failed"},
         \A u \in Tabs \ {t} : save[u].at # "writing",
         save' = [save EXCEPT ![t].at = a]
  PROVE  /\ save' \in [Tabs -> SaveType]
         /\ save'[t].at = a /\ save'[t].posted = save[t].posted
         /\ \A u \in Tabs \ {t} : save'[u].at # "writing"
<1> DEFINE s == [save[t] EXCEPT !.at = a]
<1>1. s \in SaveType /\ s.at = a /\ s.posted = save[t].posted
  BY SaveTyped
<1>2. save' = [save EXCEPT ![t] = s] /\ save \in [Tabs -> SaveType]
  BY DEF DiskInv
<1> HIDE DEF s
<1> QED
  BY <1>1, <1>2

(* The file is opened for writing, which empties it. *)
LEMMA TruncatesKeepsDisk ==
  ASSUME DiskInv, NEW t \in Tabs, SaveTruncates(t)
  PROVE  DiskInv'
<1>1. save[t].posted \in LabelSets
  BY SaveTyped
<1>2. \A u \in Tabs \ {t} : save[u].at # "writing"
  BY DEF SaveTruncates, Locked
<1>3. /\ save' = [save EXCEPT ![t].at = "writing"] /\ memory' = memory
      /\ file' = NoLabels /\ torn' = save[t].posted
  BY DEF SaveTruncates
<1>4. /\ save' \in [Tabs -> SaveType] /\ save'[t].posted = save[t].posted
      /\ \A u \in Tabs \ {t} : save'[u].at # "writing"
  BY <1>2, <1>3, WriterMoves
<1>5. file' \in LabelSets /\ file' \in Parts(save[t].posted)
  BY <1>1, <1>3, EmptyPart
<1>6. file' \in Parts(torn)'
  BY <1>3, <1>5 DEF Parts, LabelSets
<1>7. torn' # NoAttempt /\ memory' \in LabelSets
  BY <1>1, <1>3, AttemptsAreLabels DEF DiskInv
<1> QED
  BY <1>1, <1>3, <1>4, <1>5, <1>6, <1>7 DEF DiskInv, LabelSets

(* The write breaks off, and a part of the save stays. *)
LEMMA BreaksKeepsDisk ==
  ASSUME DiskInv, NEW t \in Tabs, SaveBreaks(t)
  PROVE  DiskInv'
<1>1. save[t].at = "writing" /\ save[t].posted \in LabelSets
  BY SaveTyped DEF SaveBreaks
<1>2. torn = save[t].posted /\ \A u \in Tabs \ {t} : save[u].at # "writing"
  BY <1>1 DEF DiskInv
<1>3. /\ save' = [save EXCEPT ![t].at = "failed"] /\ memory' = memory /\ torn' = torn
      /\ file' \in Parts(torn)
  BY <1>2 DEF SaveBreaks
<1>4. /\ save' \in [Tabs -> SaveType] /\ save'[t].at = "failed"
      /\ \A u \in Tabs \ {t} : save'[u].at # "writing"
  BY <1>2, <1>3, WriterMoves
<1>5. file' \in LabelSets /\ file' \in Parts(torn)'
  BY <1>3 DEF Parts, LabelSets
<1>6. torn' \in LabelSets /\ torn' # NoAttempt /\ memory' \in LabelSets
  BY <1>1, <1>2, <1>3, AttemptsAreLabels DEF DiskInv
<1> QED
  BY <1>4, <1>5, <1>6 DEF DiskInv, LabelSets

(* The write ends, and the copy in memory follows. *)
LEMMA WritesKeepsDisk ==
  ASSUME DiskInv, NEW t \in Tabs, SaveWrites(t)
  PROVE  DiskInv'
<1>1. save[t].at = "writing" /\ save[t].posted \in LabelSets
  BY SaveTyped DEF SaveWrites
<1>2. \A u \in Tabs \ {t} : save[u].at # "writing"
  BY <1>1 DEF DiskInv
<1>3. /\ save' = [save EXCEPT ![t].at = "stored"] /\ torn' = NoAttempt
      /\ file' = save[t].posted /\ memory' = save[t].posted
  BY DEF SaveWrites
<1>4. /\ save' \in [Tabs -> SaveType] /\ save'[t].at = "stored"
      /\ \A u \in Tabs \ {t} : save'[u].at # "writing"
  BY <1>2, <1>3, WriterMoves
<1> QED
  BY <1>1, <1>3, <1>4 DEF DiskInv, LabelSets

(* A restart reads whatever the file then holds. *)
LEMMA RestartKeepsDisk ==
  ASSUME DiskInv, Restart
  PROVE  DiskInv'
<1>1. file' = file /\ memory' = file /\ torn' = NoAttempt /\ file \in LabelSets
  BY DEF Restart, DiskInv
<1>2. \A t \in Tabs : save'[t] \in SaveType /\ save'[t].at # "writing"
  <2> SUFFICES ASSUME NEW t \in Tabs PROVE save'[t] \in SaveType /\ save'[t].at # "writing"
    OBVIOUS
  <2>1. save'[t] = IF save[t].at \in {"posted", "writing", "stored"}
                     THEN [save[t] EXCEPT !.at = "failed"] ELSE save[t]
    BY DEF Restart
  <2>2. save[t] \in SaveType
    BY DEF DiskInv
  <2> QED
    BY <2>1, <2>2, SaveTyped DEF SaveType
<1>3. save' \in [Tabs -> SaveType]
  <2>1. \E f : save' = [t \in Tabs |-> f[t]]
    <3> DEFINE f == [t \in Tabs |-> IF save[t].at \in {"posted", "writing", "stored"}
                     THEN [save[t] EXCEPT !.at = "failed"] ELSE save[t]]
    <3>1. save' = f
      BY DEF Restart
    <3>2. f = [t \in Tabs |-> f[t]]
      OBVIOUS
    <3> HIDE DEF f
    <3> QED
      BY <3>1, <3>2
  <2> QED
    BY <2>1, <1>2
<1> QED
  BY <1>1, <1>2, <1>3 DEF DiskInv, LabelSets

(* Every other action leaves the disk and the writing alone. *)
LEMMA OthersKeepDisk ==
  ASSUME DiskInv, NEW t \in Tabs,
         \/ SaveRefused(t) \/ FetchLabels(t) \/ FetchReadOnly(t) \/ FetchFails(t)
         \/ HandleAdd(t) \/ HandleSave(t) \/ SaveLost(t) \/ SaveFailed(t) \/ SaveDone(t)
         \/ \E k \in Keys : \/ HandleDelete(t, k)
                            \/ \E l \in Keys : HandleUpdateKey(t, k, l)
                            \/ \E text \in Texts : HandleUpdateValue(t, k, text)
  PROVE  DiskInv' /\ UNCHANGED diskVars
<1>0. NoSave \in SaveType /\ NoSave.at = "none"
  BY EmptyPart, LabelsAssumption DEF NoSave, SaveType, NoLabels, LabelSets
<1>1. CASE SaveRefused(t)
  BY <1>1, SaveMoves DEF SaveRefused
<1>2. CASE SaveLost(t)
  BY <1>2, SaveMoves DEF SaveLost
<1>3. CASE SaveFailed(t)
  <2>1. UNCHANGED diskVars /\ save' = [save EXCEPT ![t] = NoSave]
    BY <1>3 DEF SaveFailed
  <2> QED
    BY <2>1, <1>0, DiskKept
<1>4. CASE SaveDone(t)
  <2>1. UNCHANGED diskVars /\ save' = [save EXCEPT ![t] = NoSave]
    BY <1>4 DEF SaveDone
  <2> QED
    BY <2>1, <1>0, DiskKept
<1>5. CASE HandleSave(t)
  <2>1. PICK c \in Cleaned(tab[t].labels) :
          UNCHANGED diskVars /\ save' = [save EXCEPT ![t] = [at |-> "posted", posted |-> c]]
    BY <1>5 DEF HandleSave
  <2> DEFINE s == [at |-> "posted", posted |-> c]
  <2>2. s \in SaveType /\ s.at # "writing"
    BY CleanedLabels DEF SaveType
  <2>3. UNCHANGED diskVars /\ save' = [save EXCEPT ![t] = s]
    BY <2>1
  <2> HIDE DEF s
  <2> QED
    BY <2>2, <2>3, DiskKept
<1>6. CASE UNCHANGED <<diskVars, save>>
  BY <1>6 DEF DiskInv, diskVars, LabelSets, Parts
<1>7. CASE FetchLabels(t) \/ FetchReadOnly(t) \/ FetchFails(t)
  BY <1>6, <1>7 DEF FetchLabels, FetchReadOnly, FetchFails, Load
<1>8. CASE HandleAdd(t)
  BY <1>6, <1>8 DEF HandleAdd, Edit
<1>9. ASSUME NEW k \in Keys,
             \/ HandleDelete(t, k)
             \/ \E l \in Keys : HandleUpdateKey(t, k, l)
             \/ \E text \in Texts : HandleUpdateValue(t, k, text)
      PROVE  DiskInv' /\ UNCHANGED diskVars
  BY <1>6, <1>9 DEF HandleDelete, HandleUpdateKey, HandleUpdateValue, Edit
<1> QED
  BY <1>1, <1>2, <1>3, <1>4, <1>5, <1>7, <1>8, <1>9 DEF SaveRefused, SaveLost

-----------------------------------------------------------------------------
(* What each step is of the register, and that it keeps DiskInv. *)

(* Every step of the labels keeps DiskInv. *)
LEMMA DiskStep ==
  ASSUME DiskInv, [LabelsNext]_labelVars
  PROVE  /\ DiskInv'
         /\ [Register!RegisterNext]_(Register!registerVars)
<1> USE DEF Register!registerVars
<1>1. CASE Restart
  <2>1. memory' = file /\ torn' = NoAttempt
    BY <1>1 DEF Restart
  <2>2. CASE torn = NoAttempt
    <3>1. memory' = memory /\ torn' = torn
      BY <2>1, <2>2 DEF DiskInv
    <3> QED
      BY <1>1, <3>1, RestartKeepsDisk
  <2>3. CASE torn # NoAttempt
    <3>1. file \in Parts(torn)
      BY <2>3 DEF DiskInv
    <3>2. Register!Lose
      BY <2>1, <2>3, <3>1 DEF Register!Lose, Register!Parts, Register!LabelSets, Parts, LabelSets
    <3> QED
      BY <1>1, <3>2, RestartKeepsDisk DEF Register!RegisterNext
  <2> QED
    BY <2>2, <2>3
<1>2. ASSUME NEW t \in Tabs, SaveTruncates(t)
      PROVE  DiskInv' /\ Register!Try
  <2>1. torn' = save[t].posted /\ memory' = memory /\ save[t].posted \in LabelSets
    BY <1>2, SaveTyped DEF SaveTruncates
  <2> QED
    BY <1>2, <2>1, TruncatesKeepsDisk DEF Register!Try, Register!LabelSets, LabelSets
<1>3. ASSUME NEW t \in Tabs, SaveBreaks(t)
      PROVE  DiskInv' /\ UNCHANGED <<memory, torn>>
  BY <1>3, BreaksKeepsDisk DEF SaveBreaks
<1>4. ASSUME NEW t \in Tabs, SaveWrites(t)
      PROVE  DiskInv' /\ Register!Store
  <2>1. save[t].at = "writing" /\ torn' = NoAttempt /\ memory' = save[t].posted
    BY <1>4 DEF SaveWrites
  <2>2. torn = save[t].posted /\ torn # NoAttempt
    BY <2>1, SaveTyped, AttemptsAreLabels DEF DiskInv
  <2> QED
    BY <1>4, <2>1, <2>2, WritesKeepsDisk DEF Register!Store
<1>5. CASE UNCHANGED labelVars
  BY <1>5 DEF DiskInv, labelVars, LabelSets, Parts
<1>6. ASSUME NEW t \in Tabs,
             \/ SaveRefused(t) \/ FetchLabels(t) \/ FetchReadOnly(t) \/ FetchFails(t)
             \/ HandleAdd(t) \/ HandleSave(t) \/ SaveLost(t) \/ SaveFailed(t) \/ SaveDone(t)
             \/ \E k \in Keys : \/ HandleDelete(t, k)
                                \/ \E l \in Keys : HandleUpdateKey(t, k, l)
                                \/ \E text \in Texts : HandleUpdateValue(t, k, text)
      PROVE  DiskInv' /\ UNCHANGED <<memory, torn>>
  BY <1>6, OthersKeepDisk DEF diskVars
<1> QED
  BY <1>1, <1>2, <1>3, <1>4, <1>5, <1>6 DEF LabelsNext, Register!RegisterNext

(* The file and memory agree, or the file is a part of the save that is not  *)
(* known to be there, and only one tab writes (LabelManager.Save).           *)
THEOREM DiskCorrect == LabelsSpec => []DiskInv
<1>1. DiskInv /\ [LabelsNext]_labelVars => DiskInv'
  BY DiskStep
<1> QED
  BY DiskInit, <1>1, PTL DEF LabelsSpec

(* The labels are the register: readers see the last save that succeeded,    *)
(* for any tabs, labels and order of saves, failures and restarts            *)
(* (internal/config/labels.go).                                              *)
THEOREM RegisterImplemented == LabelsSpec => LabelsAreRegister
<1>1. LabelsInit => Register!RegisterInit
  BY DiskInit DEF LabelsInit, DiskInv, Register!RegisterInit, Register!LabelSets, LabelSets
<1>2. DiskInv /\ [LabelsNext]_labelVars => [Register!RegisterNext]_(Register!registerVars)
  BY DiskStep
<1> QED
  BY <1>1, <1>2, DiskCorrect, PTL DEF LabelsSpec, LabelsAreRegister, Register!RegisterSpec

-----------------------------------------------------------------------------
(* Labels that have been trimmed: what the page posts, and so everything the *)
(* file, the memory and the pages hold, once the first file is like that.    *)

Tidy(labels) == \A k \in Keys : labels[k] # Absent => Trim[k] = k /\ k # Nameless

TabType == [loading : BOOLEAN, writable : BOOLEAN, labels : LabelSets, dirty : BOOLEAN,
            loaded : LabelSets, edited : SUBSET Keys, missed : BOOLEAN]

(* The form differs from what was loaded only in keys that become an edited  *)
(* one, and what is being saved differs only in edited keys.                 *)
TabGood(b) ==
  /\ Tidy(b.loaded)
  /\ \A l \in Keys : Trim[l] \notin b.edited => b.labels[l] = b.loaded[l]
SaveGood(s, b) ==
  s.at # "none" => /\ ~b.loading /\ Tidy(s.posted)
                   /\ \A k \in Keys : k \notin b.edited => s.posted[k] = b.loaded[k]

EditInv ==
  /\ DiskInv
  /\ Tidy(memory) /\ Tidy(file) /\ (torn # NoAttempt => Tidy(torn))
  /\ tab \in [Tabs -> TabType]
  /\ \A t \in Tabs : TabGood(tab[t]) /\ SaveGood(save[t], tab[t])

(* A part of trimmed labels is trimmed. *)
LEMMA TidyParts ==
  ASSUME NEW l, Tidy(l), NEW p \in Parts(l)
  PROVE  Tidy(p)
  BY DEF Tidy, Parts

(* No labels at all are tidy. *)
LEMMA TidyNone == Tidy(NoLabels)
  BY DEF Tidy, NoLabels

(* What is posted is trimmed, and is what was loaded but for edited keys. *)
LEMMA CleanedTidy ==
  ASSUME NEW b \in TabType, TabGood(b), NEW c \in Cleaned(b.labels)
  PROVE  /\ Tidy(c)
         /\ \A k \in Keys : k \notin b.edited => c[k] = b.loaded[k]
<1> DEFINE Same(k) == {l \in Keys : Trim[l] = k /\ k # Nameless /\ b.labels[l] # Absent}
<1>1. \A k \in Keys : IF Same(k) = {} THEN c[k] = Absent
                                     ELSE c[k] \in {b.labels[l] : l \in Same(k)}
  BY DEF Cleaned
<1>2. Tidy(c)
  <2> SUFFICES ASSUME NEW k \in Keys, c[k] # Absent PROVE Trim[k] = k /\ k # Nameless
    BY DEF Tidy
  <2>1. PICK l \in Keys : Trim[l] = k /\ k # Nameless
    BY <1>1
  <2> QED
    BY <2>1, LabelsAssumption
<1>3. ASSUME NEW k \in Keys, k \notin b.edited
      PROVE  c[k] = b.loaded[k]
  <2>1. \A l \in Keys : Trim[l] = k => b.labels[l] = b.loaded[l]
    BY <1>3 DEF TabGood
  <2>2. \A l \in Same(k) : l = k
    BY <2>1 DEF TabGood, Tidy
  <2>3. b.loaded[k] # Absent => k \in Same(k)
    BY <2>1 DEF TabGood, Tidy
  <2>4. CASE Same(k) = {}
    BY <1>1, <2>3, <2>4
  <2>5. CASE Same(k) # {}
    <3>1. k \in Same(k) /\ c[k] \in {b.labels[l] : l \in Same(k)}
      BY <1>1, <2>2, <2>5
    <3>2. c[k] = b.labels[k] /\ b.labels[k] = b.loaded[k]
      BY <3>1, <2>1, <2>2
    <3> QED
      BY <3>2
  <2> QED
    BY <2>4, <2>5
<1> QED
  BY <1>2, <1>3

(* At the start nothing is edited. *)
LEMMA EditInit == LabelsInit /\ (\A l \in Files : Tidy(l)) => EditInv
<1> SUFFICES ASSUME LabelsInit, \A l \in Files : Tidy(l) PROVE EditInv
  OBVIOUS
<1>1. Tidy(memory) /\ Tidy(file) /\ torn = NoAttempt
  BY DEF LabelsInit
<1>2. NoLabels \in LabelSets
  BY DEF NoLabels, LabelSets
<1>3. Opened \in TabType
  BY <1>2 DEF Opened, TabType
<1>4. TabGood(Opened)
  BY TidyNone DEF TabGood, Opened
<1>5. SaveGood(NoSave, Opened)
  BY DEF SaveGood, NoSave
<1>6. tab = [t \in Tabs |-> Opened] /\ save = [t \in Tabs |-> NoSave]
  BY DEF LabelsInit
<1>7. \A t \in Tabs : TabGood(tab[t]) /\ SaveGood(save[t], tab[t])
  BY <1>4, <1>5, <1>6
<1> QED
  BY <1>1, <1>3, <1>6, <1>7, DiskInit DEF EditInv

(* A step of one tab: what it must become. *)
LEMMA TabMoves ==
  ASSUME EditInv, DiskInv',
         Tidy(memory)', Tidy(file)', (torn # NoAttempt => Tidy(torn))',
         NEW t \in Tabs, NEW b \in TabType, NEW s,
         tab' = [tab EXCEPT ![t] = b], save' = [save EXCEPT ![t] = s],
         TabGood(b), SaveGood(s, b)
  PROVE  EditInv'
<1>1. tab' \in [Tabs -> TabType]
  BY DEF EditInv
<1>2. \A u \in Tabs : /\ tab'[u] = IF u = t THEN b ELSE tab[u]
                      /\ save'[u] = IF u = t THEN s ELSE save[u]
  BY DEF EditInv, DiskInv
<1>3. \A u \in Tabs : TabGood(tab'[u]) /\ SaveGood(save'[u], tab'[u])
  BY <1>2 DEF EditInv
<1> QED
  BY <1>1, <1>3 DEF EditInv

(* One whose save goes on with what it has posted, or ends. *)
LEMMA SaveStays ==
  ASSUME EditInv, NEW t \in Tabs,
         NEW a \in {"none", "posted", "writing", "stored", "failed"}, save[t].at # "none"
  PROVE  SaveGood([save[t] EXCEPT !.at = a], tab[t])
<1> DEFINE s == [save[t] EXCEPT !.at = a]
<1>1. s.at = a /\ s.posted = save[t].posted
  BY SaveTyped DEF EditInv
<1>2. SaveGood(save[t], tab[t])
  BY DEF EditInv
<1> HIDE DEF s
<1>3. SaveGood(s, tab[t])
  BY <1>1, <1>2 DEF SaveGood
<1> QED
  BY <1>3 DEF s

(* A save that is only written further stays good. *)
LEMMA SaveGoesOn ==
  ASSUME EditInv, DiskInv',
         Tidy(memory)', Tidy(file)', (torn # NoAttempt => Tidy(torn))',
         NEW t \in Tabs, save[t].at # "none",
         NEW a \in {"none", "posted", "writing", "stored", "failed"},
         tab' = tab, save' = [save EXCEPT ![t].at = a]
  PROVE  EditInv'
<1> DEFINE s == [save[t] EXCEPT !.at = a]
<1>1. SaveGood(s, tab[t])
  BY SaveStays
<1>2. save' = [save EXCEPT ![t] = s]
  OBVIOUS
<1>3. tab[t] \in TabType /\ TabGood(tab[t]) /\ tab' = [tab EXCEPT ![t] = tab[t]]
  BY DEF EditInv
<1> HIDE DEF s
<1> QED
  BY <1>1, <1>2, <1>3, TabMoves

(* The user changes keys. *)
LEMMA EditsGood ==
  ASSUME EditInv, NEW t \in Tabs, NEW labels \in LabelSets, NEW keys \in SUBSET Keys,
         \A l \in Keys \ keys : labels[l] = tab[t].labels[l],
         DiskInv', UNCHANGED diskVars, Edit(t, labels, keys)
  PROVE  EditInv'
<1> DEFINE more == {Trim[k] : k \in keys}
           b == [tab[t] EXCEPT !.labels = labels, !.dirty = TRUE, !.edited = @ \cup more]
<1>1. tab[t] \in TabType /\ TabGood(tab[t]) /\ SaveGood(save[t], tab[t])
  BY DEF EditInv
<1>2. more \in SUBSET Keys /\ \A l \in keys : Trim[l] \in more
  BY LabelsAssumption
<1>3. tab' = [tab EXCEPT ![t].labels = labels, ![t].dirty = TRUE, ![t].edited = @ \cup more]
  BY DEF Edit
<1> HIDE DEF more
<1>4. tab' = [tab EXCEPT ![t] = b]
  BY <1>3, Zenon DEF EditInv
<1>5. /\ b \in TabType /\ b.labels = labels /\ b.loaded = tab[t].loaded
      /\ b.edited = tab[t].edited \cup more /\ b.loading = tab[t].loading
  BY <1>1, <1>2 DEF TabType
<1> HIDE DEF b
<1>6. TabGood(b)
  BY <1>1, <1>2, <1>5 DEF TabGood
<1>7. SaveGood(save[t], b)
  BY <1>1, <1>5 DEF SaveGood
<1>8. save' = [save EXCEPT ![t] = save[t]]
  BY DEF Edit, EditInv, DiskInv
<1>9. memory' = memory /\ file' = file /\ torn' = torn
  BY DEF diskVars
<1>10. Tidy(memory)' /\ Tidy(file)' /\ (torn # NoAttempt => Tidy(torn))'
  BY <1>9 DEF EditInv, Tidy
<1> QED
  BY <1>4, <1>5, <1>6, <1>7, <1>8, <1>10, TabMoves

(* A tab that loads, or fails to. *)
LEMMA LoadsGood ==
  ASSUME EditInv, NEW t \in Tabs, NEW w \in BOOLEAN, DiskInv', Load(t, w)
  PROVE  EditInv'
<1> DEFINE b == [loading |-> FALSE, writable |-> w, labels |-> memory, dirty |-> tab[t].dirty,
                 loaded |-> memory, edited |-> {}, missed |-> FALSE]
<1>1. tab[t] \in TabType /\ tab[t].loading /\ SaveGood(save[t], tab[t]) /\ memory \in LabelSets
  BY DEF EditInv, DiskInv, Load
<1>2. tab' = [tab EXCEPT ![t] = b]
  BY DEF Load
<1>3. b \in TabType
  BY <1>1 DEF TabType
<1>4. TabGood(b)
  BY DEF TabGood, EditInv
<1>5. SaveGood(save[t], b)
  BY <1>1 DEF SaveGood
<1>6. save' = [save EXCEPT ![t] = save[t]] /\ memory' = memory /\ file' = file /\ torn' = torn
  BY DEF Load, EditInv, DiskInv, diskVars
<1>7. Tidy(memory)' /\ Tidy(file)' /\ (torn # NoAttempt => Tidy(torn))'
  BY <1>6 DEF EditInv, Tidy
<1> HIDE DEF b
<1> QED
  BY <1>2, <1>3, <1>4, <1>5, <1>6, <1>7, TabMoves

(* Nothing is claimed of a tab that did not load what is there. *)
LEMMA NotLoadedGood ==
  ASSUME EditInv, NEW t \in Tabs, DiskInv', FetchFails(t)
  PROVE  EditInv'
<1> DEFINE b == [tab[t] EXCEPT !.loading = FALSE, !.missed = TRUE]
<1>1. tab[t] \in TabType /\ tab[t].loading /\ SaveGood(save[t], tab[t]) /\ TabGood(tab[t])
  BY DEF EditInv, FetchFails
<1>2. tab' = [tab EXCEPT ![t] = b]
  BY Zenon DEF FetchFails, EditInv
<1>3. /\ b \in TabType /\ b.labels = tab[t].labels /\ b.loaded = tab[t].loaded
      /\ b.edited = tab[t].edited
  BY <1>1 DEF TabType
<1> HIDE DEF b
<1>4. TabGood(b)
  BY <1>1, <1>3 DEF TabGood
<1>5. SaveGood(save[t], b)
  BY <1>1 DEF SaveGood
<1>6. save' = [save EXCEPT ![t] = save[t]] /\ memory' = memory /\ file' = file /\ torn' = torn
  BY DEF FetchFails, EditInv, DiskInv, diskVars
<1>7. Tidy(memory)' /\ Tidy(file)' /\ (torn # NoAttempt => Tidy(torn))'
  BY <1>6 DEF EditInv, Tidy
<1> QED
  BY <1>2, <1>3, <1>4, <1>5, <1>6, <1>7, TabMoves

(* A save that begins, and one that ends. *)
LEMMA SaveBegins ==
  ASSUME EditInv, NEW t \in Tabs, DiskInv', HandleSave(t)
  PROVE  EditInv'
<1>1. /\ tab[t] \in TabType /\ TabGood(tab[t]) /\ ~tab[t].loading
      /\ tab' = [tab EXCEPT ![t] = tab[t]]
  BY DEF EditInv, HandleSave
<1>2. PICK c \in Cleaned(tab[t].labels) :
        save' = [save EXCEPT ![t] = [at |-> "posted", posted |-> c]]
  BY DEF HandleSave
<1> DEFINE s == [at |-> "posted", posted |-> c]
<1>3. Tidy(c) /\ \A k \in Keys : k \notin tab[t].edited => c[k] = tab[t].loaded[k]
  BY <1>1, CleanedTidy
<1>4. SaveGood(s, tab[t])
  BY <1>1, <1>3 DEF SaveGood
<1>5. save' = [save EXCEPT ![t] = s]
  BY <1>2
<1>6. memory' = memory /\ file' = file /\ torn' = torn
  BY DEF HandleSave, diskVars
<1>7. Tidy(memory)' /\ Tidy(file)' /\ (torn # NoAttempt => Tidy(torn))'
  BY <1>6 DEF EditInv, Tidy
<1> HIDE DEF s
<1> QED
  BY <1>1, <1>4, <1>5, <1>7, TabMoves

(* A save that ended and was answered is forgotten. *)
LEMMA SaveEnds ==
  ASSUME EditInv, NEW t \in Tabs, DiskInv', SaveFailed(t) \/ SaveDone(t)
  PROVE  EditInv'
<1>1. tab[t] \in TabType /\ TabGood(tab[t])
  BY DEF EditInv
<1>2. PICK b : /\ tab' = [tab EXCEPT ![t] = b] /\ b \in TabType
               /\ b.labels = tab[t].labels /\ b.loaded = tab[t].loaded
               /\ b.edited = tab[t].edited
  <2>1. CASE SaveFailed(t)
    <3>1. tab' = [tab EXCEPT ![t] = tab[t]]
      BY <2>1 DEF SaveFailed, EditInv
    <3> QED
      BY <1>1, <3>1
  <2>2. CASE SaveDone(t)
    <3> DEFINE b == [tab[t] EXCEPT !.dirty = FALSE, !.loading = TRUE]
    <3>1. tab' = [tab EXCEPT ![t] = b]
      BY <2>2, Zenon DEF SaveDone, EditInv
    <3>2. /\ b \in TabType /\ b.labels = tab[t].labels /\ b.loaded = tab[t].loaded
          /\ b.edited = tab[t].edited
      BY <1>1 DEF TabType
    <3> HIDE DEF b
    <3> QED
      BY <3>1, <3>2
  <2> QED
    BY <2>1, <2>2
<1>3. TabGood(b)
  BY <1>1, <1>2 DEF TabGood
<1>4. SaveGood(NoSave, b)
  BY DEF SaveGood, NoSave
<1>5. /\ save' = [save EXCEPT ![t] = NoSave]
      /\ memory' = memory /\ file' = file /\ torn' = torn
  BY DEF SaveFailed, SaveDone, diskVars
<1>6. Tidy(memory)' /\ Tidy(file)' /\ (torn # NoAttempt => Tidy(torn))'
  BY <1>5 DEF EditInv, Tidy
<1> QED
  BY <1>2, <1>3, <1>4, <1>5, <1>6, TabMoves

(* A restart cuts the saves short. *)
LEMMA RestartGood ==
  ASSUME EditInv, DiskInv', Restart
  PROVE  EditInv'
<1>1. tab' = tab /\ file' = file /\ memory' = file /\ torn' = NoAttempt
  BY DEF Restart
<1>2. Tidy(memory)' /\ Tidy(file)' /\ (torn # NoAttempt => Tidy(torn))'
  BY <1>1 DEF EditInv, Tidy
<1>3. ASSUME NEW t \in Tabs
      PROVE  SaveGood(save'[t], tab[t])
  <2>1. save'[t] = IF save[t].at \in {"posted", "writing", "stored"}
                     THEN [save[t] EXCEPT !.at = "failed"] ELSE save[t]
    BY DEF Restart
  <2>2. CASE save[t].at \in {"posted", "writing", "stored"}
    <3>1. save'[t] = [save[t] EXCEPT !.at = "failed"] /\ save[t].at # "none"
      BY <2>1, <2>2
    <3>2. SaveGood([save[t] EXCEPT !.at = "failed"], tab[t])
      BY <3>1, SaveStays
    <3> QED
      BY <3>1, <3>2, Zenon
  <2>3. CASE save[t].at \notin {"posted", "writing", "stored"}
    BY <2>1, <2>3 DEF EditInv
  <2> QED
    BY <2>2, <2>3
<1>4. \A t \in Tabs : TabGood(tab'[t]) /\ SaveGood(save'[t], tab'[t])
  BY <1>1, <1>3 DEF EditInv
<1> QED
  BY <1>1, <1>2, <1>4 DEF EditInv

(* Every step of the labels keeps EditInv. *)
LEMMA EditStep ==
  ASSUME EditInv, [LabelsNext]_labelVars
  PROVE  EditInv'
<1>0. DiskInv /\ DiskInv'
  BY DiskStep DEF EditInv
<1>1. CASE UNCHANGED labelVars
  BY <1>0, <1>1 DEF EditInv, labelVars, Tidy, TabGood, SaveGood
<1>2. CASE Restart
  BY <1>0, <1>2, RestartGood
<1>3. ASSUME NEW t \in Tabs, SaveRefused(t) \/ SaveLost(t)
      PROVE  EditInv'
  <2>1. memory' = memory /\ file' = file /\ torn' = torn /\ tab' = tab
    BY <1>3 DEF SaveRefused, SaveLost, diskVars
  <2>2. Tidy(memory)' /\ Tidy(file)' /\ (torn # NoAttempt => Tidy(torn))'
    BY <2>1 DEF EditInv, Tidy
  <2>3. save[t].at # "none" /\ save' = [save EXCEPT ![t].at = "failed"]
    BY <1>3 DEF SaveRefused, SaveLost
  <2> QED
    BY <1>0, <2>1, <2>2, <2>3, SaveGoesOn
<1>4. ASSUME NEW t \in Tabs, SaveTruncates(t) \/ SaveBreaks(t) \/ SaveWrites(t)
      PROVE  EditInv'
  <2>1. save[t].at # "none" /\ tab' = tab
    BY <1>4 DEF SaveTruncates, SaveBreaks, SaveWrites
  <2>2. Tidy(save[t].posted)
    BY <2>1 DEF EditInv, SaveGood
  <2>3. Tidy(memory)' /\ (torn # NoAttempt => Tidy(torn))'
    BY <1>4, <2>2 DEF SaveTruncates, SaveBreaks, SaveWrites, EditInv, Tidy
  <2>4. Tidy(file)'
    <3>1. file' \in {NoLabels, save[t].posted} \/ file' \in Parts(save[t].posted)
      BY <1>4 DEF SaveTruncates, SaveBreaks, SaveWrites
    <3>2. \A l : l \in {NoLabels, save[t].posted} \/ l \in Parts(save[t].posted) => Tidy(l)
      BY <2>2, TidyNone, TidyParts
    <3>3. \A l : file' = l /\ Tidy(l) => Tidy(file)'
      BY DEF Tidy
    <3> QED
      BY <3>1, <3>2, <3>3
  <2>5. \E a \in {"none", "posted", "writing", "stored", "failed"} :
          save' = [save EXCEPT ![t].at = a]
    BY <1>4 DEF SaveTruncates, SaveBreaks, SaveWrites
  <2> QED
    BY <1>0, <2>1, <2>3, <2>4, <2>5, SaveGoesOn
<1>5. ASSUME NEW t \in Tabs, FetchLabels(t) \/ FetchReadOnly(t) \/ FetchFails(t)
      PROVE  EditInv'
  <2>1. Load(t, TRUE) \/ Load(t, FALSE) \/ FetchFails(t)
    BY <1>5 DEF FetchLabels, FetchReadOnly
  <2> QED
    BY <1>0, <2>1, LoadsGood, NotLoadedGood
<1>6. ASSUME NEW t \in Tabs, HandleSave(t) \/ SaveFailed(t) \/ SaveDone(t)
      PROVE  EditInv'
  BY <1>0, <1>6, SaveBegins, SaveEnds
<1>7. ASSUME NEW t \in Tabs,
             \/ HandleAdd(t)
             \/ \E k \in Keys : \/ HandleDelete(t, k)
                                \/ \E l \in Keys : HandleUpdateKey(t, k, l)
                                \/ \E text \in Texts : HandleUpdateValue(t, k, text)
      PROVE  EditInv'
  <2>1. tab[t].labels \in LabelSets /\ UNCHANGED diskVars
    BY <1>0, <1>7, OthersKeepDisk DEF EditInv, TabType
  <2>2. PICK labels \in LabelSets, keys \in SUBSET Keys :
          /\ \A l \in Keys \ keys : labels[l] = tab[t].labels[l]
          /\ Edit(t, labels, keys)
    <3>1. CASE HandleAdd(t)
      <4>1. [tab[t].labels EXCEPT ![Nameless] = NewText] \in LabelSets
        BY <2>1, LabelsAssumption DEF LabelSets
      <4>2. \A l \in Keys \ {Nameless} :
              [tab[t].labels EXCEPT ![Nameless] = NewText][l] = tab[t].labels[l]
        BY <2>1 DEF LabelSets
      <4> QED
        BY <3>1, <4>1, <4>2, LabelsAssumption DEF HandleAdd
    <3>2. ASSUME NEW k \in Keys, HandleDelete(t, k)
          PROVE  \E labels \in LabelSets, keys \in SUBSET Keys :
                   /\ \A l \in Keys \ keys : labels[l] = tab[t].labels[l]
                   /\ Edit(t, labels, keys)
      <4>1. [tab[t].labels EXCEPT ![k] = Absent] \in LabelSets
        BY <2>1 DEF LabelSets
      <4>2. \A l \in Keys \ {k} : [tab[t].labels EXCEPT ![k] = Absent][l] = tab[t].labels[l]
        BY <2>1 DEF LabelSets
      <4> QED
        BY <3>2, <4>1, <4>2 DEF HandleDelete
    <3>3. ASSUME NEW k \in Keys, NEW n \in Keys, HandleUpdateKey(t, k, n)
          PROVE  \E labels \in LabelSets, keys \in SUBSET Keys :
                   /\ \A l \in Keys \ keys : labels[l] = tab[t].labels[l]
                   /\ Edit(t, labels, keys)
      <4> DEFINE labels == [tab[t].labels EXCEPT ![k] = Absent, ![n] = tab[t].labels[k]]
      <4>1. labels \in LabelSets
        BY <2>1 DEF LabelSets
      <4>2. \A l \in Keys \ {k, n} : labels[l] = tab[t].labels[l]
        BY <2>1 DEF LabelSets
      <4>3. Edit(t, labels, {k, n})
        BY <3>3 DEF HandleUpdateKey
      <4> HIDE DEF labels
      <4> QED
        BY <4>1, <4>2, <4>3
    <3>4. ASSUME NEW k \in Keys, NEW text \in Texts, HandleUpdateValue(t, k, text)
          PROVE  \E labels \in LabelSets, keys \in SUBSET Keys :
                   /\ \A l \in Keys \ keys : labels[l] = tab[t].labels[l]
                   /\ Edit(t, labels, keys)
      <4>1. [tab[t].labels EXCEPT ![k] = text] \in LabelSets
        BY <2>1 DEF LabelSets
      <4>2. \A l \in Keys \ {k} : [tab[t].labels EXCEPT ![k] = text][l] = tab[t].labels[l]
        BY <2>1 DEF LabelSets
      <4> QED
        BY <3>4, <4>1, <4>2 DEF HandleUpdateValue
    <3> QED
      BY <1>7, <3>1, <3>2, <3>3, <3>4
  <2> QED
    BY <1>0, <2>1, <2>2, EditsGood
<1> QED
  BY <1>1, <1>2, <1>3, <1>4, <1>5, <1>6, <1>7 DEF LabelsNext

(* If the first file holds no key with blanks around it, a save by a page    *)
(* that loaded what is there changes only what its user edited, whatever     *)
(* other tabs did meanwhile and however keys were renamed (handleSave in     *)
(* web/src/pages/Labels.tsx).                                                *)
THEOREM SavesOnlyEdited ==
  ASSUME \A l \in Files : Tidy(l)
  PROVE  LabelsSpec => SavesOnlyEdits
<1>1. LabelsInit => EditInv
  BY EditInit
<1>2. EditInv /\ [LabelsNext]_labelVars => EditInv'
  BY EditStep
<1>3. ASSUME EditInv, NEW t \in Tabs, SaveWrites(t), tab[t].loaded = memory,
             NEW k \in Keys, memory'[k] # memory[k]
      PROVE  k \in tab[t].edited
  <2>1. save[t].at # "none" /\ memory' = save[t].posted
    BY <1>3 DEF SaveWrites
  <2>2. SaveGood(save[t], tab[t])
    BY <1>3 DEF EditInv
  <2> QED
    BY <1>3, <2>1, <2>2 DEF SaveGood
<1> DEFINE Only == \A t \in Tabs : SaveWrites(t) /\ tab[t].loaded = memory
                     => \A k \in Keys : memory'[k] # memory[k] => k \in tab[t].edited
<1>4. EditInv => Only
  BY <1>3
<1>5. EditInv => [Only]_labelVars
  BY <1>4
<1> QED
  BY <1>1, <1>2, <1>5, PTL DEF LabelsSpec, SavesOnlyEdits

-----------------------------------------------------------------------------
(* A tab with all its parts, clean only if it shows what it loaded. *)
TabClean(b) ==
  /\ b \in [loading : {b.loading}, writable : {b.writable}, labels : {b.labels},
            dirty : {b.dirty}, loaded : {b.loaded}, edited : {b.edited}, missed : {b.missed}]
  /\ ~b.loading /\ ~b.dirty /\ ~b.missed => b.labels = b.loaded

(* Every tab is so. *)
CleanInv == tab = [t \in Tabs |-> tab[t]] /\ \A t \in Tabs : TabClean(tab[t])

(* One tab that changes, and stays so. *)
LEMMA OneTabClean ==
  ASSUME CleanInv, NEW t \in Tabs, NEW b, TabClean(b), tab' = [tab EXCEPT ![t] = b]
  PROVE  CleanInv'
<1>1. tab' = [u \in Tabs |-> IF u = t THEN b ELSE tab[u]] BY DEF CleanInv
<1>2. \A u \in Tabs : TabClean(tab'[u]) BY <1>1 DEF CleanInv
<1>. QED BY <1>1, <1>2 DEF CleanInv

(* Every step of the labels page keeps it. *)
LEMMA CleanStep ==
  ASSUME CleanInv, [LabelsNext]_labelVars PROVE CleanInv'
<1>1. CASE tab' = tab BY <1>1 DEF CleanInv
<1>2. ASSUME NEW t \in Tabs, NEW w, Load(t, w) PROVE CleanInv'
  <2> DEFINE b == [loading |-> FALSE, writable |-> w, labels |-> memory, dirty |-> tab[t].dirty,
                   loaded |-> memory, edited |-> {}, missed |-> FALSE]
  <2>1. TabClean(b) BY DEF TabClean
  <2>2. tab' = [tab EXCEPT ![t] = b] BY <1>2 DEF Load
  <2> HIDE DEF b
  <2>. QED BY <2>1, <2>2, OneTabClean
<1>3. ASSUME NEW t \in Tabs, NEW labels, NEW keys, Edit(t, labels, keys) PROVE CleanInv'
  <2> DEFINE more == tab[t].edited \cup {Trim[k] : k \in keys}
             b == [tab[t] EXCEPT !.labels = labels, !.dirty = TRUE, !.edited = more]
  <2>1. TabClean(tab[t]) BY DEF CleanInv
  <2>2. tab' = [tab EXCEPT ![t] = b] BY <1>3, Zenon DEF Edit, CleanInv
  <2> HIDE DEF more
  <2>3. TabClean(b) BY <2>1 DEF TabClean
  <2> HIDE DEF b
  <2>. QED BY <2>2, <2>3, OneTabClean
<1>4. ASSUME NEW t \in Tabs, FetchFails(t) PROVE CleanInv'
  <2> DEFINE b == [tab[t] EXCEPT !.loading = FALSE, !.missed = TRUE]
  <2>1. TabClean(tab[t]) BY DEF CleanInv
  <2>2. tab' = [tab EXCEPT ![t] = b] BY <1>4, Zenon DEF FetchFails, CleanInv
  <2>3. TabClean(b) BY <2>1 DEF TabClean
  <2> HIDE DEF b
  <2>. QED BY <2>2, <2>3, OneTabClean
<1>5. ASSUME NEW t \in Tabs, SaveDone(t) PROVE CleanInv'
  <2> DEFINE b == [tab[t] EXCEPT !.dirty = FALSE, !.loading = TRUE]
  <2>1. TabClean(tab[t]) BY DEF CleanInv
  <2>2. tab' = [tab EXCEPT ![t] = b] BY <1>5, Zenon DEF SaveDone, CleanInv
  <2>3. TabClean(b) BY <2>1 DEF TabClean
  <2> HIDE DEF b
  <2>. QED BY <2>2, <2>3, OneTabClean
<1>6. ASSUME NEW t \in Tabs,
             \/ HandleAdd(t)
             \/ \E k \in Keys : \/ HandleDelete(t, k)
                                \/ \E l \in Keys : HandleUpdateKey(t, k, l)
                                \/ \E text \in Texts : HandleUpdateValue(t, k, text)
      PROVE  CleanInv'
  BY <1>3, <1>6 DEF HandleAdd, HandleDelete, HandleUpdateKey, HandleUpdateValue
<1>7. ASSUME NEW t \in Tabs, FetchLabels(t) \/ FetchReadOnly(t) PROVE CleanInv'
  BY <1>2, <1>7 DEF FetchLabels, FetchReadOnly
<1>8. ASSUME NEW t \in Tabs,
             \/ SaveRefused(t) \/ SaveTruncates(t) \/ SaveBreaks(t) \/ SaveWrites(t)
             \/ HandleSave(t) \/ SaveLost(t) \/ SaveFailed(t)
      PROVE  CleanInv'
  BY <1>1, <1>8 DEF SaveRefused, SaveTruncates, SaveBreaks, SaveWrites, HandleSave, SaveLost,
      SaveFailed
<1>9. CASE Restart \/ UNCHANGED labelVars
  BY <1>1, <1>9 DEF Restart, labelVars
<1>. QED BY <1>4, <1>5, <1>6, <1>7, <1>8, <1>9 DEF LabelsNext

(* A page that offers nothing to save shows labels as it loaded them, unless *)
(* a fetch failed, also when the user went on editing while it saved         *)
(* (isDirty, fetchLabels).                                                   *)
THEOREM CleanPagesLoaded == LabelsSpec => []CleanPageShowsLoaded
<1>1. LabelsInit => CleanInv
  <2>2. TabClean(Opened) BY DEF TabClean, Opened
  <2> HIDE DEF Opened
  <2>. QED BY <2>2 DEF LabelsInit, CleanInv
<1>2. CleanInv /\ [LabelsNext]_labelVars => CleanInv' BY CleanStep
<1>3. CleanInv => CleanPageShowsLoaded
  <2> SUFFICES ASSUME CleanInv, NEW t \in Tabs,
                      ~tab[t].loading, ~tab[t].dirty, ~tab[t].missed
               PROVE  tab[t].labels = tab[t].loaded
    BY DEF CleanPageShowsLoaded
  <2>. QED BY DEF CleanInv, TabClean
<1>. QED BY <1>1, <1>2, <1>3, PTL DEF LabelsSpec

-----------------------------------------------------------------------------
(* The energy of days and hours. *)

(* The charts show nothing, or what they make of the power that was read.    *)
EnergyInv ==
  figures # NoFigures =>
    /\ DOMAIN power \subseteq ReadHours
    /\ power \in [DOMAIN power -> [grid : Powers, battery : Powers, writer : Writers]]
    /\ figures = [monthly |-> Monthly(Stored(power), DayHours),
                  zoomed |-> Monthly(Stored(power), 1),
                  yearly |-> Yearly(Stored(power)), today |-> Daily(Stored(power))]

(* What is stored of an hour under a label, counting what is left out as 0.  *)
Amount(store, label) ==
  [h \in DOMAIN store |-> IF label \in DOMAIN store[h] THEN store[h][label] ELSE 0]

(* The hours of a bucket. *)
Bucket(store, step, b) == {h \in DOMAIN store : h \div step = b}

(* A bucket of an answer has the amounts of its hours, and one that is not   *)
(* in it nothing.                                                            *)
LEMMA BucketEnergy ==
  ASSUME NEW store, IsFiniteSet(DOMAIN store), NEW label, NEW step, NEW b,
         Numeric(Amount(store, label), DOMAIN store)
  PROVE  Get(Results(store, label, step), b) = Total(Amount(store, label), Bucket(store, step, b))
<1>. DEFINE hours == {h \in DOMAIN store : label \in DOMAIN store[h]}
            energy == [h \in hours |-> store[h][label]]
            mine == {h \in hours : h \div step = b}
            all == Bucket(store, step, b)
<1>1. IsFiniteSet(all) /\ mine \in SUBSET all /\ IsFiniteSet(mine)
  BY FS_Subset DEF Bucket
<1>2. \A h \in all : Amount(store, label)[h] = IF h \in mine THEN energy[h] ELSE 0
  BY DEF Bucket, Amount
<1>3. Numeric(Amount(store, label), all) BY DEF Numeric, Bucket
<1>4. CASE b \in DOMAIN Results(store, label, step)
  <2>1. Get(Results(store, label, step), b) = Total(energy, mine)
    BY <1>4 DEF Get, Results
  <2>2. Numeric(Amount(store, label), mine) BY <1>1, <1>3 DEF Numeric
  <2>3. Total(energy, mine) = Total(Amount(store, label), mine)
    <3>. HIDE DEF energy, mine
    <3>. QED BY <1>1, <1>2, <2>2, SumsEqual DEF Total
  <2>4. Total(Amount(store, label), all) = Total(Amount(store, label), mine)
    <3>. HIDE DEF energy, mine, all
    <3>. QED BY <1>1, <1>2, <1>3, SumDrops DEF Total
  <2>. QED BY <2>1, <2>3, <2>4
<1>5. CASE b \notin DOMAIN Results(store, label, step)
  <2>1. Get(Results(store, label, step), b) = 0 BY <1>5 DEF Get
  <2>2. mine = {} BY <1>5 DEF Results
  <2>3. \A h \in all : Amount(store, label)[h] = 0 BY <1>2, <2>2
  <2>4. Total(Amount(store, label), all) = 0
    <3>. HIDE DEF all
    <3>. QED BY <1>1, <2>3, SumOfZeros DEF Total
  <2>. QED BY <2>1, <2>4
<1>. QED BY <1>4, <1>5

(* A bucket that is not in an answer has nothing stored. *)
LEMMA BucketsStored ==
  ASSUME NEW store, NEW label, NEW step, NEW b
  PROVE  b \in DOMAIN Results(store, label, step)
           <=> \E h \in Bucket(store, step, b) : label \in DOMAIN store[h]
  BY DEF Results, Bucket

(* A bucket of an hour is that hour. *)
LEMMA BucketOfOne ==
  ASSUME NEW store, DOMAIN store \subseteq Nat, IsFiniteSet(DOMAIN store), NEW label,
         Numeric(Amount(store, label), DOMAIN store), NEW h \in DOMAIN store
  PROVE  Get(Results(store, label, 1), h) = Amount(store, label)[h]
<1>1. \A k \in Nat : k \div 1 = k OBVIOUS
<1>2. Bucket(store, 1, h) = {h} BY <1>1 DEF Bucket
<1>3. Amount(store, label)[h] \in Int BY DEF Numeric
<1>4. Get(Results(store, label, 1), h) = Total(Amount(store, label), {h})
  BY <1>2, BucketEnergy
<1>5. Total(Amount(store, label), {h}) = Amount(store, label)[h]
  BY <1>3, SumOfOne DEF Total
<1>. QED BY <1>4, <1>5

(* The sum DailySummary makes of a label for today. *)
DailyOf(store, label) ==
  LET points == Results(store, label, 1)
  IN  Total(points, {h \in DOMAIN points : DayOf(h) = Today})

(* It has all that is stored of today. *)
LEMMA DailySum ==
  ASSUME NEW store, DOMAIN store \subseteq Nat, IsFiniteSet(DOMAIN store), NEW label,
         Numeric(Amount(store, label), DOMAIN store)
  PROVE  DailyOf(store, label)
           = Total(Amount(store, label), {h \in DOMAIN store : DayOf(h) = Today})
<1>. DEFINE points == Results(store, label, 1)
            mine == {h \in DOMAIN points : DayOf(h) = Today}
            all == {h \in DOMAIN store : DayOf(h) = Today}
            amount == Amount(store, label)
<1>1. \A k \in Nat : k \div 1 = k OBVIOUS
<1>2. DOMAIN points \subseteq DOMAIN store BY <1>1 DEF Results
<1>3. \A h \in DOMAIN points : points[h] = amount[h] BY <1>2, BucketOfOne DEF Get
<1>4. \A h \in DOMAIN store \ DOMAIN points : amount[h] = 0
  <2>1. \A h \in DOMAIN store \ DOMAIN points : Get(points, h) = 0 BY DEF Get
  <2>. HIDE DEF points
  <2>. QED BY <2>1, BucketOfOne DEF points
<1>5. IsFiniteSet(all) /\ mine \in SUBSET all /\ IsFiniteSet(mine) BY <1>2, FS_Subset
<1>6. Numeric(amount, all) /\ Numeric(amount, mine) BY <1>2 DEF Numeric
<1>7. Total(points, mine) = Total(amount, mine)
  <2>. HIDE DEF points, amount
  <2>. QED BY <1>3, <1>5, <1>6, SumsEqual DEF Total
<1>8. Total(amount, all) = Total(amount, mine)
  <2>1. \A h \in all \ mine : amount[h] = 0 BY <1>4
  <2>. HIDE DEF points, amount, all, mine
  <2>. QED BY <1>5, <1>6, <2>1, SumDrops DEF Total
<1>9. DailyOf(store, label) = Total(points, mine) BY DEF DailyOf
<1>. QED BY <1>7, <1>8, <1>9

(* What is stored of the grid, and of the battery by the collector. *)
LEMMA StoredAmounts ==
  ASSUME NEW hours, NEW readings \in [hours -> [grid : Powers, battery : Powers, writer : Writers]]
  PROVE  LET store == Stored(readings)
         IN  /\ DOMAIN store = hours
             /\ \A l \in {"grid_import", "grid_export", "battery_import", "battery_export"} :
                  Numeric(Amount(store, l), hours)
             /\ \A h \in hours :
                  /\ Amount(store, "grid_import")[h] - Amount(store, "grid_export")[h] =
                       readings[h].grid
                  /\ readings[h].writer = "collector" =>
                       Amount(store, "battery_import")[h] - Amount(store, "battery_export")[h]
                         = readings[h].battery
<1>1. ASSUME NEW r \in [grid : Powers, battery : Powers, writer : Writers], NEW l \in EnergyLabels
      PROVE  /\ l \in DOMAIN Collected(r) /\ Collected(r)[l] \in Int
             /\ l \in DOMAIN Imported(r) => Imported(r)[l] \in Int
  <2>1. r.grid \in Int /\ r.battery \in Int BY EnergyAssumption
  <2>2. \A w \in Int : Taken(w) \in Int /\ Given(w) \in Int BY DEF Taken, Given
  <2>3. l \in DOMAIN Collected(r) /\ Collected(r)[l] \in Int
    BY <2>1, <2>2 DEF Collected, EnergyLabels
  <2>. DEFINE all ==
         [grid_import    |-> Taken(r.grid),    grid_export    |-> Given(r.grid),
          battery_import |-> Given(r.battery), battery_export |-> Taken(r.battery),
          battery        |-> r.battery]
  <2>4. l \in DOMAIN all /\ all[l] \in Int BY <2>1, <2>2 DEF EnergyLabels
  <2>5. Imported(r) = [k \in {k \in EnergyLabels : all[k] # 0} |-> all[k]]
    BY DEF Imported, Restrict
  <2>. HIDE DEF all
  <2>6. l \in DOMAIN Imported(r) => Imported(r)[l] \in Int BY <2>4, <2>5
  <2>. QED BY <2>3, <2>6
<1>2. ASSUME NEW r \in [grid : Powers, battery : Powers, writer : Writers]
      PROVE  LET of(s, l) == IF l \in DOMAIN s THEN s[l] ELSE 0
             IN  /\ of(Collected(r), "grid_import") - of(Collected(r), "grid_export") = r.grid
                 /\ of(Imported(r), "grid_import") - of(Imported(r), "grid_export") = r.grid
                 /\ of(Collected(r), "battery_import") - of(Collected(r), "battery_export")
                      = r.battery
  <2>1. r.grid \in Int /\ r.battery \in Int BY EnergyAssumption
  <2>2. \A w \in Int : Taken(w) - Given(w) = w BY DEF Taken, Given
  <2>. DEFINE of(s, l) == IF l \in DOMAIN s THEN s[l] ELSE 0
              all ==
                [grid_import    |-> Taken(r.grid),    grid_export    |-> Given(r.grid),
                 battery_import |-> Given(r.battery), battery_export |-> Taken(r.battery),
                 battery        |-> r.battery]
  <2>3. /\ of(Collected(r), "grid_import") = Taken(r.grid)
        /\ of(Collected(r), "grid_export") = Given(r.grid)
        /\ of(Collected(r), "battery_import") = Taken(r.battery)
        /\ of(Collected(r), "battery_export") = Given(r.battery)
    BY DEF Collected
  <2>4. Imported(r) = [k \in {k \in EnergyLabels : all[k] # 0} |-> all[k]]
    BY DEF Imported, Restrict
  <2>5. all["grid_import"] = Taken(r.grid) /\ all["grid_export"] = Given(r.grid) OBVIOUS
  <2>. HIDE DEF all
  <2>6. /\ of(Imported(r), "grid_import") = all["grid_import"]
        /\ of(Imported(r), "grid_export") = all["grid_export"]
    BY <2>4 DEF EnergyLabels
  <2>. HIDE DEF of
  <2>7. /\ of(Collected(r), "grid_import") - of(Collected(r), "grid_export") = r.grid
        /\ of(Imported(r), "grid_import") - of(Imported(r), "grid_export") = r.grid
        /\ of(Collected(r), "battery_import") - of(Collected(r), "battery_export") = r.battery
    BY <2>1, <2>2, <2>3, <2>5, <2>6
  <2>. QED BY <2>7 DEF of
<1>. QED BY <1>1, <1>2 DEF Stored, Amount, Numeric, EnergyLabels

(* What the charts make of the power that was read agrees. *)
LEMMA FiguresAgree == EnergyInv => EnergyAgrees
<1>. SUFFICES ASSUME EnergyInv, figures # NoFigures PROVE EnergyAgrees BY DEF EnergyAgrees
<1>. DEFINE read == DOMAIN power
            store == Stored(power)
            Of(d) == {h \in read : DayOf(h) = d}
            net == [h \in read |-> power[h].grid]
            charged == [h \in read |-> power[h].battery]
            taken == Amount(store, "grid_import")
            given == Amount(store, "grid_export")
            Imports(step) == Results(store, "grid_import", step)
            Exports(step) == Results(store, "grid_export", step)
            Shown(points, bs) == Total([b \in DOMAIN points |-> points[b].from + points[b].to], bs)
<1>1. /\ read \subseteq Nat /\ IsFiniteSet(read) /\ DOMAIN store = read
      /\ Numeric(taken, read) /\ Numeric(given, read)
      /\ \A h \in read : net[h] = taken[h] - given[h]
      /\ Numeric(net, read)
  <2>1. read \subseteq Nat /\ IsFiniteSet(read) BY EnergyAssumption, FS_Subset DEF EnergyInv
  <2>2. power \in [read -> [grid : Powers, battery : Powers, writer : Writers]] BY DEF EnergyInv
  <2>. QED BY <2>1, <2>2, StoredAmounts, EnergyAssumption DEF Numeric
<1>2. \A d : /\ IsFiniteSet(Of(d))
             /\ Numeric(taken, Of(d)) /\ Numeric(given, Of(d)) /\ Numeric(net, Of(d))
  BY <1>1, FS_Subset DEF Numeric
<1>3. \A d : Of(d) = Bucket(store, DayHours, d) BY <1>1 DEF Bucket, DayOf
<1>4. \A d : Total(net, Of(d)) = Total(taken, Of(d)) - Total(given, Of(d))
  <2>. HIDE DEF taken, given, net, read, Of
  <2>1. \A d : \A h \in Of(d) : net[h] = taken[h] - given[h] BY <1>1 DEF Of
  <2>. QED BY <1>2, <2>1, SumOfDifferences DEF Total
<1>5. \A d : /\ Get(Imports(DayHours), d) = Total(taken, Of(d))
             /\ Get(Exports(DayHours), d) = Total(given, Of(d))
  <2>. HIDE DEF store, Of
  <2>. QED BY <1>1, <1>3, BucketEnergy
<1>6. \A d : Total(taken, Of(d)) \in Int /\ Total(given, Of(d)) \in Int
  <2>. HIDE DEF taken, given, read, Of
  <2>. QED BY <1>2, SumSplits DEF Total
<1>7. \A d : Total(net, Of(d)) = Get(Imports(DayHours), d) - Get(Exports(DayHours), d) BY <1>4, <1>5
<1>. HIDE DEF Imports, Exports
<1>8. /\ figures.monthly = Monthly(store, DayHours) /\ figures.zoomed = Monthly(store, 1)
      /\ figures.yearly = Yearly(store) /\ figures.today = Daily(store)
  BY DEF EnergyInv
<1>9. ASSUME NEW d \in DOMAIN figures.yearly PROVE figures.yearly[d] \subseteq {Total(net, Of(d))}
  <2>. HIDE DEF net, Of
  <2>. QED BY <1>7, <1>8, <1>9 DEF Yearly, Undefined, Imports, Exports
<1>10. ASSUME NEW d, Total(net, Of(d)) # 0
       PROVE  d \in DOMAIN figures.yearly /\ figures.yearly[d] # Undefined
  <2>1. d \in DOMAIN Imports(DayHours) \cup DOMAIN Exports(DayHours)
    <3>. HIDE DEF net, Of
    <3>. QED BY <1>7, <1>10 DEF Get
  <2>2. PICK h \in read : DayOf(h) = d /\ DOMAIN store[h] # {}
    BY <1>1, <2>1, BucketsStored DEF Imports, Exports, Bucket, DayOf
  <2>3. d \in {DayOf(k) : k \in {j \in DOMAIN store : DOMAIN store[j] # {}}} BY <1>1, <2>2
  <2>. HIDE DEF store
  <2>. QED BY <1>8, <2>1, <2>3 DEF Yearly, Undefined, Imports, Exports
<1>11. ASSUME NEW d \in DOMAIN figures.monthly PROVE Shown(figures.monthly, {d}) = Total(net, Of(d))
  <2>. DEFINE shown == [b \in DOMAIN figures.monthly |->
                         figures.monthly[b].from + figures.monthly[b].to]
  <2>1. figures.monthly[d] = [from |-> Get(Imports(DayHours), d), to |-> -Get(Exports(DayHours), d)]
    BY <1>8, <1>11 DEF Monthly, Imports, Exports
  <2>2. Get(Imports(DayHours), d) \in Int /\ Get(Exports(DayHours), d) \in Int
  BY <1>5, <1>6 DEF Imports, Exports
  <2>3. shown[d] = Total(net, Of(d)) /\ shown[d] \in Int BY <1>7, <2>1, <2>2, <1>11
  <2>. HIDE DEF shown
  <2>4. Total(shown, {d}) = shown[d] BY <2>3, SumOfOne DEF Total
  <2>. QED BY <2>3, <2>4 DEF shown
<1>12. ASSUME NEW d
       PROVE  Shown(figures.zoomed, Of(d) \cap DOMAIN figures.zoomed) = Total(net, Of(d))
  <2>. DEFINE shown == [b \in DOMAIN figures.zoomed |->
                         figures.zoomed[b].from + figures.zoomed[b].to]
              hours == Of(d) \cap DOMAIN figures.zoomed
  <2>1. \A h \in read : Get(Imports(1), h) = taken[h] /\ Get(Exports(1), h) = given[h]
    BY <1>1, BucketOfOne DEF Imports, Exports
  <2>2. \A h \in hours : shown[h] = net[h]
    <3>1. \A h \in hours :
            figures.zoomed[h] = [from |-> Get(Imports(1), h), to |-> -Get(Exports(1), h)]
      BY <1>8 DEF Monthly, Imports, Exports
    <3>2. \A h \in read : taken[h] \in Int /\ given[h] \in Int BY <1>1 DEF Numeric
    <3>. SUFFICES ASSUME NEW h \in hours PROVE shown[h] = net[h] OBVIOUS
    <3>3. h \in read /\ h \in DOMAIN figures.zoomed OBVIOUS
    <3>4. shown[h] = figures.zoomed[h].from + figures.zoomed[h].to BY <3>3
    <3>8. figures.zoomed[h].from = taken[h] /\ figures.zoomed[h].to = -given[h]
      <4>1. Get(Imports(1), h) = taken[h] /\ Get(Exports(1), h) = given[h] BY <2>1, <3>3
      <4>2. figures.zoomed[h] = [from |-> Get(Imports(1), h), to |-> -Get(Exports(1), h)]
        BY <3>1
      <4> HIDE DEF taken, given, net, hours, shown, read
      <4>3. figures.zoomed[h] = [from |-> taken[h], to |-> -given[h]] BY <4>1, <4>2
      <4>. QED BY <4>3
    <3>. HIDE DEF taken, given, net, hours, shown, read
    <3>5. shown[h] = taken[h] + -given[h] BY <3>4, <3>8
    <3>6. net[h] = taken[h] - given[h] BY <1>1, <3>3
    <3>7. taken[h] \in Int /\ given[h] \in Int BY <3>2, <3>3
    <3>. QED BY <3>5, <3>6, <3>7
  <2>3. \A h \in Of(d) \ hours : net[h] = 0
    <3>1. \A h \in Of(d) \ hours : h \notin DOMAIN Imports(1) /\ h \notin DOMAIN Exports(1)
      BY <1>8 DEF Monthly, Imports, Exports
    <3>2. \A h \in Of(d) \ hours : taken[h] = 0 /\ given[h] = 0 BY <2>1, <3>1 DEF Get
    <3>3. Of(d) \subseteq read OBVIOUS
    <3>. HIDE DEF taken, given, net, hours, Of, read
    <3>4. \A h \in Of(d) \ hours : net[h] = taken[h] - given[h] BY <1>1, <3>3
    <3>. QED BY <3>2, <3>4
  <2>4. IsFiniteSet(hours) /\ Numeric(net, hours) /\ hours \in SUBSET Of(d)
    BY <1>2, FS_Subset DEF Numeric
  <2>5. Total(shown, hours) = Total(net, hours)
    <3>. HIDE DEF shown, net, hours
    <3>. QED BY <2>2, <2>4, SumsEqual DEF Total
  <2>6. Total(net, Of(d)) = Total(net, hours)
    <3>. HIDE DEF net, hours, Of
    <3>. QED BY <1>2, <2>3, <2>4, SumDrops DEF Total
  <2>. QED BY <2>5, <2>6
<1>13. figures.today.grid = Total(net, Of(Today))
  <2>1. figures.today.grid = Total(taken, Of(Today)) - Total(given, Of(Today))
    <3>1. figures.today.grid = DailyOf(store, "grid_import") - DailyOf(store, "grid_export")
      BY <1>8 DEF Daily, DailyOf
    <3>2. /\ DailyOf(store, "grid_import") = Total(taken, Of(Today))
          /\ DailyOf(store, "grid_export") = Total(given, Of(Today))
      <4>. HIDE DEF store
      <4>. QED BY <1>1, DailySum
    <3>. QED BY <3>1, <3>2
  <2>. HIDE DEF taken, given, net, Of
  <2>. QED BY <1>4, <2>1
<1>14. ASSUME \A h \in Of(Today) : power[h].writer = "collector"
       PROVE  figures.today.battery = -Total(charged, Of(Today))
  <2>. DEFINE into == Amount(store, "battery_import")
              from == Amount(store, "battery_export")
  <2>0. power \in [read -> [grid : Powers, battery : Powers, writer : Writers]] BY DEF EnergyInv
  <2>1. Numeric(into, read) /\ Numeric(from, read) BY <2>0, StoredAmounts
  <2>2. figures.today.battery = Total(from, Of(Today)) - Total(into, Of(Today))
    <3>1. figures.today.battery
            = DailyOf(store, "battery_export") - DailyOf(store, "battery_import")
      BY <1>8 DEF Daily, DailyOf
    <3>2. /\ DailyOf(store, "battery_import") = Total(into, Of(Today))
          /\ DailyOf(store, "battery_export") = Total(from, Of(Today))
      <4>. HIDE DEF store
      <4>. QED BY <1>1, <2>1, DailySum
    <3>. QED BY <3>1, <3>2
  <2>3. \A h \in Of(Today) : charged[h] = into[h] - from[h] BY <1>14, <2>0, StoredAmounts
  <2>4. Numeric(into, Of(Today)) /\ Numeric(from, Of(Today)) BY <2>1 DEF Numeric
  <2>40. IsFiniteSet(Of(Today)) BY <1>2
  <2>. HIDE DEF into, from, charged, Of
  <2>5. Total(charged, Of(Today)) = Total(into, Of(Today)) - Total(from, Of(Today))
    BY <2>3, <2>4, <2>40, SumOfDifferences DEF Total
  <2>6. Total(into, Of(Today)) \in Int /\ Total(from, Of(Today)) \in Int
    BY <2>4, <2>40, SumSplits DEF Total
  <2>. QED BY <2>2, <2>5, <2>6
<1>. QED BY <1>9, <1>10, <1>11, <1>12, <1>13, <1>14 DEF EnergyAgrees

(* The invariant holds at first, and after every answer. *)
LEMMA EnergyStarts == ASSUME EnergyInit PROVE EnergyInv
  BY DEF EnergyInit, EnergyInv

(* An answer makes new figures of what was read. *)
LEMMA EnergyStep == ASSUME EnergyInv, [EnergyArrives]_energyVars PROVE EnergyInv'
<1>1. CASE EnergyArrives
  <2>1. PICK hours \in SUBSET ReadHours :
          power' \in [hours -> [grid : Powers, battery : Powers, writer : Writers]]
    BY <1>1 DEF EnergyArrives
  <2>2. /\ DOMAIN power' \subseteq ReadHours
        /\ power' \in [DOMAIN power' -> [grid : Powers, battery : Powers, writer : Writers]]
    BY <2>1
  <2>. QED BY <1>1, <2>2 DEF EnergyArrives, EnergyInv
<1>2. CASE UNCHANGED energyVars BY <1>2 DEF EnergyInv, energyVars
<1>. QED BY <1>1, <1>2

(* The charts of energy tell the same about the grid, by days or by hours    *)
(* and whoever stored zeros or left them out, for any hours and powers       *)
(* (MonthlyAnalytics, YearlyAnalytics, DailySummary).                        *)
THEOREM FiguresOfTheGridAgree == EnergySpec => []EnergyAgrees
<1>1. EnergyInit => EnergyInv BY EnergyStarts
<1>2. EnergyInv /\ [EnergyArrives]_energyVars => EnergyInv' BY EnergyStep
<1>. QED BY <1>1, <1>2, FiguresAgree, PTL DEF EnergySpec

-----------------------------------------------------------------------------
(* The price of energy. *)

(* What is stored is one of the rates there may be at the moment. *)
PriceInv ==
  price # <<>> => /\ tariff \in Tariffs
                  /\ moment \in [date : Dates, weekday : Weekdays, hour : Hours]
                  /\ \E rate \in CurrentRates(tariff, moment) : price = <<rate>>

(* A period of every day that does not begin where it ends has an hour for   *)
(* the collector if it has it for the page.                                  *)
LEMMA SamePeriod ==
  ASSUME NEW p, {p.from, p.to} \subseteq Nat, p.from # p.to, p.fromDay = 0, p.toDay = 6,
         NEW weekday \in Weekdays, NEW hour \in Hours
  PROVE  InTime(p, weekday, hour) <=> Matches(p, weekday, hour)
<1>1. hour \in Nat BY TariffAssumption
<1>2. (weekday + 6) % 7 \in 0 .. 6 BY DEF Weekdays
<1>. QED BY <1>1, <1>2 DEF InTime, Matches, Weekdays

(* Without periods the rate for all is stored, and drawn. *)
LEMMA FlatRate ==
  ASSUME NEW t, NEW s \in DOMAIN t.seasons, NEW m, InSeason(t.seasons[s], m.date),
         Definite(t, s, m), DOMAIN t.seasons[s].periods = {}
  PROVE  CurrentRates(t, m) = {Cell(t, s, m.weekday, m.hour)}
<1>1. DOMAIN t.charges = {ALL} /\ DOMAIN t.charges[ALL] = {ALL} BY DEF Definite
<1>2. \A r \in DOMAIN t.seasons : InSeason(t.seasons[r], m.date) => r = s BY DEF Definite
<1>3. CurrentRates(t, m) = {t.charges[ALL][ALL]} BY <1>1, <1>2 DEF CurrentRates
<1>4. Cell(t, s, m.weekday, m.hour) = t.charges[ALL][ALL]
  BY <1>1 DEF Cell, RatesToShow
<1>. QED BY <1>3, <1>4

(* The rate of the period that has the time is stored, and drawn. *)
LEMMA PeriodRate ==
  ASSUME NEW t \in Tariffs, NEW s \in DOMAIN t.seasons,
         NEW m \in [date : Dates, weekday : Weekdays, hour : Hours],
         InSeason(t.seasons[s], m.date), Definite(t, s, m), EveryDay(t.seasons[s]),
         DOMAIN t.seasons[s].periods # {}
  PROVE  CurrentRates(t, m) = {Cell(t, s, m.weekday, m.hour)}
<1>. DEFINE periods == t.seasons[s].periods
            Now(r) == {n \in DOMAIN t.seasons[r].periods :
                         \E p \in t.seasons[r].periods[n] : InTime(p, m.weekday, m.hour)}
<1>1. PICK i \in DOMAIN PeriodNames : Matching(t.seasons[s], m.weekday, m.hour) = {i}
  BY DEF Definite
<1>2. /\ s \in DOMAIN t.charges /\ DOMAIN periods \subseteq DOMAIN t.charges[s]
      /\ \A n \in DOMAIN periods : \A p \in periods[n] : p.from # p.to
      /\ \A r \in DOMAIN t.seasons : InSeason(t.seasons[r], m.date) => r = s
  BY DEF Definite
<1>3. /\ DOMAIN periods \subseteq {PeriodNames[j] : j \in DOMAIN PeriodNames}
      /\ \A n \in DOMAIN periods : \A p \in periods[n] : {p.from, p.to} \subseteq Nat
  BY TariffAssumption
<1>4. ASSUME NEW n \in DOMAIN periods, NEW p \in periods[n]
      PROVE  InTime(p, m.weekday, m.hour) <=> Matches(p, m.weekday, m.hour)
  BY <1>2, <1>3, SamePeriod DEF EveryDay
<1>. DEFINE name == PeriodNames[i]
<1>5. Now(s) = {name}
  <2>1. name \in Now(s) BY <1>1, <1>4 DEF Matching
  <2>2. ASSUME NEW n \in Now(s) PROVE n = name
    <3>1. PICK j \in DOMAIN PeriodNames : n = PeriodNames[j] BY <1>3
    <3>2. j \in Matching(t.seasons[s], m.weekday, m.hour) BY <1>4, <3>1 DEF Matching
    <3>. QED BY <1>1, <3>1, <3>2
  <2>. QED BY <2>1, <2>2
<1>6. name \in DOMAIN t.charges[s] BY <1>2, <1>5
<1>7. CurrentRates(t, m) = {t.charges[s][name]}
  <2>1. {r \in DOMAIN t.seasons : InSeason(t.seasons[r], m.date)} = {s} BY <1>2
  <2>2. {r \in {s} : r \in DOMAIN t.charges} = {s} BY <1>2
  <2>3. Now(s) \cap DOMAIN t.charges[s] = {name} BY <1>5, <1>6
  <2>4. {t.charges[s][n] : n \in Now(s) \cap DOMAIN t.charges[s]} = {t.charges[s][name]} BY <2>3
  <2>. QED BY <2>1, <2>2, <2>4 DEF CurrentRates
<1>8. Min({i}) = i
  <2>1. i \in Int BY TariffAssumption
  <2>. QED BY <2>1 DEF Min
<1>9. Cell(t, s, m.weekday, m.hour) = t.charges[s][name]
  BY <1>1, <1>2, <1>6, <1>8 DEF Cell, RatesToShow
<1>. QED BY <1>7, <1>9

(* What was stored is on the schedule. *)
LEMMA PriceDrawn == PriceInv => RateOnSchedule
<1>. SUFFICES ASSUME PriceInv, price # <<>>, NEW s \in DOMAIN tariff.seasons,
                     InSeason(tariff.seasons[s], moment.date), Definite(tariff, s, moment),
                     EveryDay(tariff.seasons[s])
              PROVE  Agree(tariff, s, moment)
  BY DEF RateOnSchedule
<1>1. tariff \in Tariffs /\ moment \in [date : Dates, weekday : Weekdays, hour : Hours]
  BY DEF PriceInv
<1>2. CurrentRates(tariff, moment) = {Cell(tariff, s, moment.weekday, moment.hour)}
  BY <1>1, FlatRate, PeriodRate
<1>. QED BY <1>2 DEF PriceInv, Agree

(* The rate that is stored for a moment is the one the schedule shows for    *)
(* it, for any tariff whose periods are of every day (getCurrentRate, Cost). *)
THEOREM TheRateIsTheSchedules == TariffSpec => []RateOnSchedule
<1>1. TariffInit => PriceInv BY DEF TariffInit, PriceInv
<1>2. PriceInv /\ [Collect]_tariffVars => PriceInv' BY DEF Collect, PriceInv, tariffVars
<1>. QED BY <1>1, <1>2, PriceDrawn, PTL DEF TariffSpec

-----------------------------------------------------------------------------
(* The numbers of devices. *)

(* What is stored and shown is made of the last answer. *)
DevicesInv ==
  /\ bus \in Buses \cup {<<>>}
  /\ stored = Recorded(bus) /\ rows = Rows(bus)

(* A numbered device is there, and has what it is counted for. *)
LEMMA Numbered ==
  ASSUME NEW devices, NEW what, NEW s \in Numbers(devices, what)
  PROVE  s[2] \in DOMAIN devices /\ devices[s[2]][what] /\ s[1] = Number(devices, what, s[2])
  BY DEF Numbers

(* Devices before which the same are there have the same number. *)
LEMMA NumberStays ==
  ASSUME NEW b, NEW c, NEW what, NEW d \in Nat, b[d][what] = c[d][what],
         \A e \in 1 .. d - 1 : b[e][what] = c[e][what]
  PROVE  Number(b, what, d) = Number(c, what, d)
<1>1. \A e \in 1 .. d : b[e][what] = c[e][what]
  <2>1. \A e \in 1 .. d : e = d \/ e \in 1 .. d - 1 OBVIOUS
  <2>. QED BY <2>1
<1>2. {e \in 1 .. d : b[e][what]} = {e \in 1 .. d : c[e][what]} BY <1>1
<1>. QED BY <1>2 DEF Number

(* The number of a device if none is missing. *)
LEMMA NumberOfAll ==
  ASSUME NEW devices, NEW what, NEW d \in Nat, \A e \in 1 .. d : devices[e][what]
  PROVE  Number(devices, what, d) = d
<1>1. {e \in 1 .. d : devices[e][what]} = 1 .. d OBVIOUS
<1>2. Cardinality(1 .. d) = d BY FS_Interval
<1>. QED BY <1>1, <1>2 DEF Number

(* Devices are the places of an answer. *)
LEMMA Places ==
  ASSUME DevicesInv
  PROVE  /\ DOMAIN bus \subseteq Nat \ {0} /\ \A d \in DOMAIN bus : 1 .. d \subseteq DOMAIN bus
         /\ \A d \in DOMAIN bus : bus[d] \in [measured : BOOLEAN, listed : BOOLEAN,
                                              strings : BOOLEAN, ambient : BOOLEAN, fans : BOOLEAN]
<1>. DEFINE D == [measured : BOOLEAN, listed : BOOLEAN, strings : BOOLEAN,
                  ambient : BOOLEAN, fans : BOOLEAN]
<1>1. bus \in Seq(D)
  <2>1. Buses \subseteq Seq(D) BY DevicesAssumption
  <2>. HIDE DEF D
  <2>2. <<>> \in Seq(D) OBVIOUS
  <2>3. bus \in Seq(D) BY <2>1, <2>2 DEF DevicesInv
  <2>. QED BY <2>3
<1>2. Len(bus) \in Nat /\ DOMAIN bus = 1 .. Len(bus) BY <1>1
<1>3. \A d \in DOMAIN bus : d \in Nat \ {0} /\ 1 .. d \subseteq DOMAIN bus BY <1>2
<1>4. \A d \in DOMAIN bus : bus[d] \in D
  <2>. HIDE DEF D
  <2>. QED BY <1>1, <1>2
<1>. QED BY <1>3, <1>4

(* In one collection one number is one device. *)
LEMMA OneCollection == DevicesInv => OneDeviceANumber
<1>. SUFFICES ASSUME DevicesInv PROVE OneDeviceANumber OBVIOUS
<1>1. stored.strings \subseteq stored.inverters BY DEF DevicesInv, Recorded, StringNumbers
<1>2. ASSUME NEW r \in rows, \A e \in 1 .. r[2] : bus[e].measured = bus[e].listed
      PROVE  r \in stored.inverters
  <2>1. /\ r[2] \in DOMAIN bus /\ bus[r[2]].listed
        /\ r[1] = Number(bus, "listed", r[2]) /\ r = <<r[1], r[2]>>
    BY DEF DevicesInv, Rows, Numbers
  <2>2. r[2] \in Nat /\ r[2] \in 1 .. r[2] BY <2>1, Places
  <2>3. {e \in 1 .. r[2] : bus[e]["listed"]} = {e \in 1 .. r[2] : bus[e]["measured"]} BY <1>2
  <2>4. Number(bus, "measured", r[2]) = r[1] BY <2>1, <2>3 DEF Number
  <2>5. bus[r[2]].measured BY <1>2, <2>1, <2>2
  <2>. QED BY <2>1, <2>4, <2>5 DEF DevicesInv, Recorded, Numbers
<1>3. ASSUME NEW r \in rows, \A e \in 1 .. r[2] : bus[e].listed
      PROVE  Vin(r[1]) = r[2]
  <2>1. r[2] \in DOMAIN bus /\ r[1] = Number(bus, "listed", r[2]) BY Numbered DEF DevicesInv, Rows
  <2>. QED BY <1>3, <2>1, Places, NumberOfAll DEF Vin
<1>. QED BY <1>1, <1>2, <1>3 DEF OneDeviceANumber

(* From one to the next a device keeps its number. *)
LEMMA SameNumber ==
  ASSUME DevicesInv, DevicesInv', NEW what, NEW s \in Numbers(bus, what),
         NEW t \in Numbers(bus', what), s[2] = t[2], AsBefore(s[2], what)
  PROVE  s[1] = t[1]
<1>1. /\ s[2] \in DOMAIN bus /\ bus[s[2]][what] /\ s[1] = Number(bus, what, s[2])
      /\ bus'[s[2]][what] /\ t[1] = Number(bus', what, s[2])
  BY Numbered
<1>2. s[2] \in Nat BY <1>1, Places
<1>. QED BY <1>1, <1>2, NumberStays DEF AsBefore

(* From one answer of the gateway to the next a device keeps its number, if  *)
(* the same devices before it are missing, whatever becomes of those behind  *)
(* it (Collect, Status).                                                     *)
THEOREM NumbersKept == DevicesSpec => DevicesKeepNumbers
<1>1. DevicesInit => DevicesInv BY DEF DevicesInit, DevicesInv
<1>2. DevicesInv /\ [DevicesAnswer]_deviceVars => DevicesInv'
  BY DEF DevicesAnswer, DevicesInv, deviceVars
<1>. DEFINE Stays(what, a, b) == \A s \in a, t \in b :
              s[2] = t[2] /\ AsBefore(s[2], what) => s[1] = t[1]
            Keeps == /\ OneDeviceANumber'
                     /\ Stays("measured", stored.inverters \cup stored.strings,
                                         stored'.inverters \cup stored'.strings)
                     /\ Stays("ambient", stored.ambient, stored'.ambient)
                     /\ Stays("fans", stored.fans, stored'.fans)
<1>3. ASSUME DevicesInv, DevicesInv' PROVE Keeps
  <2>1. OneDeviceANumber' BY <1>3, OneCollection, PTL
  <2>2. /\ stored.inverters \cup stored.strings = Numbers(bus, "measured")
        /\ stored.ambient = Numbers(bus, "ambient") /\ stored.fans = Numbers(bus, "fans")
    BY <1>3 DEF DevicesInv, Recorded, StringNumbers
  <2>3. /\ stored'.inverters \cup stored'.strings = Numbers(bus', "measured")
        /\ stored'.ambient = Numbers(bus', "ambient") /\ stored'.fans = Numbers(bus', "fans")
    BY <1>3 DEF DevicesInv, Recorded, StringNumbers
  <2>4. \A what : Stays(what, Numbers(bus, what), Numbers(bus', what)) BY <1>3, SameNumber
  <2>. QED BY <2>1, <2>2, <2>3, <2>4
<1>4. Keeps =>
        /\ OneDeviceANumber'
        /\ \A s \in stored.inverters \cup stored.strings :
             \A t \in stored'.inverters \cup stored'.strings :
               s[2] = t[2] /\ AsBefore(s[2], "measured") => s[1] = t[1]
        /\ \A s \in stored.ambient, t \in stored'.ambient :
             s[2] = t[2] /\ AsBefore(s[2], "ambient") => s[1] = t[1]
        /\ \A s \in stored.fans, t \in stored'.fans :
             s[2] = t[2] /\ AsBefore(s[2], "fans") => s[1] = t[1]
  OBVIOUS
<1>. QED BY <1>1, <1>2, <1>3, <1>4, PTL DEF DevicesSpec, DevicesKeepNumbers

-----------------------------------------------------------------------------
(* The panel of alerts.                                                      *)

Spans == [start : Nat, end : Nat]
Within(t, i) == i.start <= t /\ t <= i.end

(* An interval begins with a report and goes no longer than Gap beyond one.  *)
Shows(i, active) ==
  /\ i \in Spans /\ i.start <= i.end /\ i.start \in active
  /\ \A t \in i.start .. i.end : \E a \in active : i.start <= a /\ a <= t /\ t - a <= Gap

LEMMA StillShows ==
  ASSUME NEW i, NEW active, NEW more, active \subseteq more, Shows(i, active)
  PROVE  Shows(i, more)
  BY DEF Shows

(* Times are put in order. *)
LEMMA TimesAscend ==
  ASSUME NEW times \in SUBSET Nat, IsFiniteSet(times)
  PROVE  LET N == Cardinality(times)
             seq == Ascending(times)
         IN  /\ N \in Nat /\ seq \in [1 .. N -> times]
             /\ \A t \in times : \E n \in 1 .. N : seq[n] = t
             /\ \A m, n \in 1 .. N : m < n => seq[m] < seq[n]
<1> DEFINE N == Cardinality(times)
           seq == Ascending(times)
           R == {p \in times \X times : p[1] < p[2]}
<1>1. \A x, y \in times : <<x, y>> \in R <=> x < y OBVIOUS
<1>2. \A x \in times : {y \in times : y < x} = {y \in times : <<y, x>> \in R} BY <1>1
<1>3. /\ seq = [n \in 1 .. N |-> seq[n]]
      /\ \A n \in 1 .. N :
           (\E x \in times : Cardinality({y \in times : <<y, x>> \in R}) = n - 1)
             => seq[n] \in times /\ Cardinality({y \in times : <<y, seq[n]>> \in R}) = n - 1
  <2>1. seq = [n \in 1 .. N |-> CHOOSE t \in times : Cardinality({u \in times : u < t}) = n - 1]
    BY DEF Ascending
  <2>2. ASSUME NEW n \in 1 .. N, NEW x \in times, Cardinality({y \in times : <<y, x>> \in R}) = n - 1
        PROVE  seq[n] \in times /\ Cardinality({y \in times : <<y, seq[n]>> \in R}) = n - 1
    <3>1. seq[n] = CHOOSE t \in times : Cardinality({u \in times : u < t}) = n - 1 BY <2>1
    <3>2. Cardinality({u \in times : u < x}) = n - 1 BY <1>2, <2>2
    <3>3. seq[n] \in times /\ Cardinality({u \in times : u < seq[n]}) = n - 1 BY <3>1, <3>2
    <3>. HIDE DEF R, seq
    <3>. QED BY <1>2, <3>3
  <2>3. seq = [n \in 1 .. N |-> seq[n]]
    <3>1. DOMAIN seq = 1 .. N BY <2>1
    <3>. QED BY <2>1, <3>1, Zenon
  <2>. HIDE DEF seq
  <2>. QED BY <2>2, <2>3
<1>4. /\ \A x \in times : <<x, x>> \notin R
      /\ \A x, y \in times : x # y => <<x, y>> \in R \/ <<y, x>> \in R
      /\ \A x, y, z \in times : <<x, y>> \in R /\ <<y, z>> \in R => <<x, z>> \in R
  OBVIOUS
<1>. HIDE DEF R, seq
<1>5. /\ seq \in [1 .. N -> times] /\ N \in Nat
      /\ \A x \in times : \E n \in 1 .. N : seq[n] = x
      /\ \A m, n \in 1 .. N : m < n => <<seq[m], seq[n]>> \in R
  BY <1>3, <1>4, RankSorts
<1>6. \A m, n \in 1 .. N : m < n => seq[m] < seq[n] BY <1>1, <1>5
<1>. QED BY <1>5, <1>6 DEF seq

(* So are intervals, by their start. *)
LEMMA IntervalsAscend ==
  ASSUME NEW found \in SUBSET Spans, IsFiniteSet(found)
  PROVE  LET N == Cardinality(found)
             seq == ByStart(found)
         IN  /\ N \in Nat /\ seq \in [1 .. N -> found]
             /\ \A i \in found : \E n \in 1 .. N : seq[n] = i
             /\ \A m, n \in 1 .. N : m < n => seq[m].start <= seq[n].start
<1> DEFINE N == Cardinality(found)
           seq == ByStart(found)
           R == {p \in found \X found : Earlier(p[1], p[2])}
<1>0. \A x \in found : x.start \in Nat /\ x.end \in Nat BY DEF Spans
<1>1. \A x, y \in found : <<x, y>> \in R <=> Earlier(x, y) OBVIOUS
<1>2. \A x \in found : {y \in found : Earlier(y, x)} = {y \in found : <<y, x>> \in R} BY <1>1
<1>3. /\ seq = [n \in 1 .. N |-> seq[n]]
      /\ \A n \in 1 .. N :
           (\E x \in found : Cardinality({y \in found : <<y, x>> \in R}) = n - 1)
             => seq[n] \in found /\ Cardinality({y \in found : <<y, seq[n]>> \in R}) = n - 1
  <2>1. seq = [n \in 1 .. N |->
                 CHOOSE i \in found : Cardinality({j \in found : Earlier(j, i)}) = n - 1]
    BY DEF ByStart
  <2>2. ASSUME NEW n \in 1 .. N, NEW x \in found, Cardinality({y \in found : <<y, x>> \in R}) = n - 1
        PROVE  seq[n] \in found /\ Cardinality({y \in found : <<y, seq[n]>> \in R}) = n - 1
    <3>1. seq[n] = CHOOSE i \in found : Cardinality({j \in found : Earlier(j, i)}) = n - 1 BY <2>1
    <3>2. Cardinality({j \in found : Earlier(j, x)}) = n - 1 BY <1>2, <2>2
    <3>3. seq[n] \in found /\ Cardinality({j \in found : Earlier(j, seq[n])}) = n - 1
      BY <3>1, <3>2
    <3>. HIDE DEF R, seq
    <3>. QED BY <1>2, <3>3
  <2>3. seq = [n \in 1 .. N |-> seq[n]]
    <3>1. DOMAIN seq = 1 .. N BY <2>1
    <3>. QED BY <2>1, <3>1, Zenon
  <2>. HIDE DEF seq
  <2>. QED BY <2>2, <2>3
<1>. HIDE DEF R, seq
<1>4. \A x \in found : <<x, x>> \notin R BY <1>0, <1>1 DEF Earlier
<1>5. \A x, y \in found : x # y => <<x, y>> \in R \/ <<y, x>> \in R
  <2>1. \A x, y \in found : x.start = y.start /\ x.end = y.end => x = y BY DEF Spans
  <2>. QED BY <1>0, <1>1, <2>1 DEF Earlier
<1>6. \A x, y, z \in found : <<x, y>> \in R /\ <<y, z>> \in R => <<x, z>> \in R
  BY <1>0, <1>1 DEF Earlier
<1>7. /\ seq \in [1 .. N -> found] /\ N \in Nat
      /\ \A x \in found : \E n \in 1 .. N : seq[n] = x
      /\ \A m, n \in 1 .. N : m < n => <<seq[m], seq[n]>> \in R
  BY <1>3, <1>4, <1>5, <1>6, RankSorts
<1>8. ASSUME NEW m \in 1 .. N, NEW n \in 1 .. N, m < n PROVE seq[m].start <= seq[n].start
  <2>1. seq[m] \in found /\ seq[n] \in found /\ Earlier(seq[m], seq[n]) BY <1>1, <1>7, <1>8
  <2>2. seq[m].start \in Nat /\ seq[n].start \in Nat BY <1>0, <2>1
  <2>. QED BY <2>1, <2>2 DEF Earlier
<1>. QED BY <1>7, <1>8 DEF seq

-----------------------------------------------------------------------------
(* The scan of one series. *)

ScanType == [from : Nat \cup {Closed}, last : Nat, found : SUBSET Spans]
NoScan == [from |-> Closed, last |-> 0, found |-> {}]

(* What was found shows the reports so far, but for those that are still to  *)
(* become an interval.                                                       *)
ScanInv(scan, active) ==
  /\ scan \in ScanType /\ IsFiniteSet(scan.found)
  /\ \A i \in scan.found : Shows(i, active)
  /\ scan.from # Closed => scan.last \in active /\ Shows(Interval(scan.from, scan.last), active)
                           /\ scan.from <= scan.last
  /\ \A a \in active : \/ \E i \in scan.found : Within(a, i)
                       \/ scan.from # Closed /\ Within(a, Interval(scan.from, scan.last))

LEMMA PointTyped ==
  ASSUME NEW scan \in ScanType, NEW t \in Nat, NEW active \in BOOLEAN
  PROVE  Point(scan, t, active) \in ScanType
<1>1. scan.from # Closed => Interval(scan.from, scan.last) \in Spans /\ Interval(scan.from, t) \in Spans
  BY DEF ScanType, Spans, Interval
<1>. QED BY <1>1 DEF Point, ScanType

(* One more point: what was reported before it is earlier. *)
LEMMA PointKeeps ==
  ASSUME NEW active \in SUBSET Nat, NEW scan, ScanInv(scan, active), NEW t \in Nat,
         \A a \in active : a < t, NEW on \in BOOLEAN
  PROVE  ScanInv(Point(scan, t, on), IF on THEN active \cup {t} ELSE active)
<1> DEFINE silent == scan.from # Closed /\ t - scan.last > Gap
           from == IF silent THEN Closed ELSE scan.from
           found == scan.found \cup IF silent THEN {Interval(scan.from, scan.last)} ELSE {}
           more == IF on THEN active \cup {t} ELSE active
           opened == IF from = Closed THEN t ELSE from
           rest == IF from # Closed THEN {Interval(from, t)} ELSE {}
           next == Point(scan, t, on)
<1>0. /\ scan \in ScanType /\ scan.from \in Nat \cup {Closed} /\ scan.last \in Nat
      /\ scan.found \in SUBSET Spans
  BY DEF ScanInv, ScanType
<1>1. next = IF on THEN [from |-> opened, last |-> t, found |-> found]
             ELSE [from |-> Closed, last |-> scan.last, found |-> found \cup rest]
  <2>1. CASE on BY <2>1 DEF Point
  <2>2. CASE ~on /\ from # Closed
    <3>1. next = [scan EXCEPT !.from = Closed, !.found = found \cup {Interval(from, t)}]
      BY <2>2 DEF Point
    <3>2. rest = {Interval(from, t)} BY <2>2
    <3>. HIDE DEF next, found, from, rest
    <3>3. next = [from |-> Closed, last |-> scan.last, found |-> found \cup rest]
      BY <1>0, <3>1, <3>2 DEF ScanType
    <3>. QED BY <2>2, <3>3
  <2>3. CASE ~on /\ from = Closed
    <3>1. next = [scan EXCEPT !.from = Closed, !.found = found] BY <2>3 DEF Point
    <3>2. found = found \cup rest BY <2>3
    <3>. HIDE DEF next, found, from, rest
    <3>3. next = [from |-> Closed, last |-> scan.last, found |-> found \cup rest]
      BY <1>0, <3>1, <3>2 DEF ScanType
    <3>. QED BY <2>3, <3>3
  <2>. QED BY <2>1, <2>2, <2>3
<1>2. next \in ScanType BY <1>0, PointTyped
<1>3. IsFiniteSet(found) /\ IsFiniteSet(found \cup rest)
  <2>1. /\ IsFiniteSet(scan.found) /\ IsFiniteSet({})
        /\ IsFiniteSet({Interval(scan.from, scan.last)}) /\ IsFiniteSet({Interval(from, t)})
    BY FS_Singleton, FS_EmptySet DEF ScanInv
  <2>2. IsFiniteSet(found) BY <2>1, FS_Union
  <2>. HIDE DEF found
  <2>. QED BY <2>1, <2>2, FS_Union
<1>4. \A i \in found : Shows(i, active) BY DEF ScanInv
<1>5. \A a \in active : \/ \E i \in found : Within(a, i)
                        \/ from # Closed /\ Within(a, Interval(from, scan.last))
  BY DEF ScanInv
<1>6. from # Closed =>
        /\ from = scan.from /\ scan.last \in active /\ from <= scan.last
        /\ from \in Nat /\ from <= t /\ t - scan.last <= Gap
        /\ Shows(Interval(from, scan.last), active)
  BY <1>0 DEF ScanInv, Gap
<1>7. from # Closed => Shows(Interval(from, t), active)
  <2>. SUFFICES ASSUME from # Closed PROVE Shows(Interval(from, t), active) OBVIOUS
  <2>. HIDE DEF from
  <2>1. /\ Interval(from, t) \in Spans /\ Interval(from, t).start = from
        /\ Interval(from, t).end = t /\ from <= t
    BY <1>6 DEF Interval, Spans
  <2>2. from \in active BY <1>6 DEF Shows, Interval
  <2>3. ASSUME NEW u \in from .. t PROVE \E a \in active : from <= a /\ a <= u /\ u - a <= Gap
    <3>1. CASE u <= scan.last
      <4>1. u \in from .. scan.last BY <1>0, <1>6, <3>1
      <4>. QED BY <1>6, <4>1 DEF Shows, Interval
    <3>2. CASE u > scan.last
      <4>1. scan.last <= u /\ u - scan.last <= Gap BY <1>0, <1>6, <3>2 DEF Gap
      <4>. QED BY <1>6, <4>1
    <3>. QED BY <1>0, <1>6, <3>1, <3>2
  <2>. QED BY <2>1, <2>2, <2>3 DEF Shows
<1>8. from # Closed => \A a \in active : Within(a, Interval(from, scan.last)) => Within(a, Interval(from, t))
  BY <1>0, <1>6 DEF Within, Interval
<1>9. CASE on
  <2>1. more = active \cup {t} /\ next = [from |-> opened, last |-> t, found |-> found] BY <1>1, <1>9
  <2>2. opened # Closed /\ opened \in Nat /\ opened <= t BY <1>6 DEF Closed
  <2>3. Shows(Interval(opened, t), more)
    <3>1. CASE from # Closed BY <1>7, <2>1, <3>1, StillShows
    <3>2. CASE from = Closed
      <4>1. /\ Interval(t, t) \in Spans /\ Interval(t, t).start = t
            /\ Interval(t, t).end = t /\ t <= t
        BY DEF Interval, Spans
      <4>2. \A u \in t .. t : t <= u /\ u - t <= Gap BY DEF Gap
      <4>3. Shows(Interval(t, t), more) BY <2>1, <4>1, <4>2 DEF Shows
      <4>. QED BY <3>2, <4>3
    <3>. QED BY <3>1, <3>2
  <2>4. \A i \in found : Shows(i, more)
    <3>. HIDE DEF found, more
    <3>. QED BY <1>4, <2>1, StillShows
  <2>5. \A a \in more : (\E i \in found : Within(a, i)) \/ Within(a, Interval(opened, t))
    <3>. SUFFICES ASSUME NEW a \in more
                  PROVE  (\E i \in found : Within(a, i)) \/ Within(a, Interval(opened, t))
      OBVIOUS
    <3>1. CASE a = t BY <2>2, <3>1 DEF Within, Interval
    <3>2. CASE a \in active
      <4>. HIDE DEF found, from
      <4>1. CASE from = Closed BY <1>5, <3>2, <4>1
      <4>2. CASE from # Closed BY <1>5, <1>8, <3>2, <4>2
      <4>. QED BY <4>1, <4>2
    <3>. QED BY <2>1, <3>1, <3>2
  <2>6. next.from = opened /\ next.last = t /\ next.found = found BY <2>1
  <2>7. t \in more BY <2>1
  <2>. HIDE DEF next, opened, found, more
  <2>8. ScanInv(next, more) BY <1>2, <1>3, <2>2, <2>3, <2>4, <2>5, <2>6, <2>7 DEF ScanInv
  <2>. QED BY <2>8 DEF next, more
<1>10. CASE ~on
  <2>1. /\ more = active
        /\ next = [from |-> Closed, last |-> scan.last, found |-> found \cup rest]
    BY <1>1, <1>10
  <2>2. next.from = Closed /\ next.found = found \cup rest BY <2>1
  <2>3. \A i \in rest : Shows(i, active) BY <1>7
  <2>4. \A a \in active : \E i \in found \cup rest : Within(a, i)
    <3>1. from # Closed => Interval(from, t) \in rest OBVIOUS
    <3>. HIDE DEF found, rest, from
    <3>. QED BY <1>5, <1>8, <3>1
  <2>. HIDE DEF next, found, rest, more
  <2>5. ScanInv(next, more) BY <1>2, <1>3, <1>4, <2>1, <2>2, <2>3, <2>4 DEF ScanInv
  <2>. QED BY <2>5 DEF next, more
<1>. QED BY <1>9, <1>10

(* The scans of the first points of a series. *)
Scans(series, iter) ==
  iter = [s \in SUBSET (DOMAIN Ascending(DOMAIN series)) |->
            IF s = {} THEN NoScan
            ELSE LET t == Ascending(DOMAIN series)[Max(s)]
                 IN  Point(iter[s \ {Max(s)}], t, series[t])]
ScanOf(series) == CHOOSE iter : Scans(series, iter)

LEMMA UnfoldScan ==
  ASSUME NEW series
  PROVE  Intervals(series) =
           LET scan == ScanOf(series)[DOMAIN Ascending(DOMAIN series)]
           IN  scan.found \cup IF scan.from = Closed THEN {} ELSE {Interval(scan.from, scan.last)}
  BY DEF Intervals, FoldLeft, MapThenFoldSet, ScanOf, Scans, NoScan

(* The points of an alert. *)
Reported(series) == {t \in DOMAIN series : series[t]}
IsSeries(series) ==
  /\ DOMAIN series \in SUBSET Nat /\ IsFiniteSet(DOMAIN series)
  /\ \A t \in DOMAIN series : series[t] \in BOOLEAN

(* The intervals of a series show its reports. *)
LEMMA SeriesShown ==
  ASSUME NEW series, IsSeries(series)
  PROVE  /\ IsFiniteSet(Intervals(series)) /\ Intervals(series) \subseteq Spans
         /\ \A i \in Intervals(series) : Shows(i, Reported(series))
         /\ \A t \in Reported(series) : \E i \in Intervals(series) : Within(t, i)
<1> DEFINE times == Ascending(DOMAIN series)
           N == Cardinality(DOMAIN series)
           step == [p \in (1 .. N) \X ScanType |-> Point(p[2], times[p[1]], series[times[p[1]]])]
           iter == ScanOf(series)
           upTo(k) == {t \in Reported(series) : \E n \in 1 .. k : times[n] = t}
           T == {k \in Nat : k <= N => ScanInv(iter[1 .. k], upTo(k))}
<1>1. /\ N \in Nat /\ times \in [1 .. N -> DOMAIN series]
      /\ \A t \in DOMAIN series : \E n \in 1 .. N : times[n] = t
      /\ \A m, n \in 1 .. N : m < n => times[m] < times[n]
  BY TimesAscend DEF IsSeries
<1>2. \A n \in 1 .. N : times[n] \in Nat /\ series[times[n]] \in BOOLEAN BY <1>1 DEF IsSeries
<1>3. NoScan \in ScanType BY DEF NoScan, ScanType, Closed
<1>4. DOMAIN times = 1 .. N BY <1>1
<1>. HIDE DEF times, N
<1>5. Scans(series, iter)
  <2>1. \A x \in 1 .. N, a \in ScanType : step[<<x, a>>] = Point(a, times[x], series[times[x]])
    OBVIOUS
  <2>2. \A x \in 1 .. N, a \in ScanType : step[<<x, a>>] \in ScanType
    BY <1>2, <2>1, PointTyped
  <2>. HIDE DEF step
  <2>3. PICK f \in [SUBSET (1 .. N) -> ScanType] : Folds(N, NoScan, step, f)
    BY <1>1, <1>3, <2>2, FoldsExist
  <2>4. ASSUME NEW s \in SUBSET (1 .. N), s # {}
        PROVE  step[<<Max(s), f[s \ {Max(s)}]>>] =
                 Point(f[s \ {Max(s)}], times[Max(s)], series[times[Max(s)]])
    <3>1. Max(s) \in 1 .. N BY <1>1, <2>4, LargestIn
    <3>2. f[s \ {Max(s)}] \in ScanType OBVIOUS
    <3>. QED BY <2>1, <3>1, <3>2
  <2>5. Scans(series, f) BY <1>4, <2>3, <2>4 DEF Scans, Folds, times
  <2>. QED BY <2>5 DEF ScanOf
<1>6. \A s \in SUBSET (1 .. N) :
        iter[s] = IF s = {} THEN NoScan
                  ELSE Point(iter[s \ {Max(s)}], times[Max(s)], series[times[Max(s)]])
  BY <1>4, <1>5 DEF Scans, times
<1>. HIDE DEF iter
<1>7. 0 \in T
  <2>1. 1 .. 0 = {} OBVIOUS
  <2>2. iter[1 .. 0] = NoScan BY <1>6, <2>1
  <2>3. upTo(0) = {} BY <2>1
  <2>4. ScanInv(NoScan, {}) BY <1>3, FS_EmptySet DEF ScanInv, NoScan
  <2>. QED BY <2>2, <2>3, <2>4
<1>8. ASSUME NEW k \in T PROVE k + 1 \in T
  <2>. SUFFICES ASSUME k + 1 <= N PROVE ScanInv(iter[1 .. (k + 1)], upTo(k + 1)) OBVIOUS
  <2>. DEFINE t == times[k + 1]
  <2>1. k \in Nat /\ k + 1 \in 1 .. N /\ k + 1 \in Nat \ {0} /\ k <= N /\ (k + 1) - 1 = k
    BY <1>1
  <2>2. ScanInv(iter[1 .. k], upTo(k)) BY <2>1
  <2>3. 1 .. (k + 1) # {} /\ Max(1 .. (k + 1)) = k + 1 /\ (1 .. (k + 1)) \ {k + 1} = 1 .. k
    BY <2>1, FoldsGoOn
  <2>4. 1 .. (k + 1) \in SUBSET (1 .. N) BY <1>1, <2>1
  <2>5. iter[1 .. (k + 1)] = Point(iter[1 .. k], t, series[t]) BY <1>6, <2>3, <2>4
  <2>6. t \in Nat /\ series[t] \in BOOLEAN /\ t \in DOMAIN series BY <1>1, <1>2, <2>1
  <2>7. \A a \in upTo(k) : a < t BY <1>1, <2>1
  <2>8. upTo(k) \in SUBSET Nat BY DEF Reported, IsSeries
  <2>9. upTo(k + 1) = IF series[t] THEN upTo(k) \cup {t} ELSE upTo(k)
    <3>1. \A n \in 1 .. (k + 1) : n \in 1 .. k \/ n = k + 1 BY <2>1
    <3>2. \A n \in 1 .. k : n \in 1 .. (k + 1) BY <2>1
    <3>3. k + 1 \in 1 .. (k + 1) BY <2>1
    <3>. QED BY <2>6, <3>1, <3>2, <3>3 DEF Reported
  <2>. DEFINE before == upTo(k)
              on == series[t]
  <2>. HIDE DEF upTo, t
  <2>10. before \in SUBSET Nat /\ ScanInv(iter[1 .. k], before) /\ on \in BOOLEAN
         /\ \A a \in before : a < t
    BY <2>2, <2>6, <2>7, <2>8
  <2>. HIDE DEF before, on
  <2>11. ScanInv(Point(iter[1 .. k], t, on), IF on THEN before \cup {t} ELSE before)
    BY <2>6, <2>10, PointKeeps
  <2>. QED BY <2>5, <2>9, <2>11 DEF before, on
<1>9. ScanInv(iter[1 .. N], upTo(N))
  <2>. HIDE DEF T
  <2>1. T = Nat BY <1>7, <1>8, Inductive DEF T
  <2>2. N \in T /\ N <= N BY <1>1, <2>1
  <2>. QED BY <2>2 DEF T
<1>10. upTo(N) = Reported(series) BY <1>1 DEF Reported
<1>. DEFINE scan == iter[1 .. N]
            last == IF scan.from = Closed THEN {} ELSE {Interval(scan.from, scan.last)}
<1>11. Intervals(series) = scan.found \cup last BY <1>4, UnfoldScan DEF times, iter
<1>12. ScanInv(scan, Reported(series)) BY <1>9, <1>10
<1>. HIDE DEF scan
<1>13. \A i \in scan.found \cup last : Shows(i, Reported(series)) BY <1>12 DEF ScanInv
<1>14. IsFiniteSet(scan.found \cup last)
  <2>1. IsFiniteSet(scan.found) /\ IsFiniteSet(last)
    BY <1>12, FS_EmptySet, FS_Singleton DEF ScanInv
  <2>. QED BY <2>1, FS_Union
<1>15. \A t \in Reported(series) : \E i \in scan.found \cup last : Within(t, i)
  BY <1>12 DEF ScanInv
<1>16. \A i \in scan.found \cup last : i \in Spans BY <1>13 DEF Shows
<1>. QED BY <1>11, <1>13, <1>14, <1>15, <1>16

-----------------------------------------------------------------------------
(* Intervals become bars. *)

(* Bars show reports, apart from each other. *)
BarsInv(merged, active) ==
  /\ merged \in Seq(Spans)
  /\ \A b \in DOMAIN merged : Shows(merged[b], active)
  /\ \A b \in 1 .. Len(merged) - 1 : merged[b].end + Nearby < merged[b + 1].start

Covered(i, merged) ==
  \E b \in DOMAIN merged : merged[b].start <= i.start /\ i.end <= merged[b].end

LEMMA JoinTyped ==
  ASSUME NEW merged \in Seq(Spans), NEW next \in Spans
  PROVE  Join(merged, next) \in Seq(Spans)
<1>1. CASE merged = <<>> BY <1>1 DEF Join
<1>2. CASE merged # <<>>
  <2>. DEFINE n == Len(merged)
              e == IF next.end > merged[n].end THEN next.end ELSE merged[n].end
  <2>1. n \in DOMAIN merged /\ merged[n] \in Spans BY <1>2
  <2>2. [merged EXCEPT ![n].end = IF next.end > @ THEN next.end ELSE @]
          = [merged EXCEPT ![n] = [merged[n] EXCEPT !.end = e]]
    BY <2>1
  <2>3. [merged[n] EXCEPT !.end = e] \in Spans BY <2>1 DEF Spans
  <2>. DEFINE r == [merged[n] EXCEPT !.end = e]
  <2>. HIDE DEF e, r
  <2>5. r \in Spans BY <2>3 DEF r
  <2>6. n \in Nat /\ merged \in [1 .. n -> Spans] OBVIOUS
  <2>. HIDE DEF n
  <2>7. [merged EXCEPT ![n] = r] \in [1 .. n -> Spans] BY <2>5, <2>6
  <2>4. [merged EXCEPT ![n] = r] \in Seq(Spans) BY <2>6, <2>7
  <2>. QED BY <1>2, <2>2, <2>4 DEF Join, r, e, n
<1>. QED BY <1>1, <1>2

(* One more interval, which begins no earlier than the last bar. *)
LEMMA JoinKeeps ==
  ASSUME NEW active \in SUBSET Nat, NEW merged, BarsInv(merged, active),
         NEW next, Shows(next, active),
         merged # <<>> => merged[Len(merged)].start <= next.start
  PROVE  LET joined == Join(merged, next)
         IN  /\ BarsInv(joined, active) /\ joined # <<>> /\ Covered(next, joined)
             /\ joined[Len(joined)].start <= next.start
             /\ \A i \in Spans : Covered(i, merged) => Covered(i, joined)
<1> DEFINE n == Len(merged)
           current == merged[n]
           joined == Join(merged, next)
           bar == [start |-> current.start,
                   end |-> IF next.end > current.end THEN next.end ELSE current.end]
<1>0. /\ merged \in Seq(Spans) /\ n \in Nat /\ next \in Spans
      /\ next.start \in Nat /\ next.end \in Nat
  BY DEF BarsInv, Shows, Spans
<1>1. joined \in Seq(Spans) BY <1>0, JoinTyped
<1>2. CASE merged # <<>> /\ next.start <= current.end + Nearby
  <2>1. /\ n \in DOMAIN merged /\ n \in 1 .. n /\ current \in Spans
        /\ current.start \in Nat /\ current.end \in Nat
    <3>1. n \in DOMAIN merged /\ n \in 1 .. n BY <1>0, <1>2
    <3>2. merged[n] \in Spans BY <1>0, <3>1
    <3>. QED BY <3>1, <3>2 DEF Spans
  <2>2. joined = [merged EXCEPT ![n] = bar]
    <3>1. joined = [merged EXCEPT ![n].end = IF next.end > @ THEN next.end ELSE @]
      BY <1>2 DEF Join
    <3>2. [current EXCEPT !.end = IF next.end > current.end THEN next.end ELSE current.end] = bar
      BY <2>1 DEF Spans
    <3>3. joined = [merged EXCEPT ![n] =
             [current EXCEPT !.end = IF next.end > current.end THEN next.end ELSE current.end]]
      BY <2>1, <3>1
    <3>. QED BY <3>2, <3>3
  <2>3. /\ DOMAIN joined = DOMAIN merged /\ Len(joined) = n /\ joined[n] = bar
        /\ \A b \in DOMAIN merged : b # n => joined[b] = merged[b]
    BY <1>0, <2>1, <2>2
  <2>4. /\ bar \in Spans /\ bar.start = current.start /\ current.end <= bar.end
        /\ next.end <= bar.end /\ (bar.end = next.end \/ bar.end = current.end)
    BY <1>0, <2>1 DEF Spans
  <2>. HIDE DEF bar, joined
  <2>5. current.start <= next.start BY <1>2
  <2>6. Shows(current, active) BY <2>1 DEF BarsInv
  <2>14. bar.start <= bar.end
    <3>1. current.start <= current.end BY <2>6 DEF Shows
    <3>2. bar.end \in Nat BY <2>4 DEF Spans
    <3>. QED BY <2>1, <2>4, <3>1, <3>2
  <2>7. Shows(bar, active)
    <3>1. bar.start \in active BY <2>4, <2>6 DEF Shows
    <3>2. ASSUME NEW t \in bar.start .. bar.end
          PROVE  \E a \in active : bar.start <= a /\ a <= t /\ t - a <= Gap
      <4>1. t \in Int /\ current.start <= t /\ t <= bar.end BY <2>1, <2>4
      <4>2. CASE t <= current.end
        <5>1. t \in current.start .. current.end BY <2>1, <4>1, <4>2
        <5>. QED BY <2>4, <2>6, <5>1 DEF Shows
      <4>3. CASE t > current.end
        <5>1. t \in next.start .. next.end BY <1>0, <1>2, <2>1, <2>4, <4>1, <4>3 DEF Nearby
        <5>2. PICK a \in active : next.start <= a /\ a <= t /\ t - a <= Gap BY <5>1 DEF Shows
        <5>3. a \in Nat OBVIOUS
        <5>4. bar.start <= a BY <1>0, <2>1, <2>4, <2>5, <5>2, <5>3
        <5>. QED BY <5>2, <5>4
      <4>. QED BY <2>1, <4>1, <4>2, <4>3
    <3>. QED BY <2>4, <2>14, <3>1, <3>2 DEF Shows
  <2>8. \A b \in DOMAIN joined : Shows(joined[b], active) BY <2>3, <2>7 DEF BarsInv
  <2>9. \A b \in 1 .. Len(joined) - 1 : joined[b].end + Nearby < joined[b + 1].start
    <3>. SUFFICES ASSUME NEW b \in 1 .. n - 1 PROVE joined[b].end + Nearby < joined[b + 1].start
      BY <2>3
    <3>1. b \in DOMAIN merged /\ b + 1 \in DOMAIN merged /\ b # n BY <1>0
    <3>2. merged[b].end + Nearby < merged[b + 1].start BY DEF BarsInv
    <3>3. joined[b + 1].start = merged[b + 1].start BY <2>3, <2>4, <3>1
    <3>. QED BY <2>3, <3>1, <3>2, <3>3
  <2>10. BarsInv(joined, active) BY <1>1, <2>8, <2>9 DEF BarsInv, joined
  <2>11. joined # <<>> /\ joined[Len(joined)].start <= next.start
    BY <2>1, <2>3, <2>4, <2>5
  <2>12. Covered(next, joined) BY <2>1, <2>3, <2>4, <2>5 DEF Covered
  <2>13. ASSUME NEW i \in Spans, Covered(i, merged) PROVE Covered(i, joined)
    <3>1. PICK b \in DOMAIN merged : merged[b].start <= i.start /\ i.end <= merged[b].end
      BY <2>13 DEF Covered
    <3>2. CASE b = n
      <4>1. i.end \in Nat /\ bar.end \in Nat BY <2>4 DEF Spans
      <4>2. bar.start <= i.start /\ i.end <= bar.end BY <2>1, <2>4, <3>1, <3>2, <4>1
      <4>. QED BY <2>1, <2>3, <4>2 DEF Covered
    <3>3. CASE b # n BY <2>3, <3>1, <3>3 DEF Covered
    <3>. QED BY <3>2, <3>3
  <2>. QED BY <2>10, <2>11, <2>12, <2>13 DEF joined
<1>3. CASE ~(merged # <<>> /\ next.start <= current.end + Nearby)
  <2>1. joined = Append(merged, next) BY <1>3 DEF Join
  <2>2. /\ Len(joined) = n + 1 /\ joined[n + 1] = next /\ DOMAIN joined = 1 .. (n + 1)
        /\ DOMAIN merged = 1 .. n /\ \A b \in 1 .. n : joined[b] = merged[b]
    BY <1>0, <2>1
  <2>. HIDE DEF joined
  <2>3. \A b \in 1 .. (n + 1) : b \in 1 .. n \/ b = n + 1 BY <1>0
  <2>4. \A b \in DOMAIN joined : Shows(joined[b], active) BY <2>2, <2>3 DEF BarsInv
  <2>5. \A b \in 1 .. Len(joined) - 1 : joined[b].end + Nearby < joined[b + 1].start
    <3>. SUFFICES ASSUME NEW b \in 1 .. n PROVE joined[b].end + Nearby < joined[b + 1].start
      BY <1>0, <2>2
    <3>1. CASE b = n
      <4>1. merged # <<>> /\ current \in Spans BY <1>0, <2>2
      <4>2. current.end \in Nat /\ current.end + Nearby < next.start
        BY <1>0, <1>3, <4>1 DEF Spans, Nearby
      <4>. QED BY <2>2, <3>1, <4>2
    <3>2. CASE b # n
      <4>1. b \in 1 .. n - 1 /\ b + 1 \in 1 .. n BY <1>0, <3>2
      <4>2. merged[b].end + Nearby < merged[b + 1].start BY <4>1 DEF BarsInv
      <4>. QED BY <2>2, <4>1, <4>2
    <3>. QED BY <3>1, <3>2
  <2>6. BarsInv(joined, active) BY <1>1, <2>4, <2>5 DEF BarsInv, joined
  <2>7. n + 1 \in DOMAIN joined BY <1>0, <2>2
  <2>8. joined # <<>> /\ joined[Len(joined)].start <= next.start BY <1>0, <2>2, <2>7
  <2>9. Covered(next, joined) BY <1>0, <2>2, <2>7 DEF Covered
  <2>10. ASSUME NEW i \in Spans, Covered(i, merged) PROVE Covered(i, joined)
    <3>1. PICK b \in 1 .. n : merged[b].start <= i.start /\ i.end <= merged[b].end
      BY <2>2, <2>10 DEF Covered
    <3>2. b \in DOMAIN joined BY <1>0, <2>2
    <3>. QED BY <2>2, <3>1, <3>2 DEF Covered
  <2>. QED BY <2>6, <2>8, <2>9, <2>10 DEF joined
<1>. QED BY <1>2, <1>3

(* The bars of the first intervals. *)
Merges(found, iter) ==
  iter = [s \in SUBSET (DOMAIN ByStart(found)) |->
            IF s = {} THEN <<>> ELSE Join(iter[s \ {Max(s)}], ByStart(found)[Max(s)])]
MergeOf(found) == CHOOSE iter : Merges(found, iter)

LEMMA UnfoldMerge ==
  ASSUME NEW series
  PROVE  MergedIntervals(series) =
           LET found == UNION {Intervals(series[i]) : i \in DOMAIN series}
           IN  MergeOf(found)[DOMAIN ByStart(found)]
  BY DEF MergedIntervals, FoldLeft, MapThenFoldSet, MergeOf, Merges

(* The bars of intervals show what they show. *)
LEMMA MergeShows ==
  ASSUME NEW found \in SUBSET Spans, IsFiniteSet(found), NEW active \in SUBSET Nat,
         \A i \in found : Shows(i, active)
  PROVE  LET merged == MergeOf(found)[DOMAIN ByStart(found)]
         IN  BarsInv(merged, active) /\ \A i \in found : Covered(i, merged)
<1> DEFINE spans == ByStart(found)
           N == Cardinality(found)
           step == [p \in (1 .. N) \X Seq(Spans) |-> Join(p[2], spans[p[1]])]
           iter == MergeOf(found)
           good(k) == /\ BarsInv(iter[1 .. k], active)
                      /\ k > 0 => /\ iter[1 .. k] # <<>>
                                  /\ iter[1 .. k][Len(iter[1 .. k])].start <= spans[k].start
                      /\ \A n \in 1 .. k : Covered(spans[n], iter[1 .. k])
           T == {k \in Nat : k <= N => good(k)}
<1>1. /\ N \in Nat /\ spans \in [1 .. N -> found]
      /\ \A i \in found : \E n \in 1 .. N : spans[n] = i
      /\ \A m, n \in 1 .. N : m < n => spans[m].start <= spans[n].start
  BY IntervalsAscend
<1>2. DOMAIN spans = 1 .. N /\ \A n \in 1 .. N : spans[n] \in Spans /\ spans[n].start \in Nat
  BY <1>1 DEF Spans
<1>3. <<>> \in Seq(Spans) OBVIOUS
<1>. HIDE DEF spans, N
<1>5. Merges(found, iter)
  <2>1. \A x \in 1 .. N, a \in Seq(Spans) : step[<<x, a>>] = Join(a, spans[x])
    OBVIOUS
  <2>2. \A x \in 1 .. N, a \in Seq(Spans) : step[<<x, a>>] \in Seq(Spans)
    BY <1>2, <2>1, JoinTyped
  <2>. HIDE DEF step
  <2>3. PICK f \in [SUBSET (1 .. N) -> Seq(Spans)] : Folds(N, <<>>, step, f)
    BY <1>1, <1>3, <2>2, FoldsExist
  <2>4. ASSUME NEW s \in SUBSET (1 .. N), s # {}
        PROVE  step[<<Max(s), f[s \ {Max(s)}]>>] = Join(f[s \ {Max(s)}], spans[Max(s)])
    <3>1. Max(s) \in 1 .. N BY <1>1, <2>4, LargestIn
    <3>2. f[s \ {Max(s)}] \in Seq(Spans) OBVIOUS
    <3>. QED BY <2>1, <3>1, <3>2
  <2>5. Merges(found, f) BY <1>2, <2>3, <2>4 DEF Merges, Folds, spans
  <2>. QED BY <2>5 DEF MergeOf
<1>6. \A s \in SUBSET (1 .. N) :
        iter[s] = IF s = {} THEN <<>> ELSE Join(iter[s \ {Max(s)}], spans[Max(s)])
  BY <1>2, <1>5 DEF Merges, spans
<1>. HIDE DEF iter
<1>7. 0 \in T
  <2>1. 1 .. 0 = {} OBVIOUS
  <2>2. iter[1 .. 0] = <<>> BY <1>6, <2>1
  <2>3. BarsInv(<<>>, active) BY <1>3 DEF BarsInv
  <2>. QED BY <2>1, <2>2, <2>3
<1>8. ASSUME NEW k \in T PROVE k + 1 \in T
  <2>. SUFFICES ASSUME k + 1 <= N PROVE good(k + 1) OBVIOUS
  <2>. DEFINE merged == iter[1 .. k]
              joined == iter[1 .. (k + 1)]
              next == spans[k + 1]
  <2>1. k \in Nat /\ k + 1 \in 1 .. N /\ k + 1 \in Nat \ {0} /\ k <= N /\ (k + 1) - 1 = k
    BY <1>1
  <2>2. good(k) BY <2>1
  <2>3. 1 .. (k + 1) # {} /\ Max(1 .. (k + 1)) = k + 1 /\ (1 .. (k + 1)) \ {k + 1} = 1 .. k
    BY <2>1, FoldsGoOn
  <2>4. 1 .. (k + 1) \in SUBSET (1 .. N) BY <1>1, <2>1
  <2>5. joined = Join(merged, next) BY <1>6, <2>3, <2>4
  <2>6. Shows(next, active) /\ next.start \in Nat BY <1>1, <1>2, <2>1
  <2>7. merged # <<>> => merged[Len(merged)].start <= next.start
    <3>. SUFFICES ASSUME merged # <<>> PROVE merged[Len(merged)].start <= next.start OBVIOUS
    <3>1. k > 0
      <4>1. SUFFICES ASSUME k = 0 PROVE FALSE BY <2>1
      <4>2. 1 .. k = {} BY <4>1
      <4>3. {} \in SUBSET (1 .. N) OBVIOUS
      <4>. QED BY <1>6, <4>2, <4>3
    <3>2. k \in 1 .. N /\ k < k + 1 BY <1>1, <2>1, <3>1
    <3>3. merged[Len(merged)].start <= spans[k].start BY <2>2, <3>1
    <3>4. spans[k].start <= next.start BY <1>1, <2>1, <3>2
    <3>5. merged[Len(merged)] \in Spans BY <2>2 DEF BarsInv
    <3>6. merged[Len(merged)].start \in Nat BY <3>5 DEF Spans
    <3>7. spans[k].start \in Nat BY <1>2, <3>2
    <3>. HIDE DEF merged, next
    <3>. QED BY <2>6, <3>3, <3>4, <3>6, <3>7
  <2>8. BarsInv(merged, active) /\ \A n \in 1 .. k : Covered(spans[n], merged) BY <2>2
  <2>. HIDE DEF merged, joined, next
  <2>9. /\ BarsInv(joined, active) /\ joined # <<>> /\ Covered(next, joined)
        /\ joined[Len(joined)].start <= next.start
        /\ \A i \in Spans : Covered(i, merged) => Covered(i, joined)
    BY <2>5, <2>6, <2>7, <2>8, JoinKeeps
  <2>10. ASSUME NEW n \in 1 .. (k + 1) PROVE Covered(spans[n], joined)
    <3>1. CASE n = k + 1 BY <2>9, <3>1 DEF next
    <3>2. CASE n # k + 1
      <4>1. n \in 1 .. k /\ n \in 1 .. N BY <2>1, <1>1, <3>2
      <4>. QED BY <1>2, <2>8, <2>9, <4>1
    <3>. QED BY <3>1, <3>2
  <2>. QED BY <2>9, <2>10 DEF joined, next
<1>9. good(N)
  <2>. HIDE DEF good
  <2>1. T = Nat
    <3>. HIDE DEF T
    <3>. QED BY <1>7, <1>8, Inductive DEF T
  <2>2. N \in T /\ N <= N BY <1>1, <2>1
  <2>. QED BY <2>2
<1>10. \A i \in found : Covered(i, iter[1 .. N]) BY <1>1, <1>9
<1>. QED BY <1>2, <1>9, <1>10 DEF spans, iter

(* The bars are those of the alerts that were read. *)
AlertsInv ==
  \/ alerts = <<>> /\ bars = <<>>
  \/ alerts \in AlertSeries /\ bars = MergedIntervals(alerts)

LEMMA AlertsShown == AlertsInv => BarsShowAlerts
<1>. SUFFICES ASSUME AlertsInv PROVE BarsShowAlerts OBVIOUS
<1>1. CASE alerts = <<>> /\ bars = <<>> BY <1>1 DEF BarsShowAlerts
<1>2. CASE alerts \in AlertSeries /\ bars = MergedIntervals(alerts)
  <2>. DEFINE D == DOMAIN alerts
              active == UNION {Reported(alerts[i]) : i \in D}
              sets == {Intervals(alerts[i]) : i \in D}
              found == UNION sets
  <2>1. \A i \in D : IsSeries(alerts[i]) BY <1>2, AlertsAssumption DEF IsSeries
  <2>2. active \in SUBSET Nat BY <2>1 DEF Reported, IsSeries
  <2>3. ASSUME NEW i \in D
        PROVE  /\ IsFiniteSet(Intervals(alerts[i])) /\ Intervals(alerts[i]) \subseteq Spans
               /\ \A x \in Intervals(alerts[i]) : Shows(x, active)
               /\ \A t \in Reported(alerts[i]) : \E x \in Intervals(alerts[i]) : Within(t, x)
    <3>1. Reported(alerts[i]) \subseteq active OBVIOUS
    <3>2. /\ IsFiniteSet(Intervals(alerts[i])) /\ Intervals(alerts[i]) \subseteq Spans
          /\ \A x \in Intervals(alerts[i]) : Shows(x, Reported(alerts[i]))
          /\ \A t \in Reported(alerts[i]) : \E x \in Intervals(alerts[i]) : Within(t, x)
      BY <2>1, SeriesShown
    <3>. HIDE DEF active
    <3>. QED BY <3>1, <3>2, StillShows
  <2>. HIDE DEF active
  <2>4. IsFiniteSet(found)
    <3>1. IsFiniteSet(D) BY <1>2, AlertsAssumption
    <3>2. [i \in D |-> Intervals(alerts[i])] \in Surjection(D, sets) BY DEF Surjection
    <3>3. IsFiniteSet(sets) BY <3>1, <3>2, FS_Surjection
    <3>4. \A x \in sets : IsFiniteSet(x) BY <2>3
    <3>. QED BY <3>3, <3>4, FS_UNION
  <2>5. found \in SUBSET Spans /\ \A x \in found : Shows(x, active) BY <2>3
  <2>6. \A x \in found : x.start \in Nat /\ x.end \in Nat BY <2>5 DEF Spans
  <2>8. bars = MergeOf(found)[DOMAIN ByStart(found)] BY <1>2, UnfoldMerge
  <2>9. active = UNION {{t \in DOMAIN alerts[i] : alerts[i][t]} : i \in DOMAIN alerts}
    BY DEF active, Reported
  <2>10. \A t \in active : \E x \in found : Within(t, x)
    <3>1. \A t \in active : \E i \in D : t \in Reported(alerts[i]) BY DEF active
    <3>. QED BY <2>3, <3>1
  <2>. HIDE DEF found
  <2>11. BarsInv(bars, active) /\ \A x \in found : Covered(x, bars)
    BY <2>2, <2>4, <2>5, <2>8, MergeShows
  <2>12. bars \in Seq(Spans) /\ \A b \in DOMAIN bars : bars[b].start \in Nat /\ bars[b].end \in Nat
    <3>1. bars \in Seq(Spans) BY <2>11 DEF BarsInv
    <3>2. \A b \in DOMAIN bars : bars[b] \in Spans BY <3>1
    <3>. QED BY <3>1, <3>2 DEF Spans
  <2>13. \A t \in active : \E b \in DOMAIN bars : bars[b].start <= t /\ t <= bars[b].end
    <3>. SUFFICES ASSUME NEW t \in active
                  PROVE  \E b \in DOMAIN bars : bars[b].start <= t /\ t <= bars[b].end
      OBVIOUS
    <3>1. PICK x \in found : x.start <= t /\ t <= x.end BY <2>10 DEF Within
    <3>2. PICK b \in DOMAIN bars : bars[b].start <= x.start /\ x.end <= bars[b].end
      BY <2>11 DEF Covered
    <3>3. t \in Nat BY <2>2
    <3>. QED BY <2>6, <2>12, <3>1, <3>2, <3>3
  <2>14. ASSUME NEW b \in DOMAIN bars
         PROVE  /\ bars[b].start \in active
                /\ \A t \in bars[b].start .. bars[b].end :
                     \E a \in active : /\ bars[b].start <= a /\ a <= bars[b].end
                                       /\ a <= t /\ t - a <= Gap + Nearby
    <3>1. Shows(bars[b], active) BY <2>11 DEF BarsInv
    <3>2. ASSUME NEW t \in bars[b].start .. bars[b].end
          PROVE  \E a \in active : /\ bars[b].start <= a /\ a <= bars[b].end
                                   /\ a <= t /\ t - a <= Gap + Nearby
      <4>1. PICK a \in active : bars[b].start <= a /\ a <= t /\ t - a <= Gap
        BY <3>1 DEF Shows
      <4>2. a \in Nat /\ t \in Int /\ t <= bars[b].end BY <2>2, <2>12
      <4>3. a <= bars[b].end /\ t - a <= Gap + Nearby BY <2>12, <4>1, <4>2 DEF Gap, Nearby
      <4>. QED BY <4>1, <4>3
    <3>. QED BY <3>1, <3>2 DEF Shows
  <2>15. \A b \in 1 .. Len(bars) - 1 : bars[b].end + Nearby < bars[b + 1].start
    BY <2>11 DEF BarsInv
  <2>. QED BY <2>9, <2>13, <2>14, <2>15 DEF BarsShowAlerts
<1>. QED BY <1>1, <1>2 DEF AlertsInv

(* Bars of alerts.  However the reports of several devices overlap, every    *)
(* report is in a bar, no bar lasts through a silence, and bars that touch   *)
(* have become one (SystemAlerts).                                           *)
THEOREM AlertsAreShown == AlertsSpec => []BarsShowAlerts
<1>1. AlertsInit => AlertsInv BY DEF AlertsInit, AlertsInv
<1>2. AlertsInv /\ [AlertsArrive]_alertVars => AlertsInv'
  BY DEF AlertsInv, AlertsArrive, alertVars
<1>. QED BY <1>1, <1>2, AlertsShown, PTL DEF AlertsSpec

-----------------------------------------------------------------------------
(* What charts draw. *)

Labels == {Alphabet[i] : i \in DOMAIN Alphabet}
Key == Labels \X Nat
Metric == [label : Labels, all : BOOLEAN]

(* What is the same of all charts. *)
Known(c) ==
  /\ c.metrics \in Seq(Metric)
  /\ c.names \in {"sorted", "metrics", "columns", "inverters"}
  /\ c.names = "inverters" <=> c = InverterPower
  /\ c = InverterPower => c.metrics = <<All("String")>>

LEMMA LabelsKnown ==
  /\ "Actual" \in Labels /\ "Battery" \in Labels /\ "Current" \in Labels /\ "Freq" \in Labels
  /\ "Grid" \in Labels /\ "Home" \in Labels /\ "Inverter" \in Labels /\ "L1" \in Labels
  /\ "L2" \in Labels /\ "Load" \in Labels /\ "MSA" \in Labels /\ "Pod Capacity" \in Labels
  /\ "Pod Remaining" \in Labels /\ "Site" \in Labels /\ "Solar" \in Labels
  /\ "Status" \in Labels /\ "String" \in Labels /\ "Target" \in Labels
  /\ "Temp" \in Labels /\ "Voltage" \in Labels
<1>1. /\ DOMAIN Alphabet = 1 .. 20
      /\ Alphabet[1] = "Actual" /\ Alphabet[2] = "Battery" /\ Alphabet[3] = "Current"
      /\ Alphabet[4] = "Freq" /\ Alphabet[5] = "Grid" /\ Alphabet[6] = "Home"
      /\ Alphabet[7] = "Inverter" /\ Alphabet[8] = "L1" /\ Alphabet[9] = "L2"
      /\ Alphabet[10] = "Load" /\ Alphabet[11] = "MSA" /\ Alphabet[12] = "Pod Capacity"
      /\ Alphabet[13] = "Pod Remaining" /\ Alphabet[14] = "Site" /\ Alphabet[15] = "Solar"
      /\ Alphabet[16] = "Status" /\ Alphabet[17] = "String" /\ Alphabet[18] = "Target"
      /\ Alphabet[19] = "Temp" /\ Alphabet[20] = "Voltage"
  BY DEF Alphabet
<1>2. \A i \in 1 .. 20 : Alphabet[i] \in Labels BY <1>1 DEF Labels
<1>3. /\ 1 \in 1 .. 20 /\ 2 \in 1 .. 20 /\ 3 \in 1 .. 20 /\ 4 \in 1 .. 20 /\ 5 \in 1 .. 20
      /\ 6 \in 1 .. 20 /\ 7 \in 1 .. 20 /\ 8 \in 1 .. 20 /\ 9 \in 1 .. 20 /\ 10 \in 1 .. 20
      /\ 11 \in 1 .. 20 /\ 12 \in 1 .. 20 /\ 13 \in 1 .. 20 /\ 14 \in 1 .. 20
      /\ 15 \in 1 .. 20 /\ 16 \in 1 .. 20 /\ 17 \in 1 .. 20 /\ 18 \in 1 .. 20
      /\ 19 \in 1 .. 20 /\ 20 \in 1 .. 20
  OBVIOUS
<1>. QED BY <1>1, <1>2, <1>3, Zenon

LEMMA ChartsKnown == \A c \in Charts : Known(c)
<1>1. \A l \in Labels : One(l) \in Metric /\ All(l) \in Metric BY DEF One, All, Metric
<1>2. /\ All("Grid") \in Metric /\ All("Load") \in Metric /\ All("MSA") \in Metric
      /\ All("Inverter") \in Metric /\ All("Actual") \in Metric /\ All("Target") \in Metric
      /\ All("Temp") \in Metric /\ All("Voltage") \in Metric /\ All("Current") \in Metric
      /\ All("String") \in Metric /\ All("Site") \in Metric /\ All("Pod Remaining") \in Metric
      /\ All("Pod Capacity") \in Metric
  BY <1>1, LabelsKnown
<1>3. /\ One("Status") \in Metric /\ One("Freq") \in Metric /\ One("Grid") \in Metric
      /\ One("Home") \in Metric /\ One("Solar") \in Metric /\ One("Battery") \in Metric
      /\ One("L1") \in Metric /\ One("L2") \in Metric
  BY <1>1, LabelsKnown
<1>4. \A m \in Seq(Metric), n \in {"sorted", "metrics", "columns"} :
        Known(Chart(m, n)) /\ Known(OfDay(Chart(m, n)))
  BY DEF Known, Chart, OfDay, InverterPower
<1>5. \A a, b, c, d \in Metric :
        /\ <<a>> \in Seq(Metric) /\ <<a, b>> \in Seq(Metric)
        /\ <<a, b, c>> \in Seq(Metric) /\ <<a, b, c, d>> \in Seq(Metric)
  OBVIOUS
<1>6. /\ Known(GridVoltage) /\ Known(FanSpeed) /\ Known(Temperatures) /\ Known(SolarEfficiency)
      /\ Known(SolarStringVoltage) /\ Known(SolarStringCurrent) /\ Known(SolarStringPower)
  BY <1>2, <1>4, <1>5
     DEF GridVoltage, FanSpeed, Temperatures, SolarEfficiency, SolarStringVoltage,
         SolarStringCurrent, SolarStringPower
<1>7. /\ Known(InverterVoltage) /\ Known(GridFrequency) /\ Known(BatteryLevel)
      /\ Known(GridHealth) /\ Known(ReactivePower) /\ Known(PhaseBalance)
  BY <1>2, <1>3, <1>4, <1>5
     DEF InverterVoltage, GridFrequency, BatteryLevel, GridHealth, ReactivePower, PhaseBalance
<1>8. Known(PowerFlow)
  <2>1. <<One("Grid"), One("Home"), One("Solar"), One("Battery")>> \in Seq(Metric) BY <1>3, <1>5
  <2>2. /\ PowerFlow.metrics = <<One("Grid"), One("Home"), One("Solar"), One("Battery")>>
        /\ PowerFlow.names = "metrics" /\ InverterPower.names = "inverters"
    BY DEF PowerFlow, InverterPower, Chart, OfDay
  <2>. QED BY <2>1, <2>2 DEF Known
<1>9. Known(InverterPower)
  <2>1. <<All("String")>> \in Seq(Metric) BY <1>2, <1>5
  <2>2. InverterPower.metrics = <<All("String")>> /\ InverterPower.names = "inverters"
    BY DEF InverterPower, Chart, OfDay
  <2>. QED BY <2>1, <2>2 DEF Known
<1>. QED BY <1>6, <1>7, <1>8, <1>9 DEF Charts

(* Keys are put in order. *)
LEMMA KeysSorted ==
  ASSUME NEW keys \in SUBSET Key, IsFiniteSet(keys)
  PROVE  Sorted(keys) \in Seq(keys) /\ \A k \in keys : \E n \in DOMAIN Sorted(keys) : Sorted(keys)[n] = k
<1> DEFINE N == Cardinality(keys)
           seq == Sorted(keys)
           place(l) == CHOOSE i \in DOMAIN Alphabet : Alphabet[i] = l
           R == {p \in keys \X keys : Less(p[1], p[2])}
<1>1. ASSUME NEW k \in keys
      PROVE  /\ k[2] \in Nat /\ k = <<k[1], k[2]>>
             /\ place(k[1]) \in Nat /\ Alphabet[place(k[1])] = k[1]
  <2>1. k[1] \in Labels /\ k[2] \in Nat /\ k = <<k[1], k[2]>> BY DEF Key
  <2>2. place(k[1]) \in DOMAIN Alphabet /\ Alphabet[place(k[1])] = k[1] BY <2>1 DEF Labels
  <2>3. DOMAIN Alphabet \subseteq Nat BY DEF Alphabet
  <2>. QED BY <2>1, <2>2, <2>3
<1>2. \A x, y \in keys :
        Less(x, y) <=> \/ place(x[1]) < place(y[1])
                       \/ place(x[1]) = place(y[1]) /\ x[2] < y[2]
  BY DEF Less
<1>3. \A x, y \in keys : <<x, y>> \in R <=> Less(x, y) OBVIOUS
<1>4. \A x \in keys : {y \in keys : Less(y, x)} = {y \in keys : <<y, x>> \in R} BY <1>3
<1>5. /\ seq = [n \in 1 .. N |-> seq[n]]
      /\ \A n \in 1 .. N :
           (\E x \in keys : Cardinality({y \in keys : <<y, x>> \in R}) = n - 1)
             => seq[n] \in keys /\ Cardinality({y \in keys : <<y, seq[n]>> \in R}) = n - 1
  <2>1. seq = [n \in 1 .. N |-> CHOOSE k \in keys : Cardinality({l \in keys : Less(l, k)}) = n - 1]
    BY DEF Sorted
  <2>2. ASSUME NEW n \in 1 .. N, NEW x \in keys, Cardinality({y \in keys : <<y, x>> \in R}) = n - 1
        PROVE  seq[n] \in keys /\ Cardinality({y \in keys : <<y, seq[n]>> \in R}) = n - 1
    <3>1. seq[n] = CHOOSE k \in keys : Cardinality({l \in keys : Less(l, k)}) = n - 1 BY <2>1
    <3>2. Cardinality({l \in keys : Less(l, x)}) = n - 1 BY <1>4, <2>2
    <3>3. seq[n] \in keys /\ Cardinality({l \in keys : Less(l, seq[n])}) = n - 1 BY <3>1, <3>2
    <3>. HIDE DEF R, seq
    <3>. QED BY <1>4, <3>3
  <2>3. seq = [n \in 1 .. N |-> seq[n]]
    <3>1. DOMAIN seq = 1 .. N BY <2>1
    <3>. QED BY <2>1, <3>1, Zenon
  <2>. HIDE DEF seq
  <2>. QED BY <2>2, <2>3
<1>. HIDE DEF R, seq, place
<1>6. \A x \in keys : <<x, x>> \notin R BY <1>1, <1>2, <1>3
<1>7. ASSUME NEW x \in keys, NEW y \in keys, x # y PROVE <<x, y>> \in R \/ <<y, x>> \in R
  <2>1. place(x[1]) = place(y[1]) => x[1] = y[1] BY <1>1
  <2>2. ~(place(x[1]) = place(y[1]) /\ x[2] = y[2]) BY <1>1, <1>7, <2>1
  <2>. QED BY <1>1, <1>2, <1>3, <2>2
<1>8. \A x, y, z \in keys : <<x, y>> \in R /\ <<y, z>> \in R => <<x, z>> \in R
  BY <1>1, <1>2, <1>3
<1>11. \A x, y \in keys : x # y => <<x, y>> \in R \/ <<y, x>> \in R BY <1>7
<1>9. /\ seq \in [1 .. N -> keys] /\ N \in Nat
      /\ \A x \in keys : \E n \in 1 .. N : seq[n] = x
      /\ \A m, n \in 1 .. N : m < n => <<seq[m], seq[n]>> \in R
  BY <1>5, <1>6, <1>8, <1>11, RankSorts
<1>10. seq \in Seq(keys) /\ DOMAIN seq = 1 .. N
  <2>. HIDE DEF N
  <2>. QED BY <1>9
<1>. QED BY <1>9, <1>10 DEF seq

(* The keys of a metric are finitely many. *)
LEMMA MetricKeys ==
  ASSUME NEW m \in Metric
  PROVE  IsFiniteSet(KeysOf(m)) /\ KeysOf(m) \subseteq Key
<1>1. m.label \in Labels /\ m.all \in BOOLEAN BY DEF Metric
<1>2. KeysOf(m) \subseteq Key BY <1>1, ChartAssumption DEF KeysOf, Key, Alone
<1>3. CASE m.all
  <2>1. KeysOf(m) = {<<m.label, n>> : n \in Members} BY <1>3 DEF KeysOf
  <2>2. [n \in Members |-> <<m.label, n>>] \in Surjection(Members, {<<m.label, n>> : n \in Members})
    BY DEF Surjection
  <2>. QED BY <1>2, <2>1, <2>2, FS_Surjection, ChartAssumption
<1>4. CASE ~m.all BY <1>2, <1>4, FS_Singleton DEF KeysOf
<1>. QED BY <1>1, <1>3, <1>4

(* What is answered has been asked for. *)
LEMMA AnswersAsked ==
  ASSUME NEW c \in Charts, NEW found \in Answers(c)
  PROVE  DOMAIN found \subseteq Asked(c) /\ found \in [DOMAIN found -> Series]
<1> DEFINE alone == {k \in Asked(c) : k[2] = 0}
           sets == {ks \in SUBSET (Asked(c) \ alone) : Cardinality(ks) <= MaxSeries}
<1>1. PICK ks \in sets : found \in [alone \cup ks -> Series] BY DEF Answers
<1>2. alone \cup ks \subseteq Asked(c) OBVIOUS
<1>. QED BY <1>1, <1>2

(* The columns have every key of the answer. *)
LEMMA KeysFound ==
  ASSUME NEW c \in Charts, NEW found \in Answers(c)
  PROVE  /\ SeriesKeys(c, found) \in Seq(Key)
         /\ \A k \in DOMAIN found :
              \E i \in DOMAIN SeriesKeys(c, found) : SeriesKeys(c, found)[i] = k
<1> DEFINE m(i) == c.metrics[i]
           part(i) == IF m(i).all THEN Sorted(KeysOf(m(i)) \cap DOMAIN found) ELSE <<Alone(m(i).label)>>
           seqs == [i \in DOMAIN c.metrics |-> part(i)]
<1>1. c.metrics \in Seq(Metric) BY ChartsKnown DEF Known
<1>2. ASSUME NEW i \in DOMAIN c.metrics
      PROVE  /\ part(i) \in Seq(Key)
             /\ \A k \in KeysOf(m(i)) \cap DOMAIN found : \E n \in DOMAIN part(i) : part(i)[n] = k
  <2>1. m(i) \in Metric BY <1>1
  <2>2. IsFiniteSet(KeysOf(m(i))) /\ KeysOf(m(i)) \subseteq Key BY <2>1, MetricKeys
  <2>3. CASE m(i).all
    <3>. DEFINE keys == KeysOf(m(i)) \cap DOMAIN found
    <3>1. keys \in SUBSET Key /\ IsFiniteSet(keys) BY <2>2, FS_Subset
    <3>. HIDE DEF keys
    <3>2. /\ Sorted(keys) \in Seq(keys)
          /\ \A k \in keys : \E n \in DOMAIN Sorted(keys) : Sorted(keys)[n] = k
      BY <3>1, KeysSorted
    <3>3. Sorted(keys) \in Seq(Key) BY <3>1, <3>2
    <3>. QED BY <2>3, <3>2, <3>3 DEF keys
  <2>4. CASE ~m(i).all
    <3>1. KeysOf(m(i)) = {Alone(m(i).label)} /\ part(i) = <<Alone(m(i).label)>> BY <2>4 DEF KeysOf
    <3>2. Alone(m(i).label) \in Key BY <2>2, <3>1
    <3>. HIDE DEF m
    <3>3. /\ <<Alone(m(i).label)>> \in Seq(Key) /\ 1 \in DOMAIN <<Alone(m(i).label)>>
          /\ <<Alone(m(i).label)>>[1] = Alone(m(i).label)
      BY <3>2
    <3>. QED BY <3>1, <3>3 DEF m
  <2>. QED BY <2>3, <2>4
<1>3. /\ DOMAIN seqs = DOMAIN c.metrics
      /\ \A i \in DOMAIN c.metrics : seqs[i] = part(i)
  OBVIOUS
<1>4. SeriesKeys(c, found) = FlattenSeq(seqs) BY DEF SeriesKeys
<1>. HIDE DEF part, seqs
<1>5. seqs \in Seq(Seq(Key))
  <2>1. Len(c.metrics) \in Nat /\ DOMAIN c.metrics = 1 .. Len(c.metrics) BY <1>1
  <2>2. seqs = [i \in 1 .. Len(c.metrics) |-> part(i)] BY <2>1 DEF seqs
  <2>3. \A i \in 1 .. Len(c.metrics) : part(i) \in Seq(Key) BY <1>2, <2>1
  <2>. QED BY <2>1, <2>2, <2>3
<1>6. /\ FlattenSeq(seqs) \in Seq(Key)
      /\ \A j \in DOMAIN seqs : \A n \in DOMAIN seqs[j] :
           \E i \in DOMAIN FlattenSeq(seqs) : FlattenSeq(seqs)[i] = seqs[j][n]
  BY <1>5, Flattens
<1>7. ASSUME NEW k \in DOMAIN found
      PROVE  \E i \in DOMAIN FlattenSeq(seqs) : FlattenSeq(seqs)[i] = k
  <2>5. DOMAIN found \subseteq Asked(c) BY AnswersAsked
  <2>1. k \in Asked(c) BY <2>5
  <2>2. PICK j \in DOMAIN c.metrics : k \in KeysOf(m(j)) BY <2>1 DEF Asked
  <2>3. PICK n \in DOMAIN part(j) : part(j)[n] = k BY <1>2, <2>2
  <2>4. j \in DOMAIN seqs /\ seqs[j] = part(j) BY <1>3
  <2>. QED BY <1>6, <2>3, <2>4
<1>. QED BY <1>4, <1>6, <1>7

-----------------------------------------------------------------------------
(* What was read of a series at a time, if it is not zero. *)
LEMMA ReadThere ==
  ASSUME NEW c \in Charts, NEW found \in Answers(c), NEW k \in DOMAIN found,
         NEW t \in found[k].at, ~found[k].zero
  PROVE  /\ Value(found, k, t) = {Reading(k, t)} /\ Value(found, k, t) \notin {Null, Zero}
         /\ t \in AlignTimestamps(found)
         /\ Column(found, k)[t] = {Reading(k, t)} /\ t \in DOMAIN Column(found, k)
<1>1. Value(found, k, t) = {Reading(k, t)} BY DEF Value
<1>2. t \in AlignTimestamps(found) BY DEF AlignTimestamps
<1>3. Reading(k, t) # <<>> BY DEF Reading
<1>. HIDE DEF Reading
<1>4. {Reading(k, t)} # Null /\ {Reading(k, t)} # Zero BY <1>3 DEF Null, Zero
<1>. QED BY <1>1, <1>2, <1>4 DEF Column

(* What is drawn is what was answered. *)
ChartInv ==
  /\ chart \in Charts
  /\ \/ drawn = Nothing
     \/ results \in Answers(chart) /\ drawn = Drawn(chart, results)

LEMMA LengthOf ==
  ASSUME NEW n \in Nat, NEW f, f = [i \in 1 .. n |-> f[i]]
  PROVE  Len(f) = n /\ DOMAIN f = 1 .. n
<1> DEFINE S == {f[i] : i \in 1 .. n}
<1>1. f \in [1 .. n -> S] OBVIOUS
<1>. HIDE DEF S
<1>. QED BY <1>1


(* The two parts of ChartsShowReadings. *)
Named ==
  /\ Len(drawn.names) = Len(drawn.columns)
  /\ \A i \in DOMAIN drawn.names : \A t \in DOMAIN drawn.columns[i] :
       IF chart = InverterPower
         THEN drawn.columns[i][t] \ Zero = Sum(results, drawn.names[i], t) \ Zero
         ELSE drawn.columns[i][t] = Value(results, drawn.names[i], t)

Complete ==
  \A k \in DOMAIN results : \A t \in results[k].at :
    results[k].zero \/ \E i \in DOMAIN drawn.columns : Reading(k, t) \in drawn.columns[i][t]

(* Columns under their keys. *)
LEMMA KeysDrawn ==
  ASSUME chart \in Charts, results \in Answers(chart), chart # InverterPower,
         NEW keys \in Seq(Key), drawn.names = keys,
         drawn.columns = [i \in DOMAIN keys |-> Column(results, keys[i])],
         \A k \in DOMAIN results : \A t \in results[k].at :
           results[k].zero \/ \E i \in DOMAIN keys : keys[i] = k
  PROVE  Named /\ Complete
<1>1. Len(keys) \in Nat /\ DOMAIN keys = 1 .. Len(keys) OBVIOUS
<1>2. drawn.columns = [i \in 1 .. Len(keys) |-> drawn.columns[i]]
  <2>. DEFINE f == [i \in 1 .. Len(keys) |-> Column(results, keys[i])]
  <2>1. drawn.columns = f BY <1>1
  <2>2. f = [i \in 1 .. Len(keys) |-> f[i]] OBVIOUS
  <2>. HIDE DEF f
  <2>. QED BY <2>1, <2>2
<1>3. Len(drawn.columns) = Len(keys) /\ DOMAIN drawn.columns = 1 .. Len(keys)
  BY <1>1, <1>2, LengthOf
<1>4. \A i \in 1 .. Len(keys) : drawn.columns[i] = Column(results, keys[i]) BY <1>1
<1>5. Named
  <2>1. ASSUME NEW i \in 1 .. Len(keys), NEW t \in DOMAIN drawn.columns[i]
        PROVE  drawn.columns[i][t] = Value(results, drawn.names[i], t)
    BY <1>4 DEF Column
  <2>. QED BY <1>1, <1>3, <2>1 DEF Named
<1>6. Complete
  <2>1. ASSUME NEW k \in DOMAIN results, NEW t \in results[k].at, ~results[k].zero
        PROVE  \E i \in DOMAIN drawn.columns : Reading(k, t) \in drawn.columns[i][t]
    <3>1. PICK i \in 1 .. Len(keys) : keys[i] = k BY <1>1, <2>1
    <3>2. Column(results, k)[t] = {Reading(k, t)} BY <2>1, ReadThere
    <3>. QED BY <1>3, <1>4, <3>1, <3>2
  <2>. QED BY <2>1 DEF Complete
<1>. QED BY <1>5, <1>6

(* Where columns without readings are dropped. *)
LEMMA ColumnsDrawn ==
  ASSUME chart \in Charts, results \in Answers(chart), chart.names = "columns",
         drawn = Drawn(chart, results)
  PROVE  Named /\ Complete
<1> DEFINE keys == SeriesKeys(chart, results)
           columns == [i \in DOMAIN keys |-> Column(results, keys[i])]
           HasData(i) == \E t \in DOMAIN columns[i] : columns[i][t] \notin {Null, Zero}
           kept == {i \in DOMAIN keys : HasData(i)}
           N == Cardinality(kept)
           seq == Ascending(kept)
           names == [n \in 1 .. N |-> keys[seq[n]]]
<1>0. chart # InverterPower BY ChartsKnown DEF Known
<1>1. /\ keys \in Seq(Key)
      /\ \A k \in DOMAIN results : \E i \in DOMAIN keys : keys[i] = k
  BY KeysFound
<1>2. Len(keys) \in Nat /\ DOMAIN keys = 1 .. Len(keys) BY <1>1
<1>3. /\ drawn.names = names
      /\ drawn.columns = [n \in 1 .. N |-> columns[seq[n]]]
  <2>. DEFINE Nth(n) == CHOOSE i \in kept : Cardinality({j \in kept : j < i}) = n - 1
  <2>1. /\ drawn.names = [n \in 1 .. N |-> keys[Nth(n)]]
        /\ drawn.columns = [n \in 1 .. N |-> columns[Nth(n)]]
    BY DEF Drawn
  <2>2. \A n \in 1 .. N : seq[n] = Nth(n) BY DEF Ascending
  <2>. HIDE DEF Nth, seq, columns, keys, kept, N
  <2>. QED BY <2>1, <2>2
<1>4. kept \in SUBSET Nat /\ kept \in SUBSET DOMAIN keys /\ IsFiniteSet(kept)
  <2>1. IsFiniteSet(1 .. Len(keys))
    <3>1. 1 \in Int /\ Len(keys) \in Int BY <1>2
    <3>. QED BY <3>1, FS_Interval
  <2>2. kept \in SUBSET (1 .. Len(keys)) BY <1>2
  <2>. HIDE DEF kept, keys
  <2>3. IsFiniteSet(kept) BY <2>1, <2>2, FS_Subset
  <2>4. kept \in SUBSET DOMAIN keys BY <1>2, <2>2
  <2>5. 1 .. Len(keys) \subseteq Nat BY <1>2
  <2>6. kept \in SUBSET Nat BY <2>2, <2>5
  <2>. QED BY <2>3, <2>4, <2>6
<1>5. /\ N \in Nat /\ seq \in [1 .. N -> kept]
      /\ \A i \in kept : \E n \in 1 .. N : seq[n] = i
  <2>. HIDE DEF kept
  <2>. QED BY <1>4, TimesAscend
<1>6. \A i \in DOMAIN keys : columns[i] = Column(results, keys[i]) OBVIOUS
<1>7. ASSUME NEW k \in DOMAIN results, NEW t \in results[k].at, ~results[k].zero
      PROVE  \E n \in 1 .. N : names[n] = k
  <2>1. PICK i \in DOMAIN keys : keys[i] = k BY <1>1
  <2>2. /\ Column(results, k)[t] = {Reading(k, t)} /\ t \in DOMAIN Column(results, k)
        /\ {Reading(k, t)} \notin {Null, Zero}
    <3>. HIDE DEF Reading, Column, Value, keys, columns, kept, seq, names, N
    <3>1. /\ Value(results, k, t) = {Reading(k, t)} /\ Value(results, k, t) \notin {Null, Zero}
          /\ t \in AlignTimestamps(results)
          /\ Column(results, k)[t] = {Reading(k, t)} /\ t \in DOMAIN Column(results, k)
      BY <1>7, ReadThere
    <3>. QED BY <3>1
  <2>3. columns[i] = Column(results, k) BY <1>6, <2>1
  <2>. HIDE DEF columns, keys, seq, N
  <2>4. i \in kept BY <2>2, <2>3
  <2>. HIDE DEF kept
  <2>5. PICK n \in 1 .. N : seq[n] = i BY <1>5, <2>4
  <2>6. names[n] = k BY <2>1, <2>5
  <2>. QED BY <2>6
<1>. HIDE DEF columns, keys, seq, N, kept
<1>8. names \in Seq(Key) /\ DOMAIN names = 1 .. N
  <2>1. ASSUME NEW n \in 1 .. N PROVE keys[seq[n]] \in Key
    <3>1. seq[n] \in DOMAIN keys BY <1>4, <1>5
    <3>. QED BY <1>1, <3>1
  <2>2. names = [n \in 1 .. N |-> keys[seq[n]]] BY DEF names
  <2>. HIDE DEF names
  <2>. QED BY <1>5, <2>1, <2>2
<1>9. drawn.columns = [n \in DOMAIN names |-> Column(results, names[n])]
  <2>1. \A n \in 1 .. N : columns[seq[n]] = Column(results, names[n]) BY <1>4, <1>5, <1>6
  <2>. HIDE DEF names
  <2>. QED BY <1>3, <1>8, <2>1
<1>. HIDE DEF names
<1>10. \A k \in DOMAIN results : \A t \in results[k].at :
         results[k].zero \/ \E i \in DOMAIN names : names[i] = k
  BY <1>7, <1>8
<1>11. drawn.names = names BY <1>3
<1>. QED BY <1>0, <1>8, <1>9, <1>10, <1>11, KeysDrawn

(* Where the strings of an inverter are added up. *)
LEMMA InvertersDrawn ==
  ASSUME chart = InverterPower, results \in Answers(chart), drawn = Drawn(chart, results)
  PROVE  Named /\ Complete
<1> DEFINE all == {InverterOf(k) : k \in DOMAIN results}
           names == Sorted(all)
           N == Len(names)
<1>1. chart \in Charts /\ chart.names = "inverters" /\ chart.metrics = <<All("String")>>
  <2>1. InverterPower \in Charts BY DEF Charts
  <2>. QED BY <2>1, ChartsKnown DEF Known
<1>2. /\ drawn.names = names
      /\ drawn.columns = [i \in DOMAIN names |-> Summed(results, names[i])]
  BY <1>1 DEF Drawn
<1>3. DOMAIN results \subseteq KeysOf(All("String")) /\ IsFiniteSet(DOMAIN results)
      /\ DOMAIN results \subseteq Key
  <2>1. DOMAIN results \subseteq Asked(chart) BY <1>1, AnswersAsked
  <2>2. Asked(chart) = KeysOf(All("String")) BY <1>1 DEF Asked
  <2>3. All("String") \in Metric BY LabelsKnown DEF Metric, All
  <2>. QED BY <2>1, <2>2, <2>3, MetricKeys, FS_Subset
<1>4. all \in SUBSET Key /\ IsFiniteSet(all)
  <2>1. \A k \in DOMAIN results : InverterOf(k) \in Key
    <3>. SUFFICES ASSUME NEW k \in DOMAIN results PROVE InverterOf(k) \in Key OBVIOUS
    <3>1. k[2] \in Nat BY <1>3 DEF Key
    <3>2. (k[2] + 1) \div 2 \in Nat BY <3>1
    <3>. QED BY <3>2, LabelsKnown DEF InverterOf, Key
  <2>2. [k \in DOMAIN results |-> InverterOf(k)] \in Surjection(DOMAIN results, all)
    BY DEF Surjection
  <2>. QED BY <1>3, <2>1, <2>2, FS_Surjection
<1>. HIDE DEF all
<1>5. names \in Seq(all) /\ \A v \in all : \E n \in DOMAIN names : names[n] = v
  BY <1>4, KeysSorted
<1>6. N \in Nat /\ DOMAIN names = 1 .. N BY <1>5
<1>. HIDE DEF names, N
<1>7. Len(drawn.columns) = N /\ DOMAIN drawn.columns = 1 .. N
  <2>. DEFINE f == [i \in 1 .. N |-> Summed(results, names[i])]
  <2>1. drawn.columns = f BY <1>2, <1>6
  <2>2. f = [i \in 1 .. N |-> f[i]] OBVIOUS
  <2>. HIDE DEF f
  <2>. QED BY <1>6, <2>1, <2>2, LengthOf
<1>8. \A i \in 1 .. N : drawn.columns[i] = Summed(results, names[i]) BY <1>2, <1>6
<1>9. Named
  <2>1. ASSUME NEW i \in 1 .. N, NEW t \in DOMAIN drawn.columns[i]
        PROVE  drawn.columns[i][t] \ Zero = Sum(results, drawn.names[i], t) \ Zero
    <3>1. drawn.columns[i] = Summed(results, names[i]) /\ drawn.names[i] = names[i]
      BY <1>2, <1>8
    <3>2. drawn.columns[i][t] = IF Sum(results, names[i], t) = Null THEN Zero
                                ELSE Sum(results, names[i], t)
      BY <3>1 DEF Summed
    <3>. QED BY <3>1, <3>2 DEF Null
  <2>. QED BY <1>2, <1>6, <1>7, <2>1 DEF Named, N
<1>10. Complete
  <2>1. ASSUME NEW k \in DOMAIN results, NEW t \in results[k].at, ~results[k].zero
        PROVE  \E i \in DOMAIN drawn.columns : Reading(k, t) \in drawn.columns[i][t]
    <3>1. PICK i \in DOMAIN names : names[i] = InverterOf(k) BY <1>5 DEF all
    <3>2. k \in Strings(names[i]) BY <1>3, <3>1 DEF Strings
    <3>3. Value(results, k, t) = {Reading(k, t)} /\ t \in AlignTimestamps(results)
      BY <1>1, <2>1, ReadThere
    <3>4. Reading(k, t) \in Sum(results, names[i], t)
      <4>. HIDE DEF Reading
      <4>. QED BY <3>2, <3>3 DEF Sum
    <3>5. Sum(results, names[i], t) # Null BY <3>4 DEF Null
    <3>6. drawn.columns[i][t] = Sum(results, names[i], t)
      <4>1. drawn.columns[i] = Summed(results, names[i]) BY <1>6, <1>8, <3>1
      <4>2. Summed(results, names[i])[t] =
              IF Sum(results, names[i], t) = Null THEN Zero ELSE Sum(results, names[i], t)
        BY <3>3 DEF Summed
      <4>. QED BY <3>5, <4>1, <4>2
    <3>. QED BY <1>6, <1>7, <3>1, <3>4, <3>6
  <2>. QED BY <2>1 DEF Complete
<1>. QED BY <1>9, <1>10

LEMMA ReadingsShown == ChartInv => ChartsShowReadings
<1>. SUFFICES ASSUME ChartInv, InOrder
              PROVE  /\ ReadingsUnderTheirNames
                     /\ drawn # Nothing => Complete
  BY DEF ChartsShowReadings, Complete
<1>1. CASE drawn = Nothing
  <2>1. drawn.names = <<>> /\ drawn.columns = <<>> BY <1>1 DEF Nothing
  <2>. QED BY <1>1, <2>1 DEF ReadingsUnderTheirNames
<1>2. CASE results \in Answers(chart) /\ drawn = Drawn(chart, results)
  <2>. DEFINE keys == SeriesKeys(chart, results)
  <2>0. chart \in Charts /\ Known(chart) BY ChartsKnown DEF ChartInv
  <2>1. CASE chart.names \in {"sorted", "metrics"}
    <3>1. /\ keys \in Seq(Key)
          /\ \A k \in DOMAIN results : \E i \in DOMAIN keys : keys[i] = k
      BY <1>2, <2>0, KeysFound
    <3>2. drawn.columns = [i \in DOMAIN keys |-> Column(results, keys[i])]
      BY <1>2, <2>1 DEF Drawn
    <3>3. drawn.names = keys
      <4>1. CASE chart.names = "sorted" BY <1>2, <4>1 DEF Drawn, InOrder
      <4>2. CASE chart.names = "metrics" BY <1>2, <4>2 DEF Drawn
      <4>. QED BY <2>1, <4>1, <4>2
    <3>4. chart # InverterPower BY <2>0, <2>1 DEF Known
    <3>. HIDE DEF keys
    <3>5. Named /\ Complete BY <1>2, <2>0, <3>1, <3>2, <3>3, <3>4, KeysDrawn
    <3>. QED BY <3>5 DEF Named, ReadingsUnderTheirNames
  <2>2. CASE chart.names = "columns"
    <3>1. Named /\ Complete BY <1>2, <2>0, <2>2, ColumnsDrawn
    <3>. QED BY <3>1 DEF Named, ReadingsUnderTheirNames
  <2>3. CASE chart = InverterPower
    <3>1. Named /\ Complete BY <1>2, <2>3, InvertersDrawn
    <3>. QED BY <3>1 DEF Named, ReadingsUnderTheirNames
  <2>. QED BY <2>0, <2>1, <2>2, <2>3 DEF Known
<1>. QED BY <1>1, <1>2 DEF ChartInv

(* Charts.  Whatever series the answer has, a chart shows under each name    *)
(* what was read of it, and leaves out nothing that is not zero, if its      *)
(* metrics come in the order of their labels (useChartData and the charts).  *)
THEOREM ReadingsAreShown == ChartSpec => []ChartsShowReadings
<1>1. ChartInit => ChartInv BY DEF ChartInit, ChartInv
<1>2. ChartInv /\ [Draw]_chartVars => ChartInv' BY DEF ChartInv, Draw, chartVars
<1>. QED BY <1>1, <1>2, ReadingsShown, PTL DEF ChartSpec

-----------------------------------------------------------------------------
(* The types of the dashboard: what its charts ask for, and its bounds. *)

AskedType == [Board!Ranges -> 0 .. MaxPending]

BoardCounted ==
  /\ paused \in BOOLEAN /\ cached \in {"none", "pending", "ready"}
  /\ asked \in [Panels -> AskedType]
  /\ clicks \in 0 .. MaxClicks /\ failures \in 0 .. MaxFailures
  /\ ~Board!Shown => \A p \in Panels : panel[p].prev = None

(* The dashboard counts its queries with the sums of the other parts. *)
LEMMA SumsOfBoard ==
  ASSUME NEW h, NEW S
  PROVE  Board!SumFunctionOnSet(h, S) = SumFunctionOnSet(h, S)
<1>1. Board!SumFunctionOnSet(h, S) = Iter(h, S)[S]
  BY DEF Board!SumFunctionOnSet, Board!FoldFunctionOnSet, Board!MapThenFoldSet, Iter, Sums, AnyOf
<1>. QED BY <1>1, Unfold

(* A chart with less than its bound under way may ask once more. *)
LEMMA AsksMore ==
  ASSUME BoardCounted, NEW p \in Panels, Board!Pending(p) < MaxPending, NEW r
  PROVE  [asked[p] EXCEPT ![r] = @ + 1] \in AskedType
<1>. DEFINE h == asked[p]
<1>1. h \in [Board!Ranges -> 0 .. MaxPending] BY DEF BoardCounted, AskedType
<1>2. IsFiniteSet(Board!Ranges)
  BY BoardAssumption, FS_AddElement DEF Board!Ranges
<1>3. Board!Pending(p) = SumFunctionOnSet(h, Board!Ranges)
  BY <1>1, SumsOfBoard DEF Board!Pending, Board!SumFunction
<1>4. MaxPending \in Nat BY BoardAssumption
<1>. HIDE DEF h
<1>5. \A x \in Board!Ranges : h[x] \in Nat BY <1>1, <1>4
<1>6. /\ SumFunctionOnSet(h, Board!Ranges) \in Nat
      /\ \A x \in Board!Ranges : h[x] <= SumFunctionOnSet(h, Board!Ranges)
  BY <1>2, <1>5, SumsNatural
<1>7. \A x \in Board!Ranges : h[x] + 1 \in 0 .. MaxPending BY <1>3, <1>4, <1>5, <1>6
<1>8. [h EXCEPT ![r] = @ + 1] \in [Board!Ranges -> 0 .. MaxPending] BY <1>1, <1>7
<1>. QED BY <1>8 DEF h, AskedType

(* What a render asks for, and that it shows no chart that was not there. *)
LEMMA RendersAsk ==
  ASSUME BoardCounted, NEW c, NEW over, NEW charts, NEW pg \in BoardPage,
         Board!Render(c, over, charts, pg)
  PROVE  /\ asked' \in [Panels -> AskedType] /\ cached' \in {"none", "pending", "ready"}
         /\ page'.at = pg.at
         /\ \A p \in Panels : charts[p].prev = None => panel'[p].prev = None
<1>. DEFINE kept == IF ctx.mixed /\ ~c.mixed THEN Board!NoOverrides ELSE over
            prop(p) == IF kept[p] = None THEN c.global ELSE kept[p]
            next == [p \in Panels |-> Board!Sync(charts[p], prop(p))]
            asking(p) == Board!Wanted(next[p]) # Board!Wanted(panel[p])
            more(p) == [asked[p] EXCEPT ![Board!Wanted(next[p])] = @ + 1]
<1>1. /\ \A p \in Panels : asking(p) => Board!Pending(p) < MaxPending
      /\ asked' = [p \in Panels |-> IF asking(p) THEN more(p) ELSE asked[p]]
      /\ panel' = next
  BY DEF Board!Render
<1>2. page' = pg \/ page' = [pg EXCEPT !.loads = @ + 1] BY DEF Board!Render
<1>3. page'.at = pg.at BY <1>2 DEF BoardPage
<1>4. cached' \in {"none", "pending", "ready"} BY DEF Board!Render, BoardCounted
<1>5. ASSUME NEW p \in Panels, charts[p].prev = None PROVE panel'[p].prev = None
  <2>1. panel'[p] = Board!Sync(charts[p], prop(p)) BY <1>1
  <2>. QED BY <1>5, <2>1 DEF Board!Sync
<1>. HIDE DEF next
<1>6. ASSUME NEW p \in Panels, asking(p) PROVE more(p) \in AskedType
  BY <1>1, <1>6, AsksMore
<1>. HIDE DEF asking, more
<1>7. asked' \in [Panels -> AskedType] BY <1>1, <1>6 DEF BoardCounted
<1>. QED BY <1>3, <1>4, <1>5, <1>7

(* Clicks and failures stay within their bounds. *)
LEMMA ClickCounted ==
  ASSUME BoardCounted, Board!Click
  PROVE  clicks' \in 0 .. MaxClicks /\ failures' \in 0 .. MaxFailures
<1>1. MaxClicks \in Nat BY BoardAssumption
<1>. QED BY <1>1 DEF BoardCounted, Board!Click

(* Charts that refresh ask within theirs. *)
LEMMA QueriesCounted ==
  ASSUME BoardCounted, NEW ps, Board!Query(ps),
         clicks' \in 0 .. MaxClicks, failures' \in 0 .. MaxFailures
  PROVE  BoardCounted'
<1>. DEFINE more(p) == [asked[p] EXCEPT ![Board!Wanted(panel[p])] = @ + 1]
<1>1. /\ \A p \in ps : Board!Pending(p) < MaxPending
      /\ asked' = [p \in Panels |-> IF p \in ps THEN more(p) ELSE asked[p]]
      /\ UNCHANGED <<ctx, paused, cached, page, overrides, panel>>
  BY DEF Board!Query
<1>2. ASSUME NEW p \in Panels, p \in ps PROVE more(p) \in AskedType BY <1>1, <1>2, AsksMore
<1>. HIDE DEF more
<1>3. asked' \in [Panels -> AskedType] BY <1>1, <1>2 DEF BoardCounted
<1>. QED BY <1>1, <1>3 DEF BoardCounted, Board!Shown

(* A step of the user, on a chart or on all. *)
LEMMA UserCounted == ASSUME BoardInv, BoardCounted, Board!UserStep PROVE BoardCounted'
<1>0. page \in BoardPage BY DEF BoardInv, BoardTyped
<1>1. ASSUME NEW frame \in Offered, Board!PickGlobal(frame) PROVE BoardCounted'
  <2>. DEFINE c == [global |-> frame, mixed |-> FALSE]
  <2>1. Board!Render(c, overrides, panel, page) /\ Board!Click /\ paused' = paused
    BY <1>1 DEF Board!PickGlobal
  <2>. HIDE DEF c
  <2>2. /\ asked' \in [Panels -> AskedType] /\ cached' \in {"none", "pending", "ready"}
        /\ page'.at = page.at /\ \A p \in Panels : panel[p].prev = None => panel'[p].prev = None
    BY <1>0, <2>1, RendersAsk
  <2>. QED BY <2>1, <2>2, ClickCounted DEF BoardCounted, Board!Shown
<1>2. ASSUME NEW p \in Panels, NEW c, NEW over, NEW charts, Board!ClickPanel(p),
             Board!Render(c, over, charts, page)
      PROVE  BoardCounted'
  <2>1. Board!Click /\ paused' = paused /\ page.at = "shown" BY <1>2 DEF Board!ClickPanel
  <2>2. /\ asked' \in [Panels -> AskedType] /\ cached' \in {"none", "pending", "ready"}
        /\ page'.at = page.at
    BY <1>0, <1>2, RendersAsk
  <2>. QED BY <2>1, <2>2, ClickCounted DEF BoardCounted, Board!Shown
<1>3. ASSUME NEW frame \in Offered, NEW p \in Panels, Board!PickPanel(p, frame)
      PROVE  BoardCounted'
  <2>1. Board!ClickPanel(p) BY <1>3 DEF Board!PickPanel
  <2>2. \E c, over, charts : Board!Render(c, over, charts, page)
    BY <1>3, Zenon DEF Board!PickPanel
  <2>. QED BY <1>2, <2>1, <2>2
<1>4. ASSUME NEW p \in Panels, Board!ZoomIn(p) \/ Board!ResetZoom(p) PROVE BoardCounted'
  <2>1. Board!ClickPanel(p) BY <1>4 DEF Board!ZoomIn, Board!ResetZoom
  <2>2. \E c, over, charts : Board!Render(c, over, charts, page)
    BY <1>4, Zenon DEF Board!ZoomIn, Board!ResetZoom
  <2>. QED BY <1>2, <2>1, <2>2
<1>5. CASE Board!TogglePause
  BY <1>5, ClickCounted DEF Board!TogglePause, BoardCounted, Board!Shown
<1>6. CASE Board!ManualRefresh
  <2>1. Board!Click /\ Board!Query(Panels) BY <1>6 DEF Board!ManualRefresh
  <2>. QED BY <2>1, ClickCounted, QueriesCounted
<1>7. CASE Board!Leave
  <2>1. Board!Click /\ Board!Unmount /\ panel' = [p \in Panels |-> Board!Unmounted]
    BY <1>7 DEF Board!Leave
  <2>2. Board!NoQueries \in [Panels -> AskedType]
    BY BoardAssumption DEF Board!NoQueries, AskedType
  <2>3. \A p \in Panels : panel'[p].prev = None BY <2>1 DEF Board!Unmounted
  <2>. QED BY <2>1, <2>2, <2>3, ClickCounted DEF BoardCounted, Board!Unmount
<1>8. CASE Board!Enter
  <2>1. ~Board!Shown BY <1>8 DEF Board!Enter, Board!Shown
  <2>. QED BY <1>8, <2>1 DEF Board!Enter, BoardCounted
<1>. QED BY <1>1, <1>3, <1>4, <1>5, <1>6, <1>7, <1>8 DEF Board!UserStep

(* Every step of the dashboard keeps its types. *)
LEMMA BoardTypeStep == ASSUME BoardInv, BoardCounted, [Board!Next]_boardVars PROVE BoardCounted'
<1>0. /\ page \in BoardPage /\ panel \in [Panels -> ChartType]
      /\ MaxPending \in Nat /\ MaxFailures \in Nat
  BY BoardAssumption DEF BoardInv, BoardTyped
<1>1. CASE Board!DashboardsArrive
  BY <1>1 DEF Board!DashboardsArrive, BoardCounted, Board!Shown
<1>2. CASE Board!DashboardsFail
  <2>1. Board!Shown' <=> Board!Shown
    BY <1>0, <1>2 DEF Board!DashboardsFail, BoardPage, Board!Shown
  <2>2. failures' \in 0 .. MaxFailures BY <1>0, <1>2 DEF Board!DashboardsFail, BoardCounted
  <2>. QED BY <1>2, <2>1, <2>2 DEF Board!DashboardsFail, BoardCounted
<1>3. CASE Board!ShowDashboards
  <2>. DEFINE snap == page.first /\ Configured # None
              c == IF snap THEN [global |-> Configured, mixed |-> FALSE] ELSE ctx
              charts == [p \in Panels |->
                           IF page.at = "shown" THEN panel[p] ELSE Board!Mount(p, c.global)]
              pg == [at |-> "shown", first |-> page.first /\ ~snap, loads |-> page.loads - 1]
  <2>1. /\ Board!Render(c, overrides, charts, pg)
        /\ page.loads > 0 /\ UNCHANGED <<paused, clicks, failures>>
    BY <1>3 DEF Board!ShowDashboards
  <2>2. page.loads - 1 \in Nat BY <1>0, <2>1 DEF BoardPage
  <2>3. pg \in BoardPage /\ pg.at = "shown" BY <2>2 DEF BoardPage
  <2>. HIDE DEF c, charts, pg
  <2>4. /\ asked' \in [Panels -> AskedType] /\ cached' \in {"none", "pending", "ready"}
        /\ page'.at = "shown"
    BY <2>1, <2>3, RendersAsk
  <2>. QED BY <2>1, <2>4 DEF BoardCounted, Board!Shown
<1>4. CASE Board!UserStep BY <1>4, UserCounted
<1>5. ASSUME NEW p \in Panels, Board!Refresh(p) PROVE BoardCounted'
  BY <1>5, QueriesCounted DEF Board!Refresh, BoardCounted
<1>6. ASSUME NEW p \in Panels, NEW r \in Board!Ranges, Board!QueryEnds(p, r)
      PROVE  asked' \in [Panels -> AskedType]
  <2>. DEFINE one == [asked[p] EXCEPT ![r] = @ - 1]
  <2>1. asked[p] \in [Board!Ranges -> 0 .. MaxPending] /\ asked[p][r] > 0
    BY <1>6 DEF Board!QueryEnds, BoardCounted, AskedType
  <2>2. asked[p][r] - 1 \in 0 .. MaxPending BY <1>0, <2>1
  <2>3. one \in AskedType BY <2>1, <2>2 DEF AskedType
  <2>4. asked' = [asked EXCEPT ![p] = one]
    BY <1>6, Zenon DEF Board!QueryEnds, BoardCounted
  <2>. HIDE DEF one
  <2>. QED BY <2>3, <2>4 DEF BoardCounted
<1>7. ASSUME NEW p \in Panels, NEW r \in Board!Ranges, Board!Answer(p, r) PROVE BoardCounted'
  <2>1. panel' = [panel EXCEPT ![p] = [panel[p] EXCEPT !.data = r]]
    BY <1>7, Zenon DEF Board!Answer
  <2>2. [panel[p] EXCEPT !.data = r].prev = panel[p].prev BY <1>0 DEF ChartType
  <2>3. \A q \in Panels : panel'[q].prev = panel[q].prev BY <1>0, <2>1, <2>2
  <2>4. /\ UNCHANGED <<paused, cached, page, clicks, failures>>
        /\ asked' \in [Panels -> AskedType]
    BY <1>6, <1>7 DEF Board!Answer, Board!QueryEnds
  <2>. QED BY <2>3, <2>4 DEF BoardCounted, Board!Shown
<1>8. ASSUME NEW p \in Panels, NEW r \in Board!Ranges, Board!QueryFails(p, r) PROVE BoardCounted'
  <2>1. asked' \in [Panels -> AskedType] BY <1>6, <1>8 DEF Board!QueryFails
  <2>2. failures' \in 0 .. MaxFailures BY <1>0, <1>8 DEF Board!QueryFails, BoardCounted
  <2>. QED BY <1>8, <2>1, <2>2
      DEF Board!QueryFails, Board!QueryEnds, BoardCounted, Board!Shown
<1>9. CASE UNCHANGED boardVars BY <1>9 DEF boardVars, BoardCounted, Board!Shown
<1>. QED BY <1>1, <1>2, <1>3, <1>4, <1>5, <1>7, <1>8, <1>9 DEF Board!Next

(* The dashboard keeps its types. *)
LEMMA BoardTypes == Board!Init /\ [][Board!Next]_boardVars => []Board!TypeOK
<1>1. Board!Init => BoardInv /\ BoardCounted
  <2>. SUFFICES ASSUME Board!Init PROVE BoardCounted BY BoardStarts
  <2>1. Board!NoQueries \in [Panels -> AskedType]
    BY BoardAssumption DEF Board!NoQueries, AskedType
  <2>2. \A p \in Panels : panel[p].prev = None BY DEF Board!Init, Board!Unmounted
  <2>3. 0 \in 0 .. MaxClicks /\ 0 \in 0 .. MaxFailures BY BoardAssumption
  <2>. QED BY <2>1, <2>2, <2>3 DEF Board!Init, BoardCounted
<1>2. BoardInv /\ BoardCounted /\ [Board!Next]_boardVars => (BoardInv /\ BoardCounted)'
  BY BoardStep, BoardTypeStep
<1>3. BoardInv /\ BoardCounted => Board!TypeOK
  <2>. SUFFICES ASSUME BoardInv, BoardCounted PROVE Board!TypeOK OBVIOUS
  <2>1. ASSUME NEW p \in Panels PROVE Board!Shown <=> panel[p].prev # None
    <3>1. CASE Board!Shown
      <4>1. panel[p].prev = GivenTo(p) BY <3>1 DEF BoardInv, ChartsFollow, Following
      <4>2. GivenTo(p) # None
        BY BoardAssumption DEF BoardInv, BoardTyped, GivenTo, ContextType, Choice
      <4>. QED BY <3>1, <4>1, <4>2
    <3>2. CASE ~Board!Shown BY <3>2 DEF BoardCounted
    <3>. QED BY <3>1, <3>2
  <2>. QED BY <2>1 DEF BoardInv, BoardTyped, BoardCounted, Board!TypeOK, ContextType,
      BoardPage, ChartType, Choice, AskedType
<1>. QED BY <1>1, <1>2, <1>3, PTL

-----------------------------------------------------------------------------
(* The types of the power flow: its readings, and how often it may change. *)
FlowTyped ==
  /\ values \in Readings \cup {NoReading} /\ connected \in BOOLEAN /\ loading \in BOOLEAN
  /\ fetch \in {"idle", "values", "grid"} /\ size \in Sizes /\ trail \subseteq Sources
  /\ spawned \in 0 .. Spawns /\ changed \in 0 .. Changes

(* Every step of the panel keeps them. *)
LEMMA FlowTypeStep ==
  ASSUME FlowInv, FlowInv', FlowTyped, [FlowNext]_flowVars PROVE FlowTyped'
<1> USE DEF FlowTyped
<1>0. Spawns \in Nat /\ Changes \in Nat BY FlowAssumption
<1>1. CASE FetchAgain BY <1>1 DEF FetchAgain
<1>2. CASE ValuesArrive
  <2>1. changed' \in 0 .. Changes BY <1>0, <1>2 DEF ValuesArrive, Change
  <2>. QED BY <1>2, <2>1 DEF ValuesArrive
<1>3. CASE ValuesFail BY <1>3 DEF ValuesFail
<1>4. CASE GridStatusEnds BY <1>4 DEF GridStatusEnds
<1>5. CASE Resize
  <2>1. changed' \in 0 .. Changes BY <1>0, <1>5 DEF Resize, Change
  <2>. QED BY <1>5, <2>1 DEF Resize, dataVars
<1>6. ASSUME NEW s \in {"Solar", "GridImport", "BatteryDischarge"}, Spawn(s) PROVE FlowTyped'
  <2>1. spawned' \in 0 .. Spawns BY <1>0, <1>6 DEF Spawn
  <2>2. trail' \subseteq Sources BY <1>6, SourcesNamed DEF Spawn
  <2>. QED BY <1>6, <2>1, <2>2 DEF Spawn, dataVars
<1>7. CASE Frame
  <2>1. \A p \in pieces' : p.source \in Sources
    <3>1. \A p \in pieces' : PieceTyped(p)' BY DEF FlowInv, PiecesInv
    <3>. QED BY <3>1, Ahead DEF PieceTyped
  <2>2. trail' = trail \cup {p.source : p \in pieces'} BY <1>7 DEF Frame
  <2>3. UNCHANGED <<dataVars, size, spawned, changed>> BY <1>7 DEF Frame
  <2>. QED BY <2>1, <2>2, <2>3 DEF dataVars
<1>8. CASE UNCHANGED flowVars BY <1>8 DEF flowVars
<1>. QED BY <1>1, <1>2, <1>3, <1>4, <1>5, <1>6, <1>7, <1>8 DEF FlowNext

(* The panel of the power flow keeps its types. *)
LEMMA FlowTypes == FlowSpec => []FlowTypeOK
<1>1. FlowInit => FlowInv /\ FlowTyped
  <2>. SUFFICES ASSUME FlowInit PROVE FlowInv /\ FlowTyped OBVIOUS
  <2>1. FlowInv BY NoReadingTyped DEF FlowInit, FlowInv, PiecesInv, Crossed, Stages
  <2>2. 0 \in 0 .. Spawns /\ 0 \in 0 .. Changes BY FlowAssumption
  <2>3. FlowTyped BY <2>2 DEF FlowInit, FlowTyped
  <2>. QED BY <2>1, <2>3
<1>2. FlowInv /\ FlowTyped /\ [FlowNext]_flowVars => (FlowInv /\ FlowTyped)'
  BY FlowStep, FlowTypeStep
<1>3. FlowInv /\ FlowTyped => FlowTypeOK
  <2>. SUFFICES ASSUME FlowInv, FlowTyped, NEW p \in pieces PROVE p.size \in Sizes /\ p.path # <<>>
    BY DEF FlowInv, FlowTyped, FlowTypeOK
  <2>1. PieceTyped(p) BY DEF FlowInv, PiecesInv
  <2>2. PICK s \in Sources, at \in Sizes : \E path \in {Way(s), <<EndPoint(s)>>} :
          p = [source |-> s, path |-> path, size |-> at]
    BY <2>1 DEF PieceTyped
  <2>3. PICK path \in {Way(s), <<EndPoint(s)>>} : p = [source |-> s, path |-> path, size |-> at]
    BY <2>2
  <2>4. p.size = at /\ p.path = path BY <2>3
  <2>5. path = <<EndPoint(s)>> \/ \E a : path = <<a, EndPoint(s)>> BY Ways
  <2>6. path # <<>> BY <2>5
  <2>. QED BY <2>4, <2>6
<1>. QED BY <1>1, <1>2, <1>3, PTL DEF FlowSpec

-----------------------------------------------------------------------------
(* The types of the axis of a chart: it shows the whole, or between two times. *)
Span == {Whole} \cup (Int \X Int)

(* What the user touches ends with an axis of that type. *)
LEMMA Settled ==
  ASSUME ZoomTypeOK, NEW d \in Timeframes, NEW r \in Span, NEW z \in BOOLEAN, Touch, Settle(d, r, z)
  PROVE  ZoomTypeOK'
<1>1. touches' \in 0 .. MaxTouches
  <2>1. MaxTouches \in Nat BY ZoomAssumption
  <2>. QED BY <2>1 DEF Touch, ZoomTypeOK
<1>2. chart' = chart /\ now' = now BY DEF Touch
<1>3. visible' \in Span /\ zoom' \in Span /\ tf' = d /\ zoomed' = z
  BY DEF Settle, Span, ZoomTypeOK
<1>. QED BY <1>1, <1>2, <1>3 DEF ZoomTypeOK, Span, Whole

(* The axis keeps its types. *)
LEMMA ZoomTypes == ZoomSpec => []ZoomTypeOK
<1>1. ZoomInit => ZoomTypeOK
  <2>. SUFFICES ASSUME ZoomInit PROVE ZoomTypeOK OBVIOUS
  <2>1. now \in Start .. End /\ touches \in 0 .. MaxTouches BY ZoomAssumption DEF ZoomInit
  <2>2. tf \in Timeframes BY ZoomAssumption DEF ZoomInit
  <2>. QED BY <2>1, <2>2 DEF ZoomInit, ZoomTypeOK
<1>2. ZoomInv /\ ZoomTypeOK /\ [Moves]_zoomVars => ZoomTypeOK'
  <2>. SUFFICES ASSUME ZoomInv, ZoomTypeOK, [Moves]_zoomVars PROVE ZoomTypeOK' OBVIOUS
  <2>0. tf \in Int /\ tf \in Timeframes /\ zoomed \in BOOLEAN /\ zoom \in Span /\ Whole \in Span
        /\ FALSE \in BOOLEAN
    BY ZoomAssumption DEF ZoomTypeOK, Span
  <2>1. CASE Tick
    <3>1. now' \in Start .. End BY <2>1, ZoomAssumption DEF Tick, ZoomTypeOK
    <3>. QED BY <2>1, <3>1 DEF Tick, ZoomTypeOK, Whole
  <2>2. ASSUME NEW d \in Timeframes, TfChange(d) PROVE ZoomTypeOK'
    BY <2>0, <2>2, Settled DEF TfChange
  <2>3. ASSUME NEW d \in Timeframes, GlobalTfChange(d) PROVE ZoomTypeOK'
    BY <2>0, <2>3, Settled DEF GlobalTfChange
  <2>4. ASSUME NEW from \in 0 .. End, NEW to \in 0 .. End, Select(<<from, to>>)
        PROVE  ZoomTypeOK'
    <3>1. touches' \in 0 .. MaxTouches
      <4>1. MaxTouches \in Nat BY ZoomAssumption
      <4>. QED BY <2>4, <4>1 DEF Select, Touch, ZoomTypeOK
    <3>2. <<from, to>> \in Int \X Int OBVIOUS
    <3>. QED BY <2>4, <3>1, <3>2 DEF Select, Touch, ZoomTypeOK, Whole
  <2>5. CASE HandleReset BY <2>0, <2>5, Settled DEF HandleReset
  <2>6. CASE HandlePrev
    <3>1. Past(Queried) BY QueriedIsPast
    <3>. DEFINE r == <<Queried[1] - tf, Queried[2] - tf>>
    <3>2. r \in Span BY <2>0, <3>1 DEF Past, Span
    <3>3. Touch /\ Settle(tf, r, zoomed) BY <2>6 DEF HandlePrev
    <3>. HIDE DEF r
    <3>. QED BY <2>0, <3>2, <3>3, Settled
  <2>7. CASE HandleNext
    <3>. DEFINE r == <<zoom[1] + tf, zoom[2] + tf>>
    <3>1. zoom \in Int \X Int BY <2>7 DEF HandleNext, ZoomTypeOK
    <3>2. r \in Span BY <2>0, <3>1 DEF Span
    <3>3. Touch /\ (Settle(tf, Whole, FALSE) \/ Settle(tf, r, zoomed)) BY <2>7 DEF HandleNext
    <3>. HIDE DEF r
    <3>. QED BY <2>0, <3>2, <3>3, Settled
  <2>8. CASE UNCHANGED zoomVars BY <2>8 DEF zoomVars, ZoomTypeOK, Whole
  <2>. QED BY <2>1, <2>2, <2>3, <2>4, <2>5, <2>6, <2>7, <2>8 DEF Moves
<1>. QED BY <1>1, <1>2, ZoomInvKept, PTL DEF ZoomSpec

-----------------------------------------------------------------------------
(* The types of the configuration, of its copy and of those who use it. *)
LEMMA ConfigSteps == ConfigTypeOK /\ [ConfigNext]_configVars => ConfigTypeOK'
<1>. DEFINE UserType == [at : {"idle", "asking", "sent", "set", "using", "done"},
                         got : 0 .. MaxConfigs, late : BOOLEAN]
<1>. SUFFICES ASSUME ConfigTypeOK, [ConfigNext]_configVars PROVE ConfigTypeOK' OBVIOUS
<1>0. /\ MaxConfigs \in Nat \ {0} /\ user \in [Users -> UserType]
      /\ live \in 0 .. MaxConfigs /\ copy.config \in 0 .. MaxConfigs /\ 0 \in 0 .. MaxConfigs
      /\ \A u \in Users : user[u].got \in 0 .. MaxConfigs
  BY ConfigAssumption DEF ConfigTypeOK
<1>1. ASSUME NEW u \in Users, NEW at \in {"idle", "asking", "sent", "set", "using", "done"},
             NEW got \in 0 .. MaxConfigs, Becomes(u, at, got)
      PROVE  user' \in [Users -> UserType]
  <2>. DEFINE one == [user[u] EXCEPT !.at = at, !.got = got]
  <2>1. user' = [user EXCEPT ![u] = one] BY <1>1, <1>0, Zenon DEF Becomes
  <2>2. one \in UserType BY <1>0
  <2>. HIDE DEF one
  <2>. QED BY <1>0, <2>1, <2>2
<1>2. ASSUME NEW u \in Users,
             FindKept(u) \/ BeginFetch(u) \/ SendConfig(u) \/ ConfigFails(u)
             \/ StoreConfig(u) \/ SetCurrentConfig(u) \/ SetLastFetch(u)
             \/ UseCurrentConfig(u) \/ NextUse(u)
      PROVE  ConfigTypeOK'
  <2>1. user' \in [Users -> UserType]
    <3>1. CASE BeginFetch(u) BY <1>0, <3>1 DEF BeginFetch
    <3>2. CASE ~BeginFetch(u)
      BY <1>0, <1>1, <1>2, <3>2
         DEF FindKept, SendConfig, ConfigFails, StoreConfig, SetCurrentConfig, SetLastFetch,
             UseCurrentConfig, NextUse
    <3>. QED BY <3>1, <3>2
  <2>2. copy' \in [config : 0 .. MaxConfigs, fresh : BOOLEAN]
    <3>1. copy \in [config : 0 .. MaxConfigs, fresh : BOOLEAN] /\ user[u].late \in BOOLEAN
      BY <1>0 DEF ConfigTypeOK
    <3>2. CASE StoreConfig(u) BY <1>0, <3>2 DEF StoreConfig
    <3>3. CASE SetCurrentConfig(u) BY <1>0, <3>1, <3>3 DEF SetCurrentConfig
    <3>4. CASE SetLastFetch(u) BY <3>1, <3>4 DEF SetLastFetch
    <3>5. CASE copy' = copy BY <3>1, <3>5
    <3>. QED BY <1>2, <3>2, <3>3, <3>4, <3>5
         DEF FindKept, BeginFetch, SendConfig, ConfigFails, UseCurrentConfig, NextUse
  <2>3. kind' = kind /\ live' = live
    BY <1>2 DEF FindKept, BeginFetch, SendConfig, ConfigFails, StoreConfig, SetCurrentConfig,
                SetLastFetch, UseCurrentConfig, NextUse
  <2>. QED BY <2>1, <2>2, <2>3 DEF ConfigTypeOK
<1>3. CASE ConfigChanges
  <2>1. live' \in 1 .. MaxConfigs BY <1>0, <1>3 DEF ConfigChanges, ConfigTypeOK
  <2>. QED BY <1>3, <2>1 DEF ConfigChanges, ConfigTypeOK
<1>4. CASE CopyAges
  <2>1. user' \in [Users -> UserType]
    <3>1. \A u \in Users : [user[u] EXCEPT !.late = user[u].at # "idle"] \in UserType BY <1>0
    <3>. QED BY <1>4, <3>1 DEF CopyAges
  <2>2. copy' \in [config : 0 .. MaxConfigs, fresh : BOOLEAN] BY <1>4 DEF CopyAges, ConfigTypeOK
  <2>. QED BY <1>4, <2>1, <2>2 DEF CopyAges, ConfigTypeOK
<1>5. CASE UNCHANGED configVars BY <1>5 DEF configVars, ConfigTypeOK
<1>. QED BY <1>2, <1>3, <1>4, <1>5 DEF ConfigNext

(* It begins with them. *)
LEMMA ConfigStarts == ConfigInit => ConfigTypeOK
<1>1. 1 \in 1 .. MaxConfigs /\ 0 \in 0 .. MaxConfigs BY ConfigAssumption
<1>. QED BY <1>1 DEF ConfigInit, ConfigTypeOK

-----------------------------------------------------------------------------
(* The types of the labels: of the tabs, and of what bounds them. *)

LabelsTyped ==
  /\ tab \in [Tabs -> TabType]
  /\ edits \in 0 .. MaxEdits /\ saves \in 0 .. MaxSaves /\ faults \in 0 .. MaxFaults

(* A step that changes neither a tab nor how often users have acted. *)
LEMMA FaultTyped ==
  ASSUME LabelsTyped, UNCHANGED <<tab, edits, saves>>, Fault \/ UNCHANGED faults
  PROVE  LabelsTyped'
<1>1. MaxFaults \in Nat BY LabelsAssumption
<1>2. faults' \in 0 .. MaxFaults BY <1>1 DEF LabelsTyped, Fault
<1>. QED BY <1>2 DEF LabelsTyped

(* One tab becomes b. *)
LEMMA TabTyped ==
  ASSUME LabelsTyped, NEW t \in Tabs, NEW b \in TabType, tab' = [tab EXCEPT ![t] = b],
         edits' = edits \/ (edits < MaxEdits /\ edits' = edits + 1),
         saves' = saves, Fault \/ UNCHANGED faults
  PROVE  LabelsTyped'
<1>1. MaxFaults \in Nat /\ MaxEdits \in Nat BY LabelsAssumption
<1>2. faults' \in 0 .. MaxFaults BY <1>1 DEF LabelsTyped, Fault
<1>3. edits' \in 0 .. MaxEdits BY <1>1 DEF LabelsTyped
<1>. QED BY <1>2, <1>3 DEF LabelsTyped

(* The user changes keys of the form. *)
LEMMA EditTyped ==
  ASSUME LabelsTyped, NEW t \in Tabs, NEW labels \in LabelSets, NEW keys \in SUBSET Keys,
         Edit(t, labels, keys)
  PROVE  LabelsTyped'
<1>. DEFINE more == {Trim[k] : k \in keys}
            b == [tab[t] EXCEPT !.labels = labels, !.dirty = TRUE, !.edited = @ \cup more]
<1>1. tab[t] \in TabType BY DEF LabelsTyped
<1>2. more \in SUBSET Keys BY LabelsAssumption
<1>3. /\ tab' = [tab EXCEPT ![t].labels = labels, ![t].dirty = TRUE, ![t].edited = @ \cup more]
      /\ edits < MaxEdits /\ edits' = edits + 1 /\ UNCHANGED <<saves, faults>>
  BY DEF Edit
<1>. HIDE DEF more
<1>4. tab' = [tab EXCEPT ![t] = b] BY <1>3, Zenon DEF LabelsTyped
<1>5. b \in TabType BY <1>1, <1>2 DEF TabType
<1>. HIDE DEF b
<1>. QED BY <1>3, <1>4, <1>5, TabTyped

(* Every step of the labels keeps the types. *)
LEMMA LabelsTypeStep ==
  ASSUME DiskInv, LabelsTyped, [LabelsNext]_labelVars PROVE LabelsTyped'
<1>1. ASSUME NEW t \in Tabs,
             \/ Restart \/ SaveRefused(t) \/ SaveTruncates(t) \/ SaveBreaks(t) \/ SaveWrites(t)
             \/ SaveLost(t) \/ SaveFailed(t)
      PROVE  LabelsTyped'
  <2>1. UNCHANGED <<tab, edits, saves>> /\ (Fault \/ UNCHANGED faults)
    BY <1>1 DEF Restart, SaveRefused, SaveTruncates, SaveBreaks, SaveWrites, SaveLost, SaveFailed
  <2>. QED BY <2>1, FaultTyped
<1>2. ASSUME NEW t \in Tabs, NEW w \in BOOLEAN, Load(t, w), Fault \/ UNCHANGED faults
      PROVE  LabelsTyped'
  <2>. DEFINE b == [loading |-> FALSE, writable |-> w, labels |-> memory, dirty |-> tab[t].dirty,
                    loaded |-> memory, edited |-> {}, missed |-> FALSE]
  <2>1. tab[t] \in TabType BY DEF LabelsTyped
  <2>2. b \in TabType BY <2>1 DEF TabType, DiskInv
  <2>3. tab' = [tab EXCEPT ![t] = b] /\ UNCHANGED <<edits, saves>> BY <1>2 DEF Load
  <2>. HIDE DEF b
  <2>. QED BY <1>2, <2>2, <2>3, TabTyped
<1>3. ASSUME NEW t \in Tabs, FetchFails(t) PROVE LabelsTyped'
  <2>. DEFINE b == [tab[t] EXCEPT !.loading = FALSE, !.missed = TRUE]
  <2>1. tab[t] \in TabType BY DEF LabelsTyped
  <2>2. b \in TabType BY <2>1 DEF TabType
  <2>3. tab' = [tab EXCEPT ![t] = b] BY <1>3, Zenon DEF FetchFails, LabelsTyped
  <2>4. UNCHANGED <<edits, saves>> /\ Fault BY <1>3 DEF FetchFails
  <2>. HIDE DEF b
  <2>. QED BY <2>2, <2>3, <2>4, TabTyped
<1>4. ASSUME NEW t \in Tabs, SaveDone(t) PROVE LabelsTyped'
  <2>. DEFINE b == [tab[t] EXCEPT !.dirty = FALSE, !.loading = TRUE]
  <2>1. tab[t] \in TabType BY DEF LabelsTyped
  <2>2. b \in TabType BY <2>1 DEF TabType
  <2>3. tab' = [tab EXCEPT ![t] = b] BY <1>4, Zenon DEF SaveDone, LabelsTyped
  <2>4. UNCHANGED <<edits, saves, faults>> BY <1>4 DEF SaveDone
  <2>. HIDE DEF b
  <2>. QED BY <2>2, <2>3, <2>4, TabTyped
<1>5. ASSUME NEW t \in Tabs, HandleSave(t) PROVE LabelsTyped'
  <2>1. MaxSaves \in Nat BY LabelsAssumption
  <2>2. saves' \in 0 .. MaxSaves BY <1>5, <2>1 DEF LabelsTyped, HandleSave
  <2>. QED BY <1>5, <2>2 DEF LabelsTyped, HandleSave
<1>6. ASSUME NEW t \in Tabs, NEW k \in Keys, NEW l \in Keys, NEW text \in Texts,
             \/ HandleAdd(t) \/ HandleDelete(t, k) \/ HandleUpdateKey(t, k, l)
             \/ HandleUpdateValue(t, k, text)
      PROVE  LabelsTyped'
  <2>1. tab[t].labels \in LabelSets BY DEF LabelsTyped, TabType
  <2>2. Nameless \in Keys /\ NewText \in Texts BY LabelsAssumption
  <2>3. CASE HandleAdd(t)
    <3>1. [tab[t].labels EXCEPT ![Nameless] = NewText] \in LabelSets
      BY <2>1, <2>2 DEF LabelSets
    <3>. QED BY <2>2, <2>3, <3>1, EditTyped DEF HandleAdd
  <2>4. CASE HandleDelete(t, k)
    <3>1. [tab[t].labels EXCEPT ![k] = Absent] \in LabelSets BY <2>1 DEF LabelSets
    <3>. QED BY <2>4, <3>1, EditTyped DEF HandleDelete
  <2>5. CASE HandleUpdateKey(t, k, l)
    <3>1. [tab[t].labels EXCEPT ![k] = Absent, ![l] = tab[t].labels[k]] \in LabelSets
      BY <2>1 DEF LabelSets
    <3>. QED BY <2>5, <3>1, EditTyped DEF HandleUpdateKey
  <2>6. CASE HandleUpdateValue(t, k, text)
    <3>1. [tab[t].labels EXCEPT ![k] = text] \in LabelSets BY <2>1 DEF LabelSets
    <3>. QED BY <2>6, <3>1, EditTyped DEF HandleUpdateValue
  <2>. QED BY <1>6, <2>3, <2>4, <2>5, <2>6
<1>7. CASE UNCHANGED labelVars BY <1>7 DEF labelVars, LabelsTyped
<1>8. CASE Restart
  <2>1. UNCHANGED <<tab, edits, saves>> /\ Fault BY <1>8 DEF Restart
  <2>. QED BY <2>1, FaultTyped
<1>9. ASSUME NEW t \in Tabs, FetchLabels(t) \/ FetchReadOnly(t) PROVE LabelsTyped'
  BY <1>2, <1>9 DEF FetchLabels, FetchReadOnly
<1>10. Nameless \in Keys /\ NewText \in Texts BY LabelsAssumption
<1>. QED BY <1>1, <1>3, <1>4, <1>5, <1>6, <1>7, <1>8, <1>9, <1>10 DEF LabelsNext

(* The labels keep their types. *)
LEMMA LabelsTypes == LabelsSpec => []LabelsTypeOK
<1>1. LabelsInit => DiskInv /\ LabelsTyped
  <2>. SUFFICES ASSUME LabelsInit PROVE LabelsTyped BY DiskInit
  <2>1. NoLabels \in LabelSets BY DEF NoLabels, LabelSets
  <2>2. Opened \in TabType BY <2>1 DEF Opened, TabType
  <2>3. 0 \in 0 .. MaxEdits /\ 0 \in 0 .. MaxSaves /\ 0 \in 0 .. MaxFaults BY LabelsAssumption
  <2>. QED BY <2>2, <2>3 DEF LabelsInit, LabelsTyped
<1>2. DiskInv /\ LabelsTyped /\ [LabelsNext]_labelVars => (DiskInv /\ LabelsTyped)'
  BY DiskStep, LabelsTypeStep
<1>3. DiskInv /\ LabelsTyped => LabelsTypeOK
  BY DEF DiskInv, LabelsTyped, LabelsTypeOK, SaveType, TabType
<1>. QED BY <1>1, <1>2, <1>3, PTL DEF LabelsSpec

-----------------------------------------------------------------------------
(* The pages: no more is under way than has been asked for. *)
MarkType == [ran : BOOLEAN, success : BOOLEAN]
RunType == [one : [Collectors -> 0 .. MaxAsks], all : BOOLEAN]
DebugType == [selected : Queries, asked : Said, result : Said]
ExplorerType == [error : Said, result : Said, loading : BOOLEAN, last : Said, mixed : BOOLEAN]

PagesTyped ==
  /\ visit \in Visits /\ load \in {"loading", "shown", "missing"}
  /\ asks \in 0 .. MaxAsks /\ errors \in 0 .. MaxErrors

ExplorerTyped ==
  /\ explorer \in ExplorerType /\ pending \in [Queries -> 0 .. MaxAsks]
  /\ \A q \in Queries : pending[q] <= asks

TroubleTyped ==
  /\ marks \in [Collectors -> MarkType] /\ collected \subseteq Collectors
  /\ running \in RunType /\ (\A c \in Collectors : running.one[c] <= asks)
  /\ debug \in DebugType /\ bundling \in BOOLEAN

AllTyped == PagesTyped /\ ExplorerTyped /\ TroubleTyped

(* Steps ask once more at most, and never beyond the bound. *)
LEMMA AsksOn ==
  ASSUME PagesTyped, Ask \/ Answered \/ Failed
  PROVE  /\ asks' \in 0 .. MaxAsks /\ errors' \in 0 .. MaxErrors /\ visit' = visit
         /\ asks' = asks \/ asks' = asks + 1
         /\ Ask => asks' = asks + 1
         /\ asks <= asks'
<1>1. MaxAsks \in Nat /\ MaxErrors \in Nat BY PagesAssumption
<1>2. asks \in 0 .. MaxAsks /\ errors \in 0 .. MaxErrors BY DEF PagesTyped
<1>. QED BY <1>1, <1>2 DEF Ask, Answered, Failed

(* From n to d: one more has been asked for, or one has ended. *)
Counts(n, d) == (d = n + 1 /\ asks' = asks + 1) \/ (n > 0 /\ d = n - 1)

(* A counter of what was asked for goes up with the askings, or down. *)
LEMMA CounterMoves ==
  ASSUME PagesTyped, PagesTyped', asks <= asks',
         NEW S, NEW f \in [S -> 0 .. MaxAsks], \A x \in S : f[x] <= asks,
         NEW x \in S, NEW d, Counts(f[x], d)
  PROVE  /\ [f EXCEPT ![x] = d] \in [S -> 0 .. MaxAsks]
         /\ \A y \in S : [f EXCEPT ![x] = d][y] <= asks'
<1>1. MaxAsks \in Nat /\ asks \in 0 .. MaxAsks /\ asks' \in 0 .. MaxAsks
  BY PagesAssumption DEF PagesTyped
<1>2. f[x] \in 0 .. MaxAsks /\ f[x] <= asks OBVIOUS
<1>3. d \in 0 .. MaxAsks /\ d <= asks' BY <1>1, <1>2 DEF Counts
<1>4. \A y \in S : f[y] <= asks' BY <1>1
<1>. QED BY <1>3, <1>4

(* The explorer keeps its types while other pages ask. *)
LEMMA ExplorerKept ==
  ASSUME AllTyped, PagesTyped', asks <= asks', UNCHANGED explorerVars PROVE ExplorerTyped'
<1>1. MaxAsks \in Nat /\ asks \in 0 .. MaxAsks /\ asks' \in 0 .. MaxAsks
  BY PagesAssumption DEF AllTyped, PagesTyped
<1>2. explorer' = explorer /\ pending' = pending BY DEF explorerVars
<1>3. \A q \in Queries : pending[q] \in 0 .. MaxAsks /\ pending[q] <= asks
  BY DEF AllTyped, ExplorerTyped
<1>4. \A q \in Queries : pending[q] <= asks' BY <1>1, <1>3
<1>. QED BY <1>2, <1>4 DEF AllTyped, ExplorerTyped, ExplorerType

(* So does the page of troubleshooting, when no run begins or ends. *)
LEMMA TroubleKept ==
  ASSUME AllTyped, PagesTyped', asks <= asks', running' = running,
         marks' \in [Collectors -> MarkType], collected' \subseteq Collectors,
         debug' \in DebugType, bundling' \in BOOLEAN
  PROVE  TroubleTyped'
<1>1. MaxAsks \in Nat /\ asks \in 0 .. MaxAsks /\ asks' \in 0 .. MaxAsks
  BY PagesAssumption DEF AllTyped, PagesTyped
<1>3. \A c \in Collectors : running.one[c] \in 0 .. MaxAsks /\ running.one[c] <= asks
  BY DEF AllTyped, TroubleTyped, RunType
<1>4. \A c \in Collectors : running.one[c] <= asks' BY <1>1, <1>3
<1>. QED BY <1>4 DEF AllTyped, TroubleTyped, MarkType, RunType, DebugType

(* A run of one collector, or of all, begins or ends. *)
LEMMA RunsMove ==
  ASSUME AllTyped, PagesTyped', asks <= asks',
         \/ \E c \in Collectors : \E d :
              /\ running' = [running EXCEPT !.one[c] = d]
              /\ Counts(running.one[c], d)
         \/ \E all \in BOOLEAN : running' = [running EXCEPT !.all = all],
         marks' \in [Collectors -> MarkType], collected' \subseteq Collectors,
         UNCHANGED <<debug, bundling>>
  PROVE  TroubleTyped'
<1>1. MaxAsks \in Nat /\ asks \in 0 .. MaxAsks /\ asks' \in 0 .. MaxAsks
  BY PagesAssumption DEF AllTyped, PagesTyped
<1>2. /\ running \in RunType /\ running.one \in [Collectors -> 0 .. MaxAsks]
      /\ \A c \in Collectors : running.one[c] \in 0 .. MaxAsks /\ running.one[c] <= asks
  BY DEF AllTyped, TroubleTyped, RunType
<1>3. running' \in RunType /\ \A c \in Collectors : running'.one[c] <= asks'
  <2>1. ASSUME NEW c \in Collectors, NEW d, running' = [running EXCEPT !.one[c] = d],
               Counts(running.one[c], d)
        PROVE  running' \in RunType /\ \A b \in Collectors : running'.one[b] <= asks'
    <3>. DEFINE one == [running.one EXCEPT ![c] = d]
    <3>1. running' = [running EXCEPT !.one = one] BY <2>1, <1>2, Zenon DEF RunType
    <3>2. one \in [Collectors -> 0 .. MaxAsks] /\ \A b \in Collectors : one[b] <= asks'
      BY <1>2, <2>1, CounterMoves DEF AllTyped
    <3>. HIDE DEF one
    <3>. QED BY <1>2, <3>1, <3>2 DEF RunType
  <2>2. ASSUME NEW all \in BOOLEAN, running' = [running EXCEPT !.all = all]
        PROVE  running' \in RunType /\ \A b \in Collectors : running'.one[b] <= asks'
    <3>1. running' \in RunType /\ running'.one = running.one BY <1>2, <2>2 DEF RunType
    <3>. QED BY <1>1, <1>2, <3>1
  <2>. QED BY <2>1, <2>2
<1>. QED BY <1>3 DEF AllTyped, TroubleTyped, MarkType, RunType, DebugType

(* Every step of the pages keeps their types. *)
LEMMA PagesTypeStep == ASSUME AllTyped, [PagesNext]_pageVars PROVE AllTyped'
<1>1. PagesTyped /\ ExplorerTyped /\ TroubleTyped BY DEF AllTyped
<1>2. /\ marks \in [Collectors -> MarkType] /\ collected \subseteq Collectors
      /\ debug \in DebugType /\ bundling \in BOOLEAN
  BY <1>1 DEF TroubleTyped
<1>3. ASSUME UNCHANGED <<load, explorerVars>>, Ask \/ Answered \/ Failed, TroubleTyped'
      PROVE  AllTyped'
  <2>1. PagesTyped' /\ asks <= asks' BY <1>1, <1>3, AsksOn DEF PagesTyped
  <2>. QED BY <1>3, <2>1, ExplorerKept DEF AllTyped
<1>4. ASSUME Ask \/ Answered \/ Failed, UNCHANGED load PROVE PagesTyped' /\ asks <= asks'
  BY <1>1, <1>4, AsksOn DEF PagesTyped
<1>5. CASE PageFetchArrives \/ PageFetchFails
  <2>1. /\ load' \in {"loading", "shown", "missing"} /\ (Ask \/ Answered \/ Failed)
        /\ UNCHANGED <<explorerVars, troubleVars>>
    BY <1>5 DEF PageFetchArrives, PageFetchFails
  <2>2. PagesTyped' /\ asks <= asks' BY <1>1, <2>1, AsksOn DEF PagesTyped
  <2>3. TroubleTyped' BY <1>2, <2>1, <2>2, TroubleKept DEF troubleVars
  <2>. QED BY <2>1, <2>2, <2>3, ExplorerKept DEF AllTyped
<1>6. ASSUME NEW q \in Queries, HandleQuery(q) \/ QueryAnswered(q) \/ QueryFails(q)
      PROVE  AllTyped'
  <2>1. UNCHANGED <<load, troubleVars>> /\ (Ask \/ Answered \/ Failed) /\ (HandleQuery(q) => Ask)
    BY <1>6 DEF HandleQuery, QueryAnswered, QueryFails, QueryEnds
  <2>2. PagesTyped' /\ asks <= asks' /\ (HandleQuery(q) => asks' = asks + 1)
    BY <1>1, <1>4, <2>1, AsksOn
  <2>3. TroubleTyped' BY <1>2, <2>1, <2>2, TroubleKept DEF troubleVars
  <2>4. /\ pending \in [Queries -> 0 .. MaxAsks] /\ explorer \in ExplorerType
        /\ \A r \in Queries : pending[r] <= asks
    BY <1>1 DEF ExplorerTyped
  <2>5. PICK d : /\ pending' = [pending EXCEPT ![q] = d]
                 /\ Counts(pending[q], d)
    <3>1. CASE HandleQuery(q)
      <4>1. pending' = [pending EXCEPT ![q] = pending[q] + 1] BY <3>1 DEF HandleQuery
      <4>. QED BY <2>2, <3>1, <4>1 DEF Counts
    <3>2. CASE QueryEnds(q)
      <4>1. pending[q] > 0 /\ pending' = [pending EXCEPT ![q] = pending[q] - 1]
        BY <3>2 DEF QueryEnds
      <4>. QED BY <4>1 DEF Counts
    <3>. QED BY <1>6, <3>1, <3>2 DEF QueryAnswered, QueryFails
  <2>6. /\ pending' \in [Queries -> 0 .. MaxAsks] /\ \A r \in Queries : pending'[r] <= asks'
    BY <1>1, <2>2, <2>4, <2>5, CounterMoves
  <2>7. explorer' \in ExplorerType
    BY <1>6, <2>4 DEF HandleQuery, QueryAnswered, QueryFails, ExplorerType, Said
  <2>. QED BY <2>2, <2>3, <2>6, <2>7 DEF AllTyped, ExplorerTyped, ExplorerType
<1>7. ASSUME Trouble, Ask \/ Answered \/ Failed, UNCHANGED <<marks, running, collected>>,
             debug' \in DebugType, bundling' \in BOOLEAN
      PROVE  AllTyped'
  <2>1. UNCHANGED <<load, explorerVars>> BY <1>7 DEF Trouble
  <2>2. PagesTyped' /\ asks <= asks' BY <1>4, <1>7, <2>1
  <2>3. TroubleTyped' BY <1>2, <1>7, <2>2, TroubleKept
  <2>. QED BY <1>3, <1>7, <2>1, <2>3
<1>8. ASSUME NEW q \in Queries, SelectQuery(q) PROVE AllTyped'
  <2>1. debug' \in DebugType BY <1>2, <1>8 DEF SelectQuery, DebugType
  <2>. QED BY <1>2, <1>7, <1>8, <2>1 DEF SelectQuery
<1>9. CASE RunQuery \/ RunQueryEnds
  <2>1. debug' \in DebugType BY <1>2, <1>9 DEF RunQuery, RunQueryEnds, DebugType, Said
  <2>. QED BY <1>2, <1>7, <1>9, <2>1 DEF RunQuery, RunQueryEnds
<1>10. CASE DownloadBundle \/ BundleEnds
  BY <1>2, <1>7, <1>10 DEF DownloadBundle, BundleEnds
<1>11. ASSUME Trouble, Ask \/ Answered \/ Failed, UNCHANGED <<debug, bundling>>,
              \/ \E c \in Collectors : \E d :
                   /\ running' = [running EXCEPT !.one[c] = d]
                   /\ Counts(running.one[c], d)
              \/ \E all \in BOOLEAN : running' = [running EXCEPT !.all = all],
              marks' \in [Collectors -> MarkType], collected' \subseteq Collectors
       PROVE  AllTyped'
  <2>1. UNCHANGED <<load, explorerVars>> BY <1>11 DEF Trouble
  <2>2. PagesTyped' /\ asks <= asks' BY <1>4, <1>11, <2>1
  <2>3. TroubleTyped' BY <1>11, <2>2, RunsMove
  <2>. QED BY <1>3, <1>11, <2>1, <2>3
<1>12. ASSUME NEW c \in Collectors, RunOne(c) PROVE AllTyped'
  <2>1. asks' = asks + 1 BY <1>12 DEF RunOne, Ask
  <2>2. running' = [running EXCEPT !.one[c] = running.one[c] + 1] BY <1>12 DEF RunOne
  <2>3. Counts(running.one[c], running.one[c] + 1) BY <2>1 DEF Counts
  <2>. QED BY <1>2, <1>11, <1>12, <2>2, <2>3 DEF RunOne
<1>13. ASSUME NEW c \in Collectors, OneLost(c) PROVE AllTyped'
  <2>1. Counts(running.one[c], running.one[c] - 1) /\ running' = [running EXCEPT !.one[c] = running.one[c] - 1]
    BY <1>13 DEF OneLost, Counts
  <2>. QED BY <1>2, <1>11, <1>13, <2>1 DEF OneLost
<1>14. ASSUME NEW c \in Collectors, NEW success \in BOOLEAN, OneEnds(c, success) PROVE AllTyped'
  <2>1. Counts(running.one[c], running.one[c] - 1) /\ running' = [running EXCEPT !.one[c] = running.one[c] - 1]
    BY <1>14 DEF OneEnds, Counts
  <2>2. marks' \in [Collectors -> MarkType] BY <1>2, <1>14 DEF OneEnds, MarkType
  <2>3. collected' \subseteq Collectors BY <1>2, <1>14 DEF OneEnds
  <2>. QED BY <1>11, <1>14, <2>1, <2>2, <2>3 DEF OneEnds
<1>15. CASE RunAll \/ AllFails
  <2>1. collected' \subseteq Collectors /\ marks' = marks BY <1>2, <1>15 DEF RunAll, AllFails
  <2>. QED BY <1>2, <1>11, <1>15, <2>1 DEF RunAll, AllFails
<1>16. ASSUME NEW worked \in SUBSET Collectors, AllEnds(worked) PROVE AllTyped'
  <2>1. collected' \subseteq Collectors BY <1>2, <1>16 DEF AllEnds
  <2>2. marks' \in [Collectors -> MarkType] BY <1>16 DEF AllEnds, MarkType
  <2>. QED BY <1>11, <1>16, <2>1, <2>2 DEF AllEnds
<1>17. CASE UNCHANGED pageVars
  BY <1>1, <1>17 DEF pageVars, explorerVars, troubleVars, AllTyped, PagesTyped, ExplorerTyped,
                     TroubleTyped, MarkType, RunType, DebugType, ExplorerType
<1>. QED BY <1>5, <1>6, <1>8, <1>9, <1>10, <1>12, <1>13, <1>14, <1>15, <1>16, <1>17 DEF PagesNext

(* The pages keep their types. *)
LEMMA PagesTypes == PagesSpec => []PagesTypeOK
<1>1. PagesInit => AllTyped
  <2>. SUFFICES ASSUME PagesInit PROVE AllTyped OBVIOUS
  <2>1. MaxAsks \in Nat /\ MaxErrors \in Nat BY PagesAssumption
  <2>2. PagesTyped BY <2>1 DEF PagesInit, PagesTyped
  <2>3. ExplorerTyped BY <2>1 DEF PagesInit, ExplorerTyped, ExplorerType, Said
  <2>4. (CHOOSE q \in Queries : TRUE) \in Queries BY PagesAssumption
  <2>5. TroubleTyped
    <3>1. marks \in [Collectors -> MarkType] BY DEF PagesInit, MarkType
    <3>2. running \in RunType /\ \A c \in Collectors : running.one[c] <= asks
      BY <2>1 DEF PagesInit, RunType
    <3>3. debug \in DebugType BY <2>4 DEF PagesInit, DebugType, Said
    <3>. QED BY <3>1, <3>2, <3>3 DEF PagesInit, TroubleTyped
  <2>. QED BY <2>2, <2>3, <2>5 DEF AllTyped
<1>2. AllTyped => PagesTypeOK
  BY DEF AllTyped, PagesTyped, ExplorerTyped, TroubleTyped, MarkType, RunType, DebugType,
         ExplorerType, Said, PagesTypeOK
<1>. QED BY <1>1, <1>2, PagesTypeStep, PTL DEF PagesSpec

-----------------------------------------------------------------------------
(* The composition. *)

(* A step of the whole is a step of each part or leaves it alone. *)
LEMMA WebSteps ==
  ASSUME [WebNext]_webVars
  PROVE  /\ [FlowNext]_flowVars /\ [LabelsNext]_labelVars /\ [Moves]_zoomVars
         /\ [PagesNext]_pageVars /\ [AlertsArrive]_alertVars
         /\ [EnergyArrives]_energyVars /\ [Collect]_tariffVars /\ [DevicesAnswer]_deviceVars
         /\ [Draw]_chartVars
  BY DEF WebNext, webVars, dataViews

(* What is in view does what its own specification says, and what is not is  *)
(* left alone, so each part of the whole is as its specification says.       *)
THEOREM PartsRun ==
  WebSpec => /\ FlowSpec /\ LabelsSpec /\ ZoomSpec /\ PagesSpec
             /\ AlertsSpec /\ EnergySpec /\ TariffSpec /\ DevicesSpec /\ ChartSpec
<1>1. WebInit => /\ FlowInit /\ LabelsInit /\ ZoomInit /\ PagesInit
                 /\ AlertsInit /\ EnergyInit /\ TariffInit /\ DevicesInit /\ ChartInit
  BY DEF WebInit
<1>. QED
  BY <1>1, WebSteps, PTL DEF WebSpec, FlowSpec, LabelsSpec, ZoomSpec, PagesSpec, AlertsSpec,
                             EnergySpec, TariffSpec, DevicesSpec, ChartSpec

(* Whatever is in view, no particle crosses the bridge back, the axis of a   *)
(* chart shows what its data was asked for, pages say what the server has    *)
(* answered, charts and the bars of alerts show what was read, the charts of *)
(* energy agree, the rate that is stored is the one that is drawn, devices   *)
(* keep their numbers, and the labels are a register.                        *)
THEOREM PartsKeep ==
  WebSpec => /\ []OneWayAcross /\ []AxisMatchesQuery /\ []PagesShowAnswers
             /\ []ChartsShowReadings /\ []BarsShowAlerts /\ []EnergyAgrees /\ []RateOnSchedule
             /\ DevicesKeepNumbers /\ LabelsAreRegister
<1>1. CleanPageShowsLoaded /\ ExplorerInStep /\ MarkedMeansCollected <=> PagesShowAnswers
  BY DEF PagesShowAnswers
<1>2. WebSpec => /\ []OneWayAcross /\ []AxisMatchesQuery /\ []PagesShowAnswers /\ LabelsAreRegister
  BY <1>1, PartsRun, NeverBackAcross, AxisInStep, CleanPagesLoaded, PagesHonest,
     RegisterImplemented, PTL
<1>3. WebSpec => /\ []ChartsShowReadings /\ []BarsShowAlerts /\ []EnergyAgrees
                 /\ []RateOnSchedule /\ DevicesKeepNumbers
  BY PartsRun, ReadingsAreShown, AlertsAreShown, FiguresOfTheGridAgree, TheRateIsTheSchedules,
     NumbersKept, PTL
<1>. QED BY <1>2, <1>3

(* Every part of the web interface keeps its types, the bounds of what is    *)
(* under way among them: a chart never has more queries on their way than    *)
(* its bound, and a chart that is not shown has been given no timeframe      *)
(* (WebTypeOK).                                                              *)
THEOREM TypesKept == WebSpec => []WebTypeOK
<1>1. WebInit => view \in Views /\ ConfigTypeOK /\ Board!Init
  BY ConfigStarts DEF WebInit
<1>2. view \in Views /\ [WebNext]_webVars => (view \in Views)'
  BY DEF WebNext, webVars
<1>3. [WebNext]_webVars => [ConfigNext]_configVars
  BY DEF WebNext, webVars, dataViews
<1>4. WebSpec => [](view \in Views /\ ConfigTypeOK)
  BY <1>1, <1>2, <1>3, ConfigSteps, PTL DEF WebSpec
<1>5. WebSpec => []Board!TypeOK BY <1>1, BoardSteps, BoardTypes, PTL DEF WebSpec
<1>6. view \in Views /\ ConfigTypeOK /\ Board!TypeOK /\ FlowTypeOK /\ LabelsTypeOK /\ ZoomTypeOK
        /\ PagesTypeOK => WebTypeOK
  BY DEF WebTypeOK
<1>. QED
  BY <1>4, <1>5, <1>6, PartsRun, FlowTypes, LabelsTypes, ZoomTypes, PagesTypes, PTL
=============================================================================
