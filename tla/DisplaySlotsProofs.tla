-------------------------- MODULE DisplaySlotsProofs --------------------------
(***************************************************************************)
(* Theorems about DisplaySlots, for every number of slots, of buffers the  *)
(* application holds and of layers made, and every behaviour of the        *)
(* environment.                                                            *)
(***************************************************************************)
EXTENDS DisplaySlots, SequenceTheorems, FiniteSetTheorems, TLAPS

-----------------------------------------------------------------------------
(* Lists of slots: what taking the first and adding a last one does to the *)
(* set of slots in the list                                                *)

LEMMA TailOfSlots ==
  ASSUME NEW S, NEW s \in Seq(S), s # << >>
  PROVE  /\ Head(s) \in S /\ Tail(s) \in Seq(S)
         /\ IsInjective(s) => /\ IsInjective(Tail(s))
                              /\ Head(s) \in Range(s)
                              /\ Range(Tail(s)) = Range(s) \ {Head(s)}
<1>1. Head(s) \in S /\ Tail(s) \in Seq(S)
  BY HeadTailProperties
<1>2. /\ Len(s) \in Nat /\ Len(s) > 0 /\ DOMAIN s = 1 .. Len(s) /\ Head(s) = s[1]
      /\ DOMAIN Tail(s) = 1 .. Len(s) - 1
      /\ \A i \in 1 .. Len(s) - 1 : Tail(s)[i] = s[i + 1]
  BY HeadTailProperties, LenProperties, EmptySeq
<1>3. ASSUME IsInjective(s)
      PROVE  IsInjective(Tail(s)) /\ Head(s) \in Range(s) /\ Range(Tail(s)) = Range(s) \ {Head(s)}
  <2>1. \A i, j \in 1 .. Len(s) : s[i] = s[j] => i = j
    BY <1>2, <1>3 DEF IsInjective
  <2>2. IsInjective(Tail(s))
    BY <1>2, <2>1 DEF IsInjective
  <2>3. Head(s) \in Range(s)
    BY <1>2 DEF Range
  <2>4. Range(Tail(s)) \subseteq Range(s) \ {Head(s)}
    BY <1>2, <2>1 DEF Range
  <2>5. ASSUME NEW x \in Range(s) \ {Head(s)} PROVE x \in Range(Tail(s))
    <3>1. PICK i \in 1 .. Len(s) : x = s[i]
      BY <1>2 DEF Range
    <3>2. i - 1 \in 1 .. Len(s) - 1 /\ Tail(s)[i - 1] = x
      BY <1>2, <3>1
    <3>3. QED BY <1>2, <3>2 DEF Range
  <2>6. QED BY <2>2, <2>3, <2>4, <2>5
<1>4. QED BY <1>1, <1>3

LEMMA AppendOfSlots ==
  ASSUME NEW S, NEW s \in Seq(S), NEW x \in S
  PROVE  /\ Append(s, x) \in Seq(S)
         /\ Range(Append(s, x)) = Range(s) \union {x}
         /\ IsInjective(s) /\ x \notin Range(s) => IsInjective(Append(s, x))
<1>1. /\ Append(s, x) \in Seq(S) /\ Len(s) \in Nat /\ DOMAIN s = 1 .. Len(s)
      /\ DOMAIN Append(s, x) = 1 .. Len(s) + 1
      /\ \A i \in 1 .. Len(s) : Append(s, x)[i] = s[i]
      /\ Append(s, x)[Len(s) + 1] = x
  BY AppendProperties, LenProperties
<1>2. \A i \in 1 .. Len(s) + 1 : i \in 1 .. Len(s) \/ i = Len(s) + 1
  BY <1>1
<1>3. Range(Append(s, x)) \subseteq Range(s) \union {x}
  BY <1>1, <1>2 DEF Range
<1>4. Range(s) \union {x} \subseteq Range(Append(s, x))
  <2>1. Len(s) + 1 \in DOMAIN Append(s, x) /\ \A i \in 1 .. Len(s) : i \in DOMAIN Append(s, x)
    BY <1>1
  <2>2. QED BY <1>1, <2>1 DEF Range
<1>5. ASSUME IsInjective(s), x \notin Range(s) PROVE IsInjective(Append(s, x))
  <2>1. \A i \in 1 .. Len(s) : s[i] # x
    BY <1>1, <1>5 DEF Range
  <2>2. QED BY <1>1, <1>2, <1>5, <2>1 DEF IsInjective
<1>6. QED BY <1>1, <1>3, <1>4, <1>5

LEMMA ConcatOfSlots ==
  ASSUME NEW S, NEW s \in Seq(S), NEW t \in Seq(S), IsInjective(s), IsInjective(t),
         Range(s) \intersect Range(t) = {}
  PROVE  s \o t \in Seq(S) /\ IsInjective(s \o t) /\ Range(s \o t) = Range(s) \union Range(t)
<1>1. /\ s \o t \in Seq(S) /\ Len(s) \in Nat /\ Len(t) \in Nat
      /\ DOMAIN s = 1 .. Len(s) /\ DOMAIN t = 1 .. Len(t)
      /\ DOMAIN (s \o t) = 1 .. Len(s) + Len(t)
      /\ \A i \in 1 .. Len(s) + Len(t) :
           (s \o t)[i] = IF i <= Len(s) THEN s[i] ELSE t[i - Len(s)]
  BY ConcatProperties, LenProperties
<1>2. \A i \in 1 .. Len(s) + Len(t) :
        \/ i \in 1 .. Len(s) /\ (s \o t)[i] = s[i] /\ s[i] \in Range(s)
        \/ i - Len(s) \in 1 .. Len(t) /\ (s \o t)[i] = t[i - Len(s)] /\ t[i - Len(s)] \in Range(t)
  BY <1>1 DEF Range
<1>3. IsInjective(s \o t)
  <2>1. SUFFICES ASSUME NEW i \in 1 .. Len(s) + Len(t), NEW j \in 1 .. Len(s) + Len(t),
                        (s \o t)[i] = (s \o t)[j]
                 PROVE  i = j
    BY <1>1 DEF IsInjective
  <2>2. CASE i \in 1 .. Len(s) /\ j \in 1 .. Len(s)
    BY <1>1, <2>1, <2>2 DEF IsInjective
  <2>3. CASE i - Len(s) \in 1 .. Len(t) /\ j - Len(s) \in 1 .. Len(t)
    <3>1. t[i - Len(s)] = t[j - Len(s)]
      BY <1>1, <2>1, <2>3
    <3>2. i - Len(s) = j - Len(s)
      BY <1>1, <2>3, <3>1 DEF IsInjective
    <3>3. QED BY <1>1, <3>2
  <2>4. QED BY <1>2, <2>1, <2>2, <2>3
<1>4. Range(s \o t) \subseteq Range(s) \union Range(t)
  BY <1>1, <1>2 DEF Range
<1>5. Range(s) \subseteq Range(s \o t)
  <2>1. \A i \in 1 .. Len(s) : i \in 1 .. Len(s) + Len(t) /\ (s \o t)[i] = s[i]
    BY <1>1
  <2>2. QED BY <1>1, <2>1 DEF Range
<1>6. Range(t) \subseteq Range(s \o t)
  <2>1. \A i \in DOMAIN t : \E k \in DOMAIN (s \o t) : (s \o t)[k] = t[i]
    <3>1. \A i \in 1 .. Len(t) :
            i + Len(s) \in 1 .. Len(s) + Len(t) /\ (s \o t)[i + Len(s)] = t[i]
      BY <1>1
    <3>2. QED BY <1>1, <3>1
  <2>2. QED BY <2>1 DEF Range
<1>7. QED BY <1>1, <1>3, <1>4, <1>5, <1>6

-----------------------------------------------------------------------------
(* Type correctness.  TypeOK alone is not inductive: the slot to append is *)
(* one only while presentLayer() is at work.                               *)

DataInv == DataOK /\ (cpc = "present" => cslot \in Slot)
TypeInv == FlagsOK /\ DataInv

LEMMA InitTypeInv == Init => TypeInv
<1> SUFFICES ASSUME Init PROVE TypeInv
  OBVIOUS
<1>1. FlagsOK BY DEF Init, FlagsOK
<1>2. DataInv BY CountsAssumption DEF Init, DataOK, DataInv
<1>3. QED BY <1>1, <1>2 DEF TypeInv

\* The flags keep their type: a leaf about Booleans is for Zenon.
LEMMA NextFlags == FlagsOK /\ [Next]_vars => FlagsOK'
<1> SUFFICES ASSUME FlagsOK, [Next]_vars PROVE FlagsOK'
  OBVIOUS
<1> USE DEF FlagsOK, layer, drawn, slots, app, call, sf, vsync
<1>1. CASE getLayer
  BY <1>1, ZenonT(30) DEF getLayer
<1>2. CASE removeHwLayer
  BY <1>2, ZenonT(30) DEF removeHwLayer
<1>3. CASE getFreeSlot
  BY <1>3, ZenonT(30) DEF getFreeSlot, TakeSlot
<1>4. CASE \E slot \in Slot : presentRefused(slot)
  BY <1>4, ZenonT(30) DEF presentRefused
<1>5. CASE \E slot \in Slot : addHwLayer(slot)
  BY <1>5, ZenonT(30) DEF addHwLayer
<1>6. CASE deleteLayer
  BY <1>6, ZenonT(30) DEF deleteLayer, Refresh
<1>7. CASE WakeUp
  BY <1>7, ZenonT(30) DEF WakeUp, TakeSlot
<1>8. CASE addPresentSlot
  BY <1>8, ZenonT(30) DEF addPresentSlot
<1>9. CASE triggerComposition
  BY <1>9, ZenonT(30) DEF triggerComposition, Refresh, directCompositionLocked
<1>10. CASE presentComposes
  BY <1>10, ZenonT(30) DEF presentComposes, composeLayersLocked, getPresentSlot
<1>11. CASE SpuriousWakeup
  BY <1>11, ZenonT(30) DEF SpuriousWakeup
<1>12. CASE SurfaceFlinger
  BY <1>12, ZenonT(30) DEF SurfaceFlinger
<1>13. CASE verifyLayers
  BY <1>13, ZenonT(30) DEF verifyLayers
<1>14. CASE composeLayers
  BY <1>14, ZenonT(30) DEF composeLayers, composeLayersLocked, getPresentSlot
<1>15. CASE readHwLayer
  BY <1>15, ZenonT(30) DEF readHwLayer
<1>16. CASE triggerRefresh
  BY <1>16, ZenonT(30) DEF triggerRefresh, Refresh
<1>17. CASE useFreed
  BY <1>17, ZenonT(30) DEF useFreed, Refresh
<1>18. CASE UNCHANGED vars
  BY <1>18, ZenonT(30) DEF vars
<1>19. QED BY <1>1, <1>2, <1>3, <1>4, <1>5, <1>6, <1>7, <1>8, <1>9, <1>10, <1>11, <1>12, <1>13, <1>14, <1>15, <1>16, <1>17, <1>18 DEF Next, HalCalls, Continue, Present, Vsync

\* What a composition writes.
LEMMA ComposeKeepsData ==
  ASSUME DataOK, composeLayersLocked
  PROVE  /\ UNCHANGED <<layer, mHwLayer, mPresentTotal, app, cslot, hides, vsync, crashed>>
         /\ mLayerVector' \subseteq LayerId \union {SF}
         /\ mFreeSlot' \in Seq(Slot) /\ mPresentSlot' \in Seq(Slot)
         /\ mLastPresent' \in Slot \union {-1}
<1>0. UNCHANGED <<layer, mHwLayer, mPresentTotal, app, cslot, hides, vsync, crashed>>
  BY DEF composeLayersLocked
<1>1. mLayerVector' \subseteq LayerId \union {SF}
  BY NullAssumption DEF DataOK, composeLayersLocked
<1>2. CASE mPresentSlot # << >> /\ getPresentSlot
  <2>1. Head(mPresentSlot) \in Slot /\ Tail(mPresentSlot) \in Seq(Slot)
    BY <1>2, TailOfSlots DEF DataOK
  <2>2. mLastPresent # -1 => Append(mFreeSlot, mLastPresent) \in Seq(Slot)
    BY AppendOfSlots DEF DataOK
  <2>3. QED BY <1>0, <1>1, <1>2, <2>1, <2>2 DEF DataOK, getPresentSlot, FreedSlot
<1>3. CASE UNCHANGED <<mFreeSlot, mPresentSlot, mLastPresent, signalled>>
  BY <1>0, <1>1, <1>3 DEF DataOK
<1>4. QED BY <1>2, <1>3 DEF composeLayersLocked

LEMMA NextData == DataInv /\ [Next]_vars => DataInv'
<1> SUFFICES ASSUME DataInv, [Next]_vars PROVE DataInv'
  OBVIOUS
<1> USE CountsAssumption DEF DataInv, DataOK, layer, drawn, slots, app, call, sf, vsync
<1>1. CASE getLayer
  <2>1. [i \in 1 .. DISPLAY_BUFFER_NUM |-> i - 1] \in Seq(Slot)
    BY IsASeq DEF Slot
  <2>2. << >> \in Seq(Slot)
    BY EmptySeq
  <2>3. opens + 1 \in LayerId /\ opens + 1 \in 0 .. MAX_OPENS
    BY <1>1 DEF getLayer, LayerId
  <2>4. QED BY <1>1, <2>1, <2>2, <2>3 DEF getLayer
<1>2. CASE removeHwLayer
  BY <1>2 DEF removeHwLayer
<1>3. CASE getFreeSlot
  <2>1. CASE TakeSlot /\ UNCHANGED <<signalled, crashed>>
    <3>1. Head(mFreeSlot) \in Slot /\ Tail(mFreeSlot) \in Seq(Slot)
      BY <2>1, TailOfSlots DEF TakeSlot
    <3>2. QED BY <2>1, <3>1 DEF TakeSlot
  <2>2. CASE mFreeSlot = << >>
    BY <1>3, <2>2 DEF getFreeSlot, TakeSlot
  <2>3. QED BY <1>3, <2>1, <2>2 DEF getFreeSlot
<1>4. CASE \E slot \in Slot : presentRefused(slot)
  BY <1>4 DEF presentRefused
<1>5. CASE \E slot \in Slot : addHwLayer(slot)
  BY <1>5 DEF addHwLayer
<1>6. CASE deleteLayer
  BY <1>6 DEF deleteLayer, Refresh
<1>7. CASE WakeUp
  <2>1. Head(mFreeSlot) \in Slot /\ Tail(mFreeSlot) \in Seq(Slot)
    BY <1>7, TailOfSlots DEF WakeUp, TakeSlot
  <2>2. QED BY <1>7, <2>1 DEF WakeUp, TakeSlot
<1>8. CASE addPresentSlot
  <2>1. cslot \in Slot /\ Append(mPresentSlot, cslot) \in Seq(Slot)
    BY <1>8, AppendOfSlots DEF addPresentSlot
  <2>2. QED BY <1>8, <2>1 DEF addPresentSlot
<1>9. CASE triggerComposition
  BY <1>9 DEF triggerComposition, Refresh, directCompositionLocked
<1>10. CASE presentComposes
  <2>1. composeLayersLocked /\ UNCHANGED spc
    BY <1>10 DEF presentComposes
  <2>2. QED BY <1>10, <2>1, ComposeKeepsData DEF presentComposes
<1>11. CASE SpuriousWakeup
  BY <1>11 DEF SpuriousWakeup
<1>12. CASE SurfaceFlinger
  BY <1>12 DEF SurfaceFlinger
<1>13. CASE verifyLayers
  BY <1>13 DEF verifyLayers
<1>14. CASE composeLayers
  <2>1. composeLayersLocked /\ UNCHANGED cpc
    BY <1>14 DEF composeLayers
  <2>2. QED BY <1>14, <2>1, ComposeKeepsData DEF composeLayers
<1>15. CASE readHwLayer
  BY <1>15 DEF readHwLayer
<1>16. CASE triggerRefresh
  BY <1>16 DEF triggerRefresh, Refresh
<1>17. CASE useFreed
  BY <1>17 DEF useFreed, Refresh
<1>18. CASE UNCHANGED vars
  BY <1>18 DEF vars
<1>19. QED BY <1>1, <1>2, <1>3, <1>4, <1>5, <1>6, <1>7, <1>8, <1>9, <1>10, <1>11, <1>12, <1>13, <1>14, <1>15, <1>16, <1>17, <1>18 DEF Next, HalCalls, Continue, Present, Vsync

\* The layer, the flags, the two lists and what each thread remembers keep their
\* types; what presentLayer() is to append is a slot of the layer.
THEOREM TypeCorrect == Spec => []TypeOK
<1>1. TypeInv /\ [Next]_vars => TypeInv'
  BY NextFlags, NextData DEF TypeInv
<1>2. TypeInv => TypeOK
  BY DEF TypeInv, DataInv, TypeOK
<1>3. QED BY InitTypeInv, <1>1, <1>2, PTL DEF Spec

-----------------------------------------------------------------------------
(* Every slot is in one place.  SlotsInOnePlace speaks of an open layer    *)
(* and of one list; the induction needs the lists apart, and that they are *)
(* disjoint even while the layer is being deleted.                         *)

Shown == {mLastPresent, cslot} \ {-1}
Held == taken \union lost
Listed == Range(mFreeSlot) \union Range(mPresentSlot) \union Shown

SlotsApart ==
  /\ IsInjective(mFreeSlot) /\ IsInjective(mPresentSlot)
  /\ Range(mFreeSlot) \intersect Range(mPresentSlot) = {}
  /\ Shown \intersect (Range(mFreeSlot) \union Range(mPresentSlot)) = {}
  /\ mLastPresent = cslot => cslot = -1
  /\ Listed \intersect Held = {}
  /\ taken \intersect lost = {}

SlotsComplete == mLayers # NULL /\ cpc # "delete" => Listed \union Held = Slot

SlotsClosed ==
  /\ cpc # "present" => cslot = -1
  /\ cpc # "idle" => mLayers # NULL
  /\ mLayers = NULL \/ cpc = "delete" => Held = {} /\ mHwLayer = NULL

DrawnApart == mHwLayer \in {NULL, mLayers} /\ mLayerVector \subseteq {SF, mHwLayer}

SlotsInv == TypeInv /\ SlotsApart /\ SlotsComplete /\ SlotsClosed /\ DrawnApart

LEMMA EmptyList == IsInjective(<< >>) /\ Range(<< >>) = {}
BY DEF IsInjective, Range

\* The slots of a new layer.
LEMMA NewList ==
  ASSUME NEW s, s = [i \in 1 .. DISPLAY_BUFFER_NUM |-> i - 1]
  PROVE  IsInjective(s) /\ Range(s) = Slot
<1>1. DISPLAY_BUFFER_NUM \in Nat /\ DOMAIN s = 1 .. DISPLAY_BUFFER_NUM
  BY CountsAssumption
<1>2. \A i \in 1 .. DISPLAY_BUFFER_NUM : s[i] = i - 1
  OBVIOUS
<1>3. IsInjective(s)
  BY <1>1, <1>2 DEF IsInjective
<1>4. Range(s) \subseteq Slot
  BY <1>1, <1>2 DEF Range, Slot
<1>5. ASSUME NEW x \in Slot PROVE x \in Range(s)
  <2>1. x + 1 \in 1 .. DISPLAY_BUFFER_NUM /\ s[x + 1] = x
    BY <1>1, <1>2 DEF Slot
  <2>2. QED BY <1>1, <2>1 DEF Range
<1>6. QED BY <1>3, <1>4, <1>5

LEMMA InitSlots == Init => SlotsInv
<1> SUFFICES ASSUME Init PROVE SlotsInv
  OBVIOUS
<1>1. TypeInv BY InitTypeInv
<1>2. SlotsApart /\ SlotsComplete /\ SlotsClosed /\ DrawnApart
  BY EmptyList DEF Init, SlotsApart, SlotsComplete, SlotsClosed, DrawnApart, Listed, Shown, Held
<1>3. QED BY <1>1, <1>2 DEF SlotsInv

\* A composition moves slots between the lists, and loses none.
LEMMA ComposeKeepsSlots ==
  ASSUME SlotsInv, composeLayersLocked
  PROVE  SlotsApart' /\ Listed' = Listed /\ DrawnApart'
<1> USE DEF SlotsInv, TypeInv, DataInv, DataOK
<1>1. UNCHANGED <<mLayers, mHwLayer, taken, lost, cslot>>
  BY DEF composeLayersLocked, layer, app
<1>2. DrawnApart'
  BY <1>1 DEF DrawnApart, composeLayersLocked
<1>3. CASE mPresentSlot # << >> /\ getPresentSlot
  <2> DEFINE first == Head(mPresentSlot)
  <2>1. /\ first \in Slot /\ IsInjective(mPresentSlot') /\ first \in Range(mPresentSlot)
        /\ Range(mPresentSlot') = Range(mPresentSlot) \ {first}
        /\ mLastPresent' = first
    BY <1>3, TailOfSlots DEF getPresentSlot, SlotsApart
  <2>2. first # -1
    BY <2>1, CountsAssumption DEF Slot
  <2>3. CASE mLastPresent = -1
    <3>1. mFreeSlot' = mFreeSlot
      BY <1>3, <2>3 DEF getPresentSlot
    <3>2. QED BY <1>1, <1>2, <2>1, <2>2, <2>3, <3>1 DEF SlotsApart, Listed, Shown, Held
  <2>4. CASE mLastPresent # -1
    <3>1. mLastPresent \in Slot /\ mFreeSlot' = Append(mFreeSlot, mLastPresent)
      BY <1>3, <2>4 DEF getPresentSlot, FreedSlot
    <3>2. mLastPresent \notin Range(mFreeSlot) \union Range(mPresentSlot)
      BY <2>4 DEF SlotsApart, Shown
    <3>3. IsInjective(mFreeSlot') /\ Range(mFreeSlot') = Range(mFreeSlot) \union {mLastPresent}
      BY <3>1, <3>2, AppendOfSlots DEF SlotsApart
    <3>4. QED BY <1>1, <1>2, <2>1, <2>2, <2>4, <3>2, <3>3 DEF SlotsApart, Listed, Shown, Held
  <2>5. QED BY <2>3, <2>4
<1>4. CASE UNCHANGED <<mFreeSlot, mPresentSlot, mLastPresent, signalled>>
  BY <1>1, <1>2, <1>4 DEF SlotsApart, Listed, Shown, Held
<1>5. QED BY <1>3, <1>4 DEF composeLayersLocked

\* The first free slot becomes the application's.
LEMMA TakeKeepsSlots ==
  ASSUME SlotsInv, TakeSlot, cpc \in {"idle", "waiting"}, mLayers # NULL
  PROVE  SlotsApart' /\ SlotsComplete' /\ SlotsClosed' /\ DrawnApart'
<1> USE DEF SlotsInv, TypeInv, DataInv, DataOK
<1> DEFINE first == Head(mFreeSlot)
<1>1. /\ first \in Range(mFreeSlot) /\ IsInjective(mFreeSlot')
      /\ Range(mFreeSlot') = Range(mFreeSlot) \ {first}
      /\ taken' = taken \union {first}
  BY TailOfSlots DEF TakeSlot, SlotsApart
<1>2. /\ UNCHANGED <<mLayers, mHwLayer, mLayerVector, mPresentSlot, mLastPresent, lost, cslot>>
      /\ cpc' = "idle"
  BY DEF TakeSlot, layer, drawn
<1>3. SlotsApart' /\ Listed' \union Held' = Listed \union Held
  BY <1>1, <1>2 DEF SlotsApart, Listed, Shown, Held
<1>4. SlotsComplete' /\ SlotsClosed' /\ DrawnApart'
  BY <1>2, <1>3 DEF SlotsComplete, SlotsClosed, DrawnApart
<1>5. QED BY <1>3, <1>4

LEMMA NextSlots == SlotsInv /\ [Next]_vars => SlotsInv'
<1> SUFFICES ASSUME SlotsInv, [Next]_vars PROVE SlotsInv'
  OBVIOUS
<1> DEFINE Goal == SlotsApart' /\ SlotsComplete' /\ SlotsClosed' /\ DrawnApart'
<1>a. TypeInv'
  BY NextFlags, NextData DEF SlotsInv, TypeInv
<1> USE DEF SlotsInv, TypeInv, DataInv, DataOK, layer, drawn, slots, app, call, sf, vsync
<1>1. ASSUME getLayer PROVE Goal
  <2>1. /\ IsInjective(mFreeSlot') /\ Range(mFreeSlot') = Slot
        /\ IsInjective(mPresentSlot') /\ Range(mPresentSlot') = {}
        /\ mLastPresent' = -1
    BY <1>1, NewList, EmptyList DEF getLayer
  <2>2. /\ UNCHANGED <<mHwLayer, mLayerVector, taken, lost, cpc, cslot>>
        /\ cpc = "idle" /\ mLayers = NULL /\ mLayers' \in LayerId
    BY <1>1, <1>a DEF getLayer, LayerId
  <2>3. Held = {} /\ mHwLayer = NULL /\ cslot = -1
    BY <2>2 DEF SlotsClosed
  <2>4. QED BY <2>1, <2>2, <2>3, NullAssumption DEF SlotsApart, SlotsComplete, SlotsClosed, DrawnApart,
                                                    Listed, Shown, Held
<1>2. ASSUME removeHwLayer PROVE Goal
  <2>1. UNCHANGED <<mLayers, mFreeSlot, mPresentSlot, mLastPresent, cslot>> /\ cpc' = "delete" /\ cpc = "idle"
    BY <1>2 DEF removeHwLayer
  <2>2. Held' = {} /\ mHwLayer' = NULL /\ mLayers' # NULL /\ mLayerVector' \subseteq {SF, NULL}
    BY <1>2 DEF removeHwLayer, Held, DrawnApart
  <2>3. QED BY <2>1, <2>2 DEF SlotsApart, SlotsComplete, SlotsClosed, DrawnApart, Listed, Shown, Held
<1>3. ASSUME getFreeSlot PROVE Goal
  <2>1. CASE TakeSlot
    BY <1>3, <2>1, TakeKeepsSlots DEF getFreeSlot
  <2>2. CASE ~TakeSlot
    <3>1. /\ UNCHANGED <<mLayers, mHwLayer, mLayerVector, mFreeSlot, mPresentSlot, mLastPresent, taken, lost, cslot>>
          /\ cpc = "idle" /\ cpc' = "waiting" /\ mLayers # NULL
      BY <1>3, <2>2 DEF getFreeSlot
    <3>2. QED BY <3>1 DEF SlotsApart, SlotsComplete, SlotsClosed, DrawnApart, Listed, Shown, Held
  <2>3. QED BY <2>1, <2>2
<1>4. ASSUME \E slot \in Slot : presentRefused(slot) PROVE Goal
  BY <1>4 DEF presentRefused, SlotsApart, SlotsComplete, SlotsClosed, DrawnApart, Listed, Shown, Held
<1>5. ASSUME \E slot \in Slot : addHwLayer(slot) PROVE Goal
  <2>1. PICK slot \in Slot : addHwLayer(slot)
    BY <1>5
  <2>2. /\ UNCHANGED <<mLayers, mLayerVector, mFreeSlot, mPresentSlot, mLastPresent, lost>>
        /\ cpc' = "present" /\ cslot' = slot /\ taken' = taken \ {slot} /\ slot \in taken
        /\ cpc = "idle" /\ cslot = -1 /\ mLayers # NULL
        /\ mHwLayer' \in {mHwLayer, mLayers}
    BY <2>1 DEF addHwLayer, SlotsClosed
  <2>3. slot # -1
    BY CountsAssumption DEF Slot
  <2>4. SlotsApart' /\ Listed' \union Held' = Listed \union Held
    BY <2>2, <2>3 DEF SlotsApart, Listed, Shown, Held
  <2>5. DrawnApart'
    <3>1. mHwLayer = NULL => mLayerVector \subseteq {SF}
      BY NullAssumption DEF DrawnApart
    <3>2. QED BY <2>2, <3>1 DEF DrawnApart
  <2>6. QED BY <2>2, <2>4, <2>5, <1>a DEF SlotsComplete, SlotsClosed
<1>6. ASSUME deleteLayer PROVE Goal
  <2>1. /\ IsInjective(mFreeSlot') /\ IsInjective(mPresentSlot')
        /\ Range(mFreeSlot') = {} /\ Range(mPresentSlot') = {} /\ mLastPresent' = -1
        /\ UNCHANGED <<mHwLayer, mLayerVector, taken, lost, cslot>>
        /\ mLayers' = NULL /\ cpc' = "idle" /\ cpc = "delete"
    BY <1>6, EmptyList DEF deleteLayer
  <2>2. Held = {} /\ mHwLayer = NULL /\ cslot = -1
    BY <2>1 DEF SlotsClosed
  <2>3. QED BY <2>1, <2>2 DEF SlotsApart, SlotsComplete, SlotsClosed, DrawnApart, Listed, Shown, Held
<1>7. ASSUME WakeUp PROVE Goal
  BY <1>7, TakeKeepsSlots DEF WakeUp, SlotsClosed
<1>8. ASSUME addPresentSlot PROVE Goal
  <2>1. /\ UNCHANGED <<mLayers, mHwLayer, mLayerVector, mFreeSlot, mLastPresent, taken, lost>>
        /\ cpc = "present" /\ cpc' = "trigger" /\ cslot' = -1 /\ cslot \in Slot
        /\ mPresentSlot' = Append(mPresentSlot, cslot)
    BY <1>8 DEF addPresentSlot
  <2>2. cslot # -1
    BY <2>1, CountsAssumption DEF Slot
  <2>3. cslot \notin Range(mPresentSlot)
    BY <2>2 DEF SlotsApart, Shown
  <2>4. IsInjective(mPresentSlot') /\ Range(mPresentSlot') = Range(mPresentSlot) \union {cslot}
    BY <2>1, <2>3, AppendOfSlots DEF SlotsApart
  <2>5. SlotsApart' /\ Listed' \union Held' = Listed \union Held
    BY <2>1, <2>2, <2>4 DEF SlotsApart, Listed, Shown, Held
  <2>6. QED BY <2>1, <2>5, <1>a DEF SlotsComplete, SlotsClosed, DrawnApart
<1>9. ASSUME triggerComposition PROVE Goal
  BY <1>9 DEF triggerComposition, SlotsApart, SlotsComplete, SlotsClosed, DrawnApart, Listed, Shown, Held
<1>10. ASSUME presentComposes PROVE Goal
  <2>1. SlotsApart' /\ Listed' = Listed /\ DrawnApart'
    BY <1>10, ComposeKeepsSlots DEF presentComposes
  <2>2. UNCHANGED <<mLayers, mHwLayer, taken, lost, cslot>> /\ cpc = "compose" /\ cpc' = "idle"
    BY <1>10 DEF presentComposes, composeLayersLocked
  <2>3. QED BY <2>1, <2>2 DEF SlotsComplete, SlotsClosed, Held
<1>11. ASSUME SpuriousWakeup PROVE Goal
  BY <1>11 DEF SpuriousWakeup, SlotsApart, SlotsComplete, SlotsClosed, DrawnApart, Listed, Shown, Held
<1>12. ASSUME SurfaceFlinger PROVE Goal
  BY <1>12 DEF SurfaceFlinger, SlotsApart, SlotsComplete, SlotsClosed, DrawnApart, Listed, Shown, Held
<1>13. ASSUME verifyLayers PROVE Goal
  <2>1. /\ UNCHANGED <<mLayers, mHwLayer, mFreeSlot, mPresentSlot, mLastPresent, taken, lost, cpc, cslot>>
        /\ mLayerVector' \subseteq {SF}
    BY <1>13 DEF verifyLayers
  <2>2. QED BY <2>1 DEF SlotsApart, SlotsComplete, SlotsClosed, DrawnApart, Listed, Shown, Held
<1>14. ASSUME composeLayers PROVE Goal
  <2>1. SlotsApart' /\ Listed' = Listed /\ DrawnApart'
    BY <1>14, ComposeKeepsSlots DEF composeLayers
  <2>2. UNCHANGED <<mLayers, mHwLayer, taken, lost, cslot, cpc>>
    BY <1>14 DEF composeLayers, composeLayersLocked
  <2>3. QED BY <2>1, <2>2 DEF SlotsComplete, SlotsClosed, Held
<1>15. ASSUME readHwLayer PROVE Goal
  BY <1>15 DEF readHwLayer, SlotsApart, SlotsComplete, SlotsClosed, DrawnApart, Listed, Shown, Held
<1>16. ASSUME triggerRefresh PROVE Goal
  BY <1>16 DEF triggerRefresh, SlotsApart, SlotsComplete, SlotsClosed, DrawnApart, Listed, Shown, Held
<1>17. ASSUME useFreed PROVE Goal
  BY <1>17 DEF useFreed, SlotsApart, SlotsComplete, SlotsClosed, DrawnApart, Listed, Shown, Held
<1>18. ASSUME UNCHANGED vars PROVE Goal
  BY <1>18 DEF vars, SlotsApart, SlotsComplete, SlotsClosed, DrawnApart, Listed, Shown, Held
<1>19. Goal
  BY <1>1, <1>2, <1>3, <1>4, <1>5, <1>6, <1>7, <1>8, <1>9, <1>10, <1>11, <1>12, <1>13, <1>14,
     <1>15, <1>16, <1>17, <1>18 DEF Next, HalCalls, Continue, Present, Vsync
<1>20. QED BY <1>a, <1>19

\* Layer and composition agree on who has which buffer: the inductive invariant
\* holds whatever getSlot(), presentLayer(), freeLayer() and the compositions of
\* the two threads do, and in whatever order.
THEOREM SlotsCorrect == Spec => []SlotsInv
BY InitSlots, NextSlots, PTL DEF Spec

\* Adding a buffer, or none, to a list it is not in.
LEMMA ConcatOrNone ==
  ASSUME NEW q \in Seq(Slot), IsInjective(q), NEW slot \in Slot \union {-1},
         slot \notin Range(q) \ {-1}
  PROVE  /\ q \o OrNone(slot) \in Seq(Slot) /\ IsInjective(q \o OrNone(slot))
         /\ Range(q \o OrNone(slot)) = Range(q) \union ({slot} \ {-1})
<1>1. CASE slot = -1
  BY <1>1, ConcatProperties, EmptySeq DEF OrNone
<1>2. CASE slot # -1
  <2>1. OrNone(slot) = <<slot>> /\ slot \in Slot
    BY <1>2 DEF OrNone
  <2>2. <<slot>> \in Seq(Slot) /\ IsInjective(<<slot>>) /\ Range(<<slot>>) = {slot}
    BY <2>1 DEF IsInjective, Range
  <2>3. Range(q) \intersect Range(<<slot>>) = {}
    BY <1>2, <2>2
  <2>4. /\ q \o <<slot>> \in Seq(Slot) /\ IsInjective(q \o <<slot>>)
        /\ Range(q \o <<slot>>) = Range(q) \union Range(<<slot>>)
    BY <2>2, <2>3, ConcatOfSlots
  <2>5. QED BY <1>2, <2>1, <2>2, <2>4
<1>3. QED BY <1>1, <1>2

\* What is listed apart is listed once.
LEMMA ListedOnce ==
  ASSUME SlotsInv
  PROVE  IsInjective(InService) /\ Range(InService) = Listed
<1> USE DEF SlotsInv, TypeInv, DataInv, DataOK
<1>1. PICK waiting \in Seq(Slot) : waiting = mFreeSlot \o mPresentSlot
  BY ConcatOfSlots DEF SlotsApart
<1>2. IsInjective(waiting) /\ Range(waiting) = Range(mFreeSlot) \union Range(mPresentSlot)
  BY <1>1, ConcatOfSlots DEF SlotsApart
<1>3. mLastPresent \notin Range(waiting) \ {-1}
  BY <1>2 DEF SlotsApart, Shown
<1>4. PICK shown \in Seq(Slot) : shown = waiting \o OrNone(mLastPresent)
  BY <1>2, <1>3, ConcatOrNone
<1>5. IsInjective(shown) /\ Range(shown) = Range(waiting) \union ({mLastPresent} \ {-1})
  BY <1>2, <1>4, <1>3, ConcatOrNone
<1>6. cslot \notin Range(shown) \ {-1}
  BY <1>2, <1>5 DEF SlotsApart, Shown
<1>7. /\ IsInjective(shown \o OrNone(cslot))
      /\ Range(shown \o OrNone(cslot)) = Range(shown) \union ({cslot} \ {-1})
  BY <1>5, <1>6, ConcatOrNone
<1>8. InService = shown \o OrNone(cslot)
  BY <1>1, <1>4 DEF InService
<1>9. QED BY <1>2, <1>5, <1>7, <1>8 DEF Listed, Shown

\* No buffer is drawn on while the display may read it, and none disappears but
\* for a refused presentation.
THEOREM SlotsAreInOnePlace == Spec => []SlotsInOnePlace
<1>1. SlotsInv => SlotsInOnePlace
  <2> SUFFICES ASSUME SlotsInv, mLayers # NULL, cpc # "delete" PROVE SlotsInOnePlace
    BY DEF SlotsInOnePlace
  <2>1. IsInjective(InService) /\ Range(InService) = Listed
    BY ListedOnce
  <2>2. Listed \union Held = Slot /\ Listed \intersect Held = {} /\ taken \intersect lost = {}
    BY DEF SlotsInv, SlotsComplete, SlotsApart
  <2>3. QED BY <2>1, <2>2 DEF SlotsInOnePlace, Held
<1>2. QED BY SlotsCorrect, <1>1, PTL

\* The composition holds no layer but the one that exists.
THEOREM LayerIsForgotten == Spec => []DisplayForgetsLayer
<1>1. SlotsInv => DisplayForgetsLayer
  <2> SUFFICES ASSUME SlotsInv PROVE DisplayForgetsLayer
    OBVIOUS
  <2>1. mHwLayer = NULL => mLayerVector \subseteq {SF}
    BY NullAssumption DEF SlotsInv, TypeInv, DataInv, DataOK, DrawnApart
  <2>2. QED BY <2>1 DEF SlotsInv, DrawnApart, DisplayForgetsLayer
<1>2. QED BY SlotsCorrect, <1>1, PTL

-----------------------------------------------------------------------------
(* What liveness rests on.  That getSlot() returns and that presented frames *)
(* are shown is checked on an instance; proved is that no signal is lost and *)
(* that what they wait for is there.                                         *)

SignalInv == cpc = "waiting" => (signalled <=> mFreeSlot # << >>)

LEMMA NextSignal == ASSUME SlotsInv, SignalInv, [Next]_vars PROVE SignalInv'
<1> USE DEF SignalInv, layer, drawn, slots, app, call, sf, vsync
<1>1. ASSUME composeLayersLocked, UNCHANGED cpc PROVE SignalInv'
  <2>1. CASE UNCHANGED <<mFreeSlot, signalled>>
    BY <1>1, <2>1
  <2>2. CASE mFreeSlot' = Append(mFreeSlot, FreedSlot) /\ signalled' = (signalled \/ cpc = "waiting")
    <3>1. mFreeSlot' # << >>
      <4>1. Len(mFreeSlot') = Len(mFreeSlot) + 1 /\ Len(mFreeSlot) \in Nat
        <5>1. mFreeSlot \in Seq(Slot)
          BY DEF SlotsInv, TypeInv, DataInv, DataOK
        <5>2. QED BY <2>2, <5>1
      <4>2. QED BY <4>1
    <3>2. QED BY <1>1, <2>2, <3>1
  <2>3. QED BY <1>1, <2>1, <2>2 DEF composeLayersLocked, getPresentSlot
<1>2. CASE getFreeSlot
  <2>1. CASE TakeSlot
    BY <2>1 DEF TakeSlot
  <2>2. CASE mFreeSlot = << >> /\ cpc' = "waiting" /\ signalled' = FALSE /\ UNCHANGED mFreeSlot
    BY <2>2
  <2>3. QED BY <1>2, <2>1, <2>2 DEF getFreeSlot
<1>3. CASE getLayer \/ removeHwLayer \/ \E slot \in Slot : presentRefused(slot) \/ addHwLayer(slot)
  BY <1>3 DEF getLayer, removeHwLayer, presentRefused, addHwLayer
<1>4. CASE deleteLayer \/ WakeUp
  BY <1>4 DEF deleteLayer, WakeUp, TakeSlot
<1>5. CASE Present
  BY <1>5 DEF Present, addPresentSlot, triggerComposition, presentComposes
<1>6. CASE composeLayers
  BY <1>1, <1>6 DEF composeLayers
<1>7. CASE SpuriousWakeup \/ SurfaceFlinger \/ verifyLayers \/ UNCHANGED vars
  BY <1>7 DEF SpuriousWakeup, SurfaceFlinger, verifyLayers, vars
<1>8. CASE Vsync
  BY <1>8 DEF Vsync, readHwLayer, triggerRefresh, useFreed
<1>9. QED
  BY <1>2, <1>3, <1>4, <1>5, <1>6, <1>7, <1>8 DEF Next, HalCalls, Continue

\* getSlot() waits once and does not look again.  It need not: while it waits, it
\* has been signalled exactly when a slot is free, so no signal is lost and no
\* signalled caller finds the list empty; only a spurious wakeup can.
THEOREM NoSignalIsLost == Spec => []SignalInv
<1>1. Init => SignalInv
  BY DEF Init, SignalInv
<1>2. QED BY <1>1, SlotsCorrect, NextSignal, PTL DEF Spec

\* A layer that was ever presented is one the display knows, and so the vsync thread.
WatchedInv ==
  /\ mPresentSlot # << >> \/ cpc = "present" => busy
  /\ busy => mLayers # NULL /\ (cpc = "delete" \/ mHwLayer = mLayers)

LEMMA NextWatched == ASSUME SlotsInv, WatchedInv, [Next]_vars PROVE WatchedInv'
<1> USE DEF WatchedInv, layer, drawn, slots, app, call, sf, vsync
<1>1. ASSUME composeLayersLocked PROVE mPresentSlot' # << >> => mPresentSlot # << >>
  <2>1. CASE UNCHANGED mPresentSlot
    BY <2>1
  <2>2. CASE mPresentSlot # << >>
    BY <2>2
  <2>3. QED BY <1>1, <2>1, <2>2 DEF composeLayersLocked
<1>2. CASE presentComposes \/ composeLayers
  BY <1>1, <1>2 DEF presentComposes, composeLayers, composeLayersLocked
<1>3. CASE getFreeSlot
  BY <1>3 DEF getFreeSlot, TakeSlot
<1>4. CASE getLayer
  BY <1>4 DEF getLayer
<1>5. CASE removeHwLayer
  BY <1>5 DEF removeHwLayer
<1>6. CASE \E slot \in Slot : presentRefused(slot)
  BY <1>6 DEF presentRefused
<1>7. CASE \E slot \in Slot : addHwLayer(slot)
  BY <1>7 DEF addHwLayer
<1>8. CASE deleteLayer
  BY <1>8 DEF deleteLayer
<1>9. CASE WakeUp
  BY <1>9 DEF WakeUp, TakeSlot
<1>10. CASE addPresentSlot
  BY <1>10 DEF addPresentSlot
<1>11. CASE triggerComposition
  BY <1>11 DEF triggerComposition
<1>12. CASE SpuriousWakeup \/ SurfaceFlinger \/ verifyLayers \/ UNCHANGED vars
  BY <1>12 DEF SpuriousWakeup, SurfaceFlinger, verifyLayers, vars
<1>13. CASE Vsync
  BY <1>13 DEF Vsync, readHwLayer, triggerRefresh, useFreed
<1>14. QED
  BY <1>2, <1>3, <1>4, <1>5, <1>6, <1>7, <1>8, <1>9, <1>10, <1>11, <1>12, <1>13
  DEF Next, HalCalls, Continue, Present

LEMMA WatchedCorrect == Spec => []WatchedInv
<1>1. Init => WatchedInv
  BY DEF Init, WatchedInv
<1>2. QED BY <1>1, SlotsCorrect, NextWatched, PTL DEF Spec

\* A frame that waits to be shown is a frame of a layer the display knows: the
\* vsync thread will see it, unless the EVS HAL closes the layer.
THEOREM WaitingFrameIsWatched == Spec => [](mPresentSlot # << >> /\ cpc # "delete" => mHwLayer = mLayers)
<1>1. WatchedInv => (mPresentSlot # << >> /\ cpc # "delete" => mHwLayer = mLayers)
  BY DEF WatchedInv
<1>2. QED BY <1>1, WatchedCorrect, PTL

LEMMA SlotCount == IsFiniteSet(Slot) /\ Cardinality(Slot) = DISPLAY_BUFFER_NUM
<1>1. DISPLAY_BUFFER_NUM \in Nat
  BY CountsAssumption
<1>2. IsFiniteSet(0 .. DISPLAY_BUFFER_NUM - 1) /\ 0 \in Int /\ DISPLAY_BUFFER_NUM - 1 \in Int
  BY <1>1, FS_Interval
<1>3. Cardinality(0 .. DISPLAY_BUFFER_NUM - 1) =
        IF 0 > DISPLAY_BUFFER_NUM - 1 THEN 0 ELSE DISPLAY_BUFFER_NUM - 1 - 0 + 1
  BY <1>2, FS_Interval
<1>4. QED BY <1>1, <1>2, <1>3 DEF Slot

\* One slot cannot be all that is in service when two are.
LEMMA TwoInService ==
  ASSUME SlotsInv, Cardinality(Held) + 2 <= DISPLAY_BUFFER_NUM, NEW slot
  PROVE  ~(Slot \subseteq Held \union {slot})
<1> SUFFICES ASSUME Slot \subseteq Held \union {slot} PROVE FALSE
  OBVIOUS
<1>1. Held \subseteq Slot
  BY DEF Held, SlotsInv, TypeInv, DataInv, DataOK
<1>2. IsFiniteSet(Held) /\ Cardinality(Held) \in Nat
  BY <1>1, SlotCount, FS_Subset, FS_CardinalityType
<1>3. IsFiniteSet(Held \union {slot}) /\ Cardinality(Held \union {slot}) <= Cardinality(Held) + 1
  <2>1. /\ IsFiniteSet(Held \union {slot})
        /\ Cardinality(Held \union {slot}) = IF slot \in Held THEN Cardinality(Held) ELSE Cardinality(Held) + 1
    BY <1>2, FS_AddElement
  <2>2. QED BY <1>2, <2>1
<1>4. Cardinality(Slot) <= Cardinality(Held \union {slot}) /\ Cardinality(Held \union {slot}) \in Nat
  BY <1>3, FS_Subset, FS_CardinalityType
<1>5. QED BY <1>2, <1>3, <1>4, SlotCount, CountsAssumption

\* the frames in service: waiting to be shown, and shown
FramesToShow == Len(mPresentSlot) + (IF mLastPresent = -1 THEN 0 ELSE 1)

\* A caller that waits for a slot can be served, as long as two are neither with
\* the application nor lost: it was signalled, or enough frames wait that showing
\* them frees one, of a layer that the vsync thread watches.
THEOREM WaiterCanBeServed ==
  Spec => [](cpc = "waiting" /\ Cardinality(taken \union lost) + 2 <= DISPLAY_BUFFER_NUM =>
               \/ signalled /\ mFreeSlot # << >>
               \/ mPresentSlot # << >> /\ FramesToShow >= 2 /\ mHwLayer = mLayers)
<1>1. ASSUME SlotsInv, SignalInv, WatchedInv, cpc = "waiting", ~signalled,
             Cardinality(taken \union lost) + 2 <= DISPLAY_BUFFER_NUM
      PROVE  mPresentSlot # << >> /\ FramesToShow >= 2 /\ mHwLayer = mLayers
  <2>1. mFreeSlot = << >> /\ cslot = -1 /\ mLayers # NULL
    BY <1>1 DEF SignalInv, SlotsInv, SlotsClosed
  <2>2. Slot = Range(mPresentSlot) \union ({mLastPresent} \ {-1}) \union Held
    <3>1. Range(mFreeSlot) = {} /\ Shown = {mLastPresent} \ {-1}
      BY <2>1, EmptyList DEF Shown
    <3>2. Listed \union Held = Slot
      BY <1>1, <2>1 DEF SlotsInv, SlotsComplete
    <3>3. QED BY <3>1, <3>2 DEF Listed
  <2>3. /\ mPresentSlot \in Seq(Slot) /\ Len(mPresentSlot) \in Nat
        /\ DOMAIN mPresentSlot = 1 .. Len(mPresentSlot)
    BY <1>1 DEF SlotsInv, TypeInv, DataInv, DataOK
  <2>4. Cardinality(Held) + 2 <= DISPLAY_BUFFER_NUM
    BY <1>1 DEF Held
  <2>5. Len(mPresentSlot) # 0
    <3>1. SUFFICES ASSUME Len(mPresentSlot) = 0 PROVE FALSE
      OBVIOUS
    <3>2. Range(mPresentSlot) = {}
      BY <2>3, <3>1 DEF Range
    <3>3. Slot \subseteq Held \union {mLastPresent}
      BY <2>2, <3>2
    <3>4. QED BY <1>1, <2>4, <3>3, TwoInService
  <2>6. mLastPresent # -1 \/ Len(mPresentSlot) # 1
    <3>1. SUFFICES ASSUME mLastPresent = -1, Len(mPresentSlot) = 1 PROVE FALSE
      OBVIOUS
    <3>2. Range(mPresentSlot) \subseteq {mPresentSlot[1]}
      BY <2>3, <3>1 DEF Range
    <3>3. Slot \subseteq Held \union {mPresentSlot[1]}
      BY <2>2, <3>1, <3>2
    <3>4. QED BY <1>1, <2>4, <3>3, TwoInService
  <2>7. mPresentSlot # << >>
    BY <2>5
  <2>8. QED BY <1>1, <2>3, <2>5, <2>6, <2>7 DEF FramesToShow, WatchedInv
<1>2. DEFINE Served == cpc = "waiting" /\ Cardinality(taken \union lost) + 2 <= DISPLAY_BUFFER_NUM =>
                         \/ signalled /\ mFreeSlot # << >>
                         \/ mPresentSlot # << >> /\ FramesToShow >= 2 /\ mHwLayer = mLayers
<1>3. SlotsInv /\ SignalInv /\ WatchedInv => Served
  BY <1>1 DEF SignalInv
<1>4. QED BY <1>3, SlotsCorrect, NoSignalIsLost, WatchedCorrect, PTL
=============================================================================
