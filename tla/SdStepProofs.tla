---------------------------- MODULE SdStepProofs ----------------------------
(***************************************************************************)
(* What each step of SdSession does, for the proofs of SdSessionProofs:    *)
(* the order of the steps, the driver's operators on the controller, and   *)
(* what an action has done when the program goes on after it.              *)
(***************************************************************************)
EXTENDS SdSessionInvariant, TLAPS

(***************************************************************************)
(* The order of the steps.                                                 *)
(***************************************************************************)
\* No step occurs twice in the order of an SD card's initialisation.
LEMMA SdDistinct == \A i, j \in 1 .. 28 : SdOrder[i] = SdOrder[j] => i = j
  BY SMTT(60) DEF SdOrder

\* No step occurs twice in the order of the eMMC's.
LEMMA MmcDistinct == \A i, j \in 1 .. 25 : MmcOrder[i] = MmcOrder[j] => i = j
  BY SMTT(60) DEF MmcOrder

\* The same of the order that holds for the card in the slot.
LEMMA OrderFacts ==
    /\ Len(Order) \in Nat /\ DOMAIN Order = 1 .. Len(Order)
    /\ \A i, j \in 1 .. Len(Order) : Order[i] = Order[j] => i = j
<1>1. Len(SdOrder) = 28 /\ DOMAIN SdOrder = 1 .. 28
  BY DEF SdOrder
<1>2. Len(MmcOrder) = 25 /\ DOMAIN MmcOrder = 1 .. 25
  BY DEF MmcOrder
<1>3. Order = SdOrder \/ Order = MmcOrder
  BY DEF Order
<1>4. CASE Order = SdOrder
  <2>1. Len(Order) = 28 /\ DOMAIN Order = 1 .. 28
    BY ONLY <1>1, <1>4
  <2>2. \A i, j \in 1 .. 28 : Order[i] = Order[j] => i = j
    BY ONLY <1>4, SdDistinct
  <2>. QED
    BY ONLY <2>1, <2>2
<1>5. CASE Order = MmcOrder
  <2>1. Len(Order) = 25 /\ DOMAIN Order = 1 .. 25
    BY ONLY <1>2, <1>5
  <2>2. \A i, j \in 1 .. 25 : Order[i] = Order[j] => i = j
    BY ONLY <1>5, MmcDistinct
  <2>. QED
    BY ONLY <2>1, <2>2
<1>. QED
  BY ONLY <1>3, <1>4, <1>5

\* The step after p is the first one further on that the record asks for.
LEMMA FollowingIs ==
  ASSUME NEW st, NEW p \in 1 .. Len(Order), NEW i \in p + 1 .. Len(Order),
         Needed(Order[i], st), \A j \in p + 1 .. i - 1 : ~Needed(Order[j], st)
  PROVE  Following(Order[p], st) = Order[i]
<1>1. Position(Order[p]) = p
  BY OrderFacts DEF Position
<1>2. \A k \in p + 1 .. Len(Order) :
         /\ Needed(Order[k], st)
         /\ \A j \in p + 1 .. k - 1 : ~Needed(Order[j], st)
         => k = i
  BY OrderFacts
<1>. QED
  BY <1>1, <1>2 DEF Following

Records == [init : BOOLEAN, low : BOOLEAN, s18 : BOOLEAN, sdsc : BOOLEAN]
\* The step the code of sdmmc_storage_init_sd goes on with after each of its steps.
SdAfter(s, st) ==
    /\ s = "start" => Following(s, st) = "go_idle"
    /\ s = "go_idle" => Following(s, st) = "send_if_cond"
    /\ s = "send_if_cond" => Following(s, st) = "get_op_cond"
    /\ s = "get_op_cond" => Following(s, st) = IF st.s18 THEN "switch_voltage" ELSE "get_cid"
    /\ s = "switch_voltage" => Following(s, st) = IF st.s18 THEN "lv_clock" ELSE "get_cid"
    /\ s = "lv_clock" /\ st.s18 => Following(s, st) = "lv_rail"
    /\ s = "lv_rail" /\ st.s18 => Following(s, st) = "lv_check"
    /\ s = "lv_check" => Following(s, st) = "get_cid"
    /\ s = "get_cid" => Following(s, st) = "get_rca"
    /\ s = "get_rca" => Following(s, st) = "get_csd"
    /\ s = "get_csd" => Following(s, st) = IF st.low THEN "select_card" ELSE "setup_ds12"
    /\ s = "setup_ds12" => Following(s, st) = "select_card"
    /\ s = "select_card" => Following(s, st) = "set_blocklen"
    /\ s = "set_blocklen" => Following(s, st) = "clr_card_detect"
    /\ s = "clr_card_detect" => Following(s, st) = "get_scr"
    /\ s = "get_scr" => \/ Following(s, st) = "set_bus_width"
                        \/ Following(s, st) = "switch_get" /\ (st.low \/ ~cap.v10)
                        \/ Following(s, st) = "get_ssr" /\ ~st.low
    /\ s = "set_bus_width" => \/ Following(s, st) = "switch_get" /\ (st.low \/ ~cap.v10)
                              \/ Following(s, st) = "get_ssr" /\ ~st.low
    /\ s = "switch_get" /\ (st.low \/ ~cap.v10) => Following(s, st) = "current_limit"
    /\ s = "current_limit" =>
          IF st.low \/ (~cap.v10 /\ cap.hs) THEN Following(s, st) = "switch_check"
          ELSE Following(s, st) = "get_ssr"
    /\ s = "switch_check" /\ (st.low \/ (~cap.v10 /\ cap.hs)) => Following(s, st) = "switch_set"
    /\ s = "switch_set" /\ (st.low \/ (~cap.v10 /\ cap.hs)) =>
          Following(s, st) = IF st.low THEN "setup_uhs" ELSE "check_status"
    /\ s = "setup_uhs" /\ st.low => 
          Following(s, st) = IF UhsMode \in {"SDR104", "SDR50"} THEN "tuning" ELSE "check_status"
    /\ s = "tuning" /\ st.low => Following(s, st) = "check_status"
    /\ s = "check_status" => IF ~st.low /\ ~cap.v10 /\ cap.hs THEN Following(s, st) = "setup_hs25"
                              ELSE Following(s, st) = "get_ssr"
    /\ s = "setup_hs25" => Following(s, st) = "get_ssr"
    /\ s = "get_ssr" => Following(s, st) = "ready"

\* Following(s, st) is that step (sdmmc.c:1326-1447).
LEMMA SdFollowing ==
  ASSUME cap.kind = "sd", cap \in CardShape, NEW st \in Records
  PROVE  \A s \in Steps : SdAfter(s, st)
<1>o. Order = SdOrder /\ Len(Order) = 28
  BY DEF Order, SdOrder
<1>f. ASSUME NEW p \in 1 .. 28, NEW i \in p + 1 .. 28,
             Needed(SdOrder[i], st), \A j \in p + 1 .. i - 1 : ~Needed(SdOrder[j], st)
      PROVE  Following(SdOrder[p], st) = SdOrder[i]
  BY <1>f, <1>o, FollowingIs
<1>b. st.low \in BOOLEAN /\ st.s18 \in BOOLEAN /\ cap.v10 \in BOOLEAN /\ cap.hs \in BOOLEAN
      /\ cap.wide \in BOOLEAN
  BY DEF Records, CardShape
<1>1. \A p \in {2, 3, 4, 9, 10, 11, 13, 14, 15, 16, 26, 27} : Needed(SdOrder[p + 1], st)
  BY DEF Needed, SdOrder
<1>2. \A p \in {2, 3, 4, 9, 10, 11, 13, 14, 15, 16, 26, 27} :
         Following(SdOrder[p], st) = SdOrder[p + 1]
  <2>. TAKE p \in {2, 3, 4, 9, 10, 11, 13, 14, 15, 16, 26, 27}
  <2>1. p \in 1 .. 28 /\ p + 1 \in p + 1 .. 28 /\ p + 1 .. (p + 1) - 1 = {}
    OBVIOUS
  <2>. QED
    BY <2>1, <1>1, <1>f
<1>3. /\ SdOrder[2] = "start" /\ SdOrder[3] = "go_idle" /\ SdOrder[4] = "send_if_cond"
      /\ SdOrder[5] = "get_op_cond" /\ SdOrder[6] = "switch_voltage" /\ SdOrder[7] = "lv_clock"
      /\ SdOrder[8] = "lv_rail" /\ SdOrder[9] = "lv_check" /\ SdOrder[10] = "get_cid"
      /\ SdOrder[11] = "get_rca" /\ SdOrder[12] = "get_csd" /\ SdOrder[13] = "setup_ds12"
      /\ SdOrder[14] = "select_card" /\ SdOrder[15] = "set_blocklen"
      /\ SdOrder[16] = "clr_card_detect" /\ SdOrder[17] = "get_scr"
      /\ SdOrder[18] = "set_bus_width" /\ SdOrder[19] = "switch_get"
      /\ SdOrder[20] = "current_limit" /\ SdOrder[21] = "switch_check"
      /\ SdOrder[22] = "switch_set" /\ SdOrder[23] = "setup_uhs" /\ SdOrder[24] = "tuning"
      /\ SdOrder[25] = "check_status" /\ SdOrder[26] = "setup_hs25" /\ SdOrder[27] = "get_ssr"
      /\ SdOrder[28] = "ready"
  BY DEF SdOrder
<1>n. /\ \A s \in {"switch_voltage", "lv_clock", "lv_rail", "lv_check"} : Needed(s, st) <=> st.s18
      /\ Needed("setup_ds12", st) <=> ~st.low
      /\ \A s \in {"switch_get", "current_limit"} : Needed(s, st) <=> st.low \/ ~cap.v10
      /\ \A s \in {"switch_check", "switch_set", "check_status"} :
            Needed(s, st) <=> st.low \/ (~cap.v10 /\ cap.hs)
      /\ Needed("setup_uhs", st) <=> st.low
      /\ Needed("tuning", st) <=> st.low /\ UhsMode \in {"SDR104", "SDR50"}
      /\ Needed("setup_hs25", st) <=> ~st.low /\ ~cap.v10 /\ cap.hs
      /\ Needed("select_card", st) /\ Needed("get_cid", st) /\ Needed("get_ssr", st)
  BY <1>b DEF Needed
<1>4. /\ SdAfter("start", st) /\ SdAfter("go_idle", st) /\ SdAfter("send_if_cond", st)
      /\ SdAfter("lv_check", st) /\ SdAfter("get_cid", st) /\ SdAfter("get_rca", st)
      /\ SdAfter("setup_ds12", st) /\ SdAfter("select_card", st) /\ SdAfter("set_blocklen", st)
      /\ SdAfter("clr_card_detect", st) /\ SdAfter("setup_hs25", st) /\ SdAfter("get_ssr", st)
  BY <1>2, <1>3 DEF SdAfter
<1>5. SdAfter("get_op_cond", st)
  <2>1. st.s18 => Following(SdOrder[5], st) = SdOrder[6]
    BY <1>f, <1>3, <1>n
  <2>2. ~st.s18 => Following(SdOrder[5], st) = SdOrder[10]
    BY <1>f, <1>3, <1>n
  <2>. QED
    BY <2>1, <2>2, <1>3 DEF SdAfter
<1>6. SdAfter("switch_voltage", st)
  <2>1. st.s18 => Following(SdOrder[6], st) = SdOrder[7]
    BY <1>f, <1>3, <1>n
  <2>2. ~st.s18 => Following(SdOrder[6], st) = SdOrder[10]
    BY <1>f, <1>3, <1>n
  <2>. QED
    BY <2>1, <2>2, <1>3 DEF SdAfter
<1>7. SdAfter("lv_clock", st) /\ SdAfter("lv_rail", st)
  <2>1. st.s18 => Following(SdOrder[7], st) = SdOrder[8]
    BY <1>f, <1>3, <1>n
  <2>2. st.s18 => Following(SdOrder[8], st) = SdOrder[9]
    BY <1>f, <1>3, <1>n
  <2>. QED
    BY <2>1, <2>2, <1>3 DEF SdAfter
<1>8. SdAfter("get_csd", st)
  <2>1. ~st.low => Following(SdOrder[12], st) = SdOrder[13]
    BY <1>f, <1>3, <1>n
  <2>2. st.low => Following(SdOrder[12], st) = SdOrder[14]
    BY <1>f, <1>3, <1>n
  <2>. QED
    BY <2>1, <2>2, <1>3 DEF SdAfter
<1>9. SdAfter("get_scr", st)
  <2>1. Needed("set_bus_width", st) => Following(SdOrder[17], st) = SdOrder[18]
    BY <1>f, <1>3
  <2>2. ~Needed("set_bus_width", st) /\ (st.low \/ ~cap.v10) => Following(SdOrder[17], st) = SdOrder[19]
    BY <1>f, <1>3, <1>n
  <2>3. ~Needed("set_bus_width", st) /\ ~(st.low \/ ~cap.v10) => Following(SdOrder[17], st) = SdOrder[27]
    BY <1>f, <1>3, <1>n
  <2>4. \/ Following("get_scr", st) = "set_bus_width"
        \/ Following("get_scr", st) = "switch_get" /\ (st.low \/ ~cap.v10)
        \/ Following("get_scr", st) = "get_ssr" /\ ~st.low
    BY <2>1, <2>2, <2>3, <1>3, <1>b
  <2>. QED
    BY <2>4 DEF SdAfter
<1>10. SdAfter("set_bus_width", st)
  <2>2. (st.low \/ ~cap.v10) => Following(SdOrder[18], st) = SdOrder[19]
    BY <1>f, <1>3, <1>n
  <2>3. ~(st.low \/ ~cap.v10) => Following(SdOrder[18], st) = SdOrder[27]
    BY <1>f, <1>3, <1>n
  <2>4. \/ Following("set_bus_width", st) = "switch_get" /\ (st.low \/ ~cap.v10)
        \/ Following("set_bus_width", st) = "get_ssr" /\ ~st.low
    BY <2>2, <2>3, <1>3, <1>b
  <2>. QED
    BY <2>4 DEF SdAfter
<1>11. SdAfter("switch_get", st)
  <2>1. (st.low \/ ~cap.v10) => Following(SdOrder[19], st) = SdOrder[20]
    BY <1>f, <1>3, <1>n
  <2>. QED
    BY <2>1, <1>3, <1>b DEF SdAfter
<1>12. SdAfter("current_limit", st)
  <2>1. (st.low \/ (~cap.v10 /\ cap.hs)) => Following(SdOrder[20], st) = SdOrder[21]
    BY <1>f, <1>3, <1>n
  <2>2. ASSUME ~(st.low \/ (~cap.v10 /\ cap.hs))
        PROVE  Following(SdOrder[20], st) = SdOrder[27]
    BY <2>2, <1>f, <1>3, <1>n
  <2>. QED
    BY <2>1, <2>2, <1>3, <1>b DEF SdAfter
<1>13. SdAfter("switch_check", st)
  <2>1. (st.low \/ (~cap.v10 /\ cap.hs)) => Following(SdOrder[21], st) = SdOrder[22]
    BY <1>f, <1>3, <1>n
  <2>. QED
    BY <2>1, <1>3, <1>b DEF SdAfter
<1>14. SdAfter("switch_set", st)
  <2>1. st.low => Following(SdOrder[22], st) = SdOrder[23]
    BY <1>f, <1>3, <1>n
  <2>2. ~st.low /\ ~cap.v10 /\ cap.hs => Following(SdOrder[22], st) = SdOrder[25]
    BY <1>f, <1>3, <1>n
  <2>. QED
    BY <2>1, <2>2, <1>3, <1>b DEF SdAfter
<1>15. SdAfter("setup_uhs", st)
  <2>1. st.low /\ UhsMode \in {"SDR104", "SDR50"} => Following(SdOrder[23], st) = SdOrder[24]
    BY <1>f, <1>3, <1>n
  <2>2. st.low /\ UhsMode \notin {"SDR104", "SDR50"} => Following(SdOrder[23], st) = SdOrder[25]
    BY <1>f, <1>3, <1>n
  <2>. QED
    BY <2>1, <2>2, <1>3, <1>b DEF SdAfter
<1>16. SdAfter("tuning", st)
  <2>1. st.low => Following(SdOrder[24], st) = SdOrder[25]
    BY <1>f, <1>3, <1>n
  <2>. QED
    BY <2>1, <1>3, <1>b DEF SdAfter
<1>17. SdAfter("check_status", st)
  <2>1. ~st.low /\ ~cap.v10 /\ cap.hs => Following(SdOrder[25], st) = SdOrder[26]
    BY <1>f, <1>3, <1>n
  <2>2. ~(~st.low /\ ~cap.v10 /\ cap.hs) => Following(SdOrder[25], st) = SdOrder[27]
    BY <1>f, <1>3, <1>n
  <2>. QED
    BY <2>1, <2>2, <1>3, <1>b DEF SdAfter
<1>18. ASSUME NEW s, \A p \in 2 .. 27 : s # SdOrder[p]
       PROVE  SdAfter(s, st)
  BY <1>3, <1>18 DEF SdAfter
<1>19. \A p \in 2 .. 27 : SdAfter(SdOrder[p], st)
  BY <1>3, <1>4, <1>5, <1>6, <1>7, <1>8, <1>9, <1>10, <1>11, <1>12, <1>13, <1>14, <1>15, <1>16, <1>17
<1>. QED
  BY <1>18, <1>19

\* The same for sdmmc_storage_init_mmc.
MmcAfter(s, st) ==
    /\ s = "start" => Following(s, st) = "go_idle"
    /\ s = "go_idle" => Following(s, st) = "get_op_cond"
    /\ s = "get_op_cond" => Following(s, st) = "get_cid"
    /\ s = "get_cid" => Following(s, st) = "get_rca"
    /\ s = "get_rca" => Following(s, st) = "get_csd"
    /\ s = "get_csd" => Following(s, st) = "setup_ls26"
    /\ s = "setup_ls26" => Following(s, st) = "select_card"
    /\ s = "select_card" => Following(s, st) = "set_blocklen"
    /\ s = "set_blocklen" => Following(s, st) = "switch_width8"
    /\ s = "switch_width8" => Following(s, st) = "get_ext_csd"
    /\ s = "get_ext_csd" => Following(s, st) = "switch_hs200"
    /\ s = "switch_hs200" => Following(s, st) = "setup_hs200"
    /\ s = "setup_hs200" => Following(s, st) = "tuning"
    /\ s = "tuning" => Following(s, st) = "check_status"
    /\ s = "check_status" => Following(s, st) = IF Hs400 THEN "save_tap" ELSE "ready"
    /\ Hs400 =>
          /\ s = "save_tap" => Following(s, st) = "switch_hs52"
          /\ s = "switch_hs52" => Following(s, st) = "setup_hs52"
          /\ s = "setup_hs52" => Following(s, st) = "check_status2"
          /\ s = "check_status2" => Following(s, st) = "switch_ddr8"
          /\ s = "switch_ddr8" => Following(s, st) = "switch_hs400"
          /\ s = "switch_hs400" => Following(s, st) = "setup_hs400"
          /\ s = "setup_hs400" => Following(s, st) = "check_status3"
          /\ s = "check_status3" => Following(s, st) = "ready"

\* Following(s, st) is that step for the eMMC (sdmmc.c:642-732).
LEMMA MmcFollowing ==
  ASSUME cap.kind = "emmc", cap \in CardShape, NEW st \in Records
  PROVE  \A s \in Steps : MmcAfter(s, st)
<1>o. Order = MmcOrder /\ Len(Order) = 25
  BY DEF Order, MmcOrder
<1>f. ASSUME NEW p \in 1 .. 25, NEW i \in p + 1 .. 25,
             Needed(MmcOrder[i], st), \A j \in p + 1 .. i - 1 : ~Needed(MmcOrder[j], st)
      PROVE  Following(MmcOrder[p], st) = MmcOrder[i]
  BY <1>f, <1>o, FollowingIs
<1>m. /\ MmcOrder[2] = "start" /\ MmcOrder[3] = "go_idle" /\ MmcOrder[4] = "get_op_cond"
      /\ MmcOrder[5] = "get_cid" /\ MmcOrder[6] = "get_rca" /\ MmcOrder[7] = "get_csd"
      /\ MmcOrder[8] = "setup_ls26" /\ MmcOrder[9] = "select_card" /\ MmcOrder[10] = "set_blocklen"
      /\ MmcOrder[11] = "switch_width8" /\ MmcOrder[12] = "get_ext_csd"
      /\ MmcOrder[13] = "switch_hs200" /\ MmcOrder[14] = "setup_hs200" /\ MmcOrder[15] = "tuning"
      /\ MmcOrder[16] = "check_status" /\ MmcOrder[17] = "save_tap" /\ MmcOrder[18] = "switch_hs52"
      /\ MmcOrder[19] = "setup_hs52" /\ MmcOrder[20] = "check_status2"
      /\ MmcOrder[21] = "switch_ddr8" /\ MmcOrder[22] = "switch_hs400"
      /\ MmcOrder[23] = "setup_hs400" /\ MmcOrder[24] = "check_status3" /\ MmcOrder[25] = "ready"
  BY DEF MmcOrder
<1>n. ASSUME NEW p \in 2 .. 24, p < 16 \/ Hs400
      PROVE  Needed(MmcOrder[p + 1], st)
  <2>1. \A q \in 2 .. 15 : Needed(MmcOrder[q + 1], st)
    BY DEF Needed, MmcOrder
  <2>2. Hs400 => \A q \in 16 .. 24 : Needed(MmcOrder[q + 1], st)
    BY DEF Needed, MmcOrder
  <2>. QED
    BY <1>n, <2>1, <2>2
<1>1. ASSUME NEW p \in 2 .. 24, p < 16 \/ Hs400
      PROVE  Following(MmcOrder[p], st) = MmcOrder[p + 1]
  <2>1. p \in 1 .. 25 /\ p + 1 \in p + 1 .. 25 /\ p + 1 .. (p + 1) - 1 = {}
    OBVIOUS
  <2>. QED
    BY <1>1, <1>n, <2>1, <1>f
<1>2. ~Hs400 => Following(MmcOrder[16], st) = MmcOrder[25]
  <2>1. SUFFICES ASSUME ~Hs400 PROVE Following(MmcOrder[16], st) = MmcOrder[25]
    OBVIOUS
  <2>2. \A j \in 17 .. 24 : ~Needed(MmcOrder[j], st)
    BY <2>1, <1>m DEF Needed
  <2>3. Needed(MmcOrder[25], st)
    BY <1>m DEF Needed
  <2>. QED
    BY <2>2, <2>3, <1>f
<1>3. \A s \in Steps : /\ s = "check_status" => Following(s, st) = IF Hs400 THEN "save_tap" ELSE "ready"
  <2>1. Hs400 => Following(MmcOrder[16], st) = MmcOrder[17]
    BY <1>1
  <2>. QED
    BY <2>1, <1>2, <1>m
<1>4. \A p \in 2 .. 15 : Following(MmcOrder[p], st) = MmcOrder[p + 1]
  BY <1>1
<1>5. Hs400 => \A p \in 16 .. 24 : Following(MmcOrder[p], st) = MmcOrder[p + 1]
  BY <1>1
<1>. QED
  BY <1>3, <1>4, <1>5, <1>m DEF MmcAfter

\* The steps both initialisations have.
CommonSteps == {"sdmmc_init", "start", "go_idle", "get_op_cond", "get_cid", "get_rca", "get_csd",
                "select_card", "set_blocklen", "tuning", "check_status", "ready"}

\* Every step is common to both, or of one of the two.
LEMMA StepsAre == Steps = CommonSteps \cup SdOnly \cup MmcOnly
<1>1. DOMAIN SdOrder = 1 .. 28 /\ DOMAIN MmcOrder = 1 .. 25
  BY DEF SdOrder, MmcOrder
<1>2. \A i \in 1 .. 28 : SdOrder[i] \in CommonSteps \cup SdOnly
  BY DEF SdOrder, SdOnly, CommonSteps
<1>3. \A i \in 1 .. 25 : MmcOrder[i] \in CommonSteps \cup MmcOnly
  BY DEF MmcOrder, MmcOnly, CommonSteps
<1>4. \A s \in CommonSteps \cup SdOnly : \E i \in 1 .. 28 : SdOrder[i] = s
  BY DEF SdOrder, SdOnly, CommonSteps
<1>5. \A s \in MmcOnly : \E i \in 1 .. 25 : MmcOrder[i] = s
  BY DEF MmcOrder, MmcOnly
<1>6. Steps = {SdOrder[i] : i \in 1 .. 28} \cup {MmcOrder[i] : i \in 1 .. 25}
  BY ONLY <1>1 DEF Steps
<1>. QED
  BY ONLY <1>2, <1>3, <1>4, <1>5, <1>6

(***************************************************************************)
(* The controller.                                                         *)
(***************************************************************************)
\* The fields of a controller have the values its registers allow.
LEMMA HostFields ==
  ASSUME NEW g \in HostShape
  PROVE  /\ g.id \in Ids /\ g.vdd \in BOOLEAN /\ g.ldo \in Levels /\ g.det \in Levels /\ g.io \in Levels
         /\ g.dis \in BOOLEAN /\ g.width \in Widths /\ g.hispd \in BOOLEAN /\ g.v180 \in BOOLEAN
         /\ g.ofs \in Levels /\ g.cal \in Levels /\ g.ck \in BOOLEAN /\ g.div \in Divisors
         /\ g.en \in BOOLEAN /\ g.save \in BOOLEAN /\ g.stopped \in BOOLEAN /\ g.b01 \in BOOLEAN
         /\ g.saved \in BOOLEAN /\ g.on \in BOOLEAN /\ g.rst \in BOOLEAN /\ g.pll \in SUBSET Ids
         /\ g.pllOn \in BOOLEAN /\ g.trim \in BOOLEAN
  BY DEF HostShape

\* PLLC4 runs exactly while somebody holds it.
Plls(g) == g.pllOn <=> g.pll # {}

\* What the clock set-up leaves alone.
Stays(g, r) ==
    /\ r.id = g.id /\ r.vdd = g.vdd /\ r.ldo = g.ldo /\ r.det = g.det /\ r.io = g.io /\ r.dis = g.dis
    /\ r.cal = g.cal /\ r.ofs = g.ofs /\ r.width = g.width
    /\ r.en = g.en /\ r.save = g.save /\ r.stopped = g.stopped /\ r.b01 = g.b01 /\ r.saved = g.saved
    /\ r.ck = g.ck /\ r.on = g.on

\* sdmmc_driver's clock source is set and PLLC4 is held by whom it feeds.
LEMMA ConfigHostDoes ==
  ASSUME NEW g \in HostShape, NEW v \in Clocks, NEW r, r = ConfigHost(g, v)
  PROVE  /\ r \in HostShape /\ Stays(g, r) /\ r.src = v
         /\ r.tap = g.tap /\ r.hispd = g.hispd /\ r.v180 = g.v180 /\ r.uhs = g.uhs /\ r.div = g.div
         /\ Plls(g) => Plls(r)
<1>1. ASSUME NEW p \in SUBSET Ids, NEW q \in BOOLEAN,
             r = [g EXCEPT !.src = v, !.pll = p, !.pllOn = q], Plls(g) => (q <=> p # {})
      PROVE  /\ r \in HostShape /\ Stays(g, r) /\ r.src = v
             /\ r.tap = g.tap /\ r.hispd = g.hispd /\ r.v180 = g.v180 /\ r.uhs = g.uhs /\ r.div = g.div
             /\ Plls(g) => Plls(r)
  <2>1. /\ r \in HostShape /\ Stays(g, r) /\ r.src = v /\ r.pll = p /\ (r.pllOn = q)
        /\ r.tap = g.tap /\ r.hispd = g.hispd /\ r.v180 = g.v180 /\ r.uhs = g.uhs /\ r.div = g.div
    BY ONLY <1>1, g \in HostShape, v \in Clocks, ZenonT(60) DEF HostShape, Stays
  <2>. QED
    BY <1>1, <2>1 DEF Plls
<1>2. g.pll \in SUBSET Ids /\ g.id \in Ids /\ g.pllOn \in BOOLEAN
  BY HostFields
<1>3. CASE v \in FromPllc4
  <2>1. r = [g EXCEPT !.src = v, !.pll = g.pll \cup {g.id}, !.pllOn = TRUE]
    BY <1>3 DEF ConfigHost
  <2>2. g.pll \cup {g.id} \in SUBSET Ids /\ g.pll \cup {g.id} # {}
    BY <1>2
  <2>. QED
    BY <1>1, <2>1, <2>2
<1>4. CASE v \notin FromPllc4
  <2>1. r = [g EXCEPT !.src = v, !.pll = g.pll, !.pllOn = g.pllOn]
    BY <1>4, <1>2 DEF ConfigHost
  <2>. QED
    BY <1>1, <1>2, <2>1 DEF Plls
<1>. QED
  BY <1>3, <1>4

\* _sdmmc_setup_clock leaves the controller in the timing it was asked for, its tap reset
\* or the one that was saved.
LEMMA SetupClockDoes ==
  ASSUME NEW g \in HostShape, NEW t \in Timings, NEW r, r = SetupClock(g, t)
  PROVE  /\ r \in HostShape /\ Stays(g, r) /\ TimedFor(r, t)
         /\ r.tap = IF t # "MMC_HS400" THEN "static" ELSE IF g.saved THEN "saved" ELSE g.tap
         /\ Plls(g) => Plls(r)
<1>. DEFINE v == CardClockDiv(t)[1]
            d == CardClockDiv(t)[2]
            tapped == ConfigTap(g, t)
            bits == ModeBits(tapped, t)
            clocked == ConfigSource(bits, v)
<1>1. v \in Clocks /\ d \in Divisors
  <2>1. v \in Clocks
    BY DEF Clocks
  <2>2. d \in Divisors
    BY DEF CardClockDiv, Timings, Divisors
  <2>. QED
    BY <2>1, <2>2
<1>2. /\ tapped \in HostShape /\ Stays(g, tapped) /\ tapped.pll = g.pll /\ (tapped.pllOn <=> g.pllOn)
      /\ tapped.tap = IF t # "MMC_HS400" THEN "static" ELSE IF g.saved THEN "saved" ELSE g.tap
  BY HostFields DEF ConfigTap, HostShape, Stays, Taps
<1>3. /\ bits \in HostShape /\ Stays(tapped, bits) /\ bits.pll = tapped.pll /\ (bits.pllOn <=> tapped.pllOn)
      /\ bits.tap = tapped.tap
      /\ t \in {"MMC_ID", "MMC_LS26", "SD_ID", "SD_DS12"} => ~bits.hispd /\ ~bits.v180
      /\ t \in {"MMC_HS52", "SD_HS25"} => bits.hispd /\ ~bits.v180
      /\ t \in {"SDR12", "SDR25"} => bits.uhs = t /\ bits.v180
      /\ t = "MMC_HS400" => bits.uhs = "HS400" /\ bits.v180
      /\ t \in {"SDR50", "SDR82", "SDR104", "MMC_HS200"} => bits.uhs = "SDR104" /\ bits.v180
  <2>. HIDE DEF tapped
  <2>1. CASE t \in {"MMC_ID", "MMC_LS26", "SD_ID", "SD_DS12"}
    <3>1. tapped \in HostShape
      BY <1>2
    <3>2. bits = [tapped EXCEPT !.hispd = FALSE, !.v180 = FALSE]
      BY <2>1 DEF ModeBits
    <3>3. bits \in HostShape /\ ~bits.hispd /\ ~bits.v180 /\ bits.pll = tapped.pll
          /\ (bits.pllOn <=> tapped.pllOn) /\ bits.tap = tapped.tap
      BY ONLY <3>1, <3>2, ZenonT(60) DEF HostShape
    <3>4. Stays(tapped, bits)
      BY ONLY <3>1, <3>2 DEF HostShape, Stays
    <3>. QED
      BY <2>1, <3>3, <3>4
  <2>2. CASE t \in {"MMC_HS52", "SD_HS25"}
    <3>1. tapped \in HostShape
      BY <1>2
    <3>. QED
      BY <2>2, <3>1, ZenonT(60) DEF ModeBits, HostShape, Stays, UhsBits
  <2>3. CASE t \in {"SDR12", "SDR25"}
    BY <2>3, <1>2, ZenonT(60) DEF ModeBits, HostShape, Stays, UhsBits
  <2>4. CASE t = "MMC_HS400"
    BY <2>4, <1>2, ZenonT(60) DEF ModeBits, HostShape, Stays, UhsBits
  <2>5. CASE t \in {"SDR50", "SDR82", "SDR104", "MMC_HS200"}
    <3>1. tapped \in HostShape
      BY <1>2
    <3>. QED
      BY <2>5, <3>1, ZenonT(60) DEF ModeBits, HostShape, Stays, UhsBits
  <2>. QED
    BY <2>1, <2>2, <2>3, <2>4, <2>5 DEF Timings
<1>4. /\ clocked \in HostShape /\ Stays(bits, clocked) /\ clocked.src = v
      /\ clocked.tap = bits.tap /\ clocked.hispd = bits.hispd /\ clocked.v180 = bits.v180
      /\ clocked.uhs = bits.uhs
      /\ Plls(bits) => Plls(clocked)
  <2>. HIDE DEF tapped, bits, v
  <2>1. CASE bits.src = v
    BY <2>1, <1>3 DEF ConfigSource, Stays
  <2>2. CASE bits.src # v
    BY <2>2, <1>1, <1>3, ConfigHostDoes DEF ConfigSource
  <2>. QED
    BY <2>1, <2>2
<1>5. r = [clocked EXCEPT !.div = d]
  BY DEF SetupClock
<1>. HIDE DEF clocked, bits, tapped, d, v
<1>6. /\ r \in HostShape /\ Stays(clocked, r) /\ r.src = v /\ r.div = d
      /\ r.tap = clocked.tap /\ r.hispd = clocked.hispd /\ r.v180 = clocked.v180 /\ r.uhs = clocked.uhs
      /\ r.pll = clocked.pll /\ (r.pllOn <=> clocked.pllOn)
  BY <1>1, <1>4, <1>5 DEF HostShape, Stays
<1>7. Stays(g, r)
  BY <1>2, <1>3, <1>4, <1>6 DEF Stays
<1>8. TimedFor(r, t)
  BY <1>3, <1>4, <1>6 DEF TimedFor, v, d
<1>9. Plls(g) => Plls(r)
  BY <1>2, <1>3, <1>4, <1>6 DEF Plls
<1>. QED
  BY <1>2, <1>3, <1>4, <1>6, <1>7, <1>8, <1>9

\* sdmmc_init with a card in the slot: power at the level asked for, calibrated for it,
\* in identification timing, the card's clock not yet running.
LEMMA PowerOnDoes ==
  ASSUME NEW g \in HostShape, NEW b \in BOOLEAN, NEW t \in Timings,
         NEW power \in Levels, NEW r, r = PowerOn(g, b, power, t)
  PROVE  /\ r \in HostShape /\ r.id = g.id /\ r.vdd /\ r.dis = g.dis
         /\ r.ldo = IF g.id = "sd" THEN "3.3" ELSE "1.8"
         /\ r.cal = power /\ r.ofs = power /\ r.width = 1 /\ ~r.hispd /\ ~r.v180
         /\ ~r.en /\ ~r.save /\ ~r.stopped
         /\ Plls(g) => Plls(r)
<1>. DEFINE clean == [g EXCEPT !.en = FALSE, !.save = FALSE, !.saved = FALSE, !.b01 = b,
                              !.trim = g.b01, !.stopped = FALSE]
            powered == IF g.id = "sd" THEN ConfigSdmmc1(clean) ELSE ConfigEmmc(clean)
            sourced == ConfigHost(powered, CardClockDiv(t)[1])
            clocked == [sourced EXCEPT !.on = TRUE, !.rst = FALSE]
            reset == ResetAll(clocked)
<1>1. /\ clean \in HostShape /\ clean.id = g.id /\ clean.dis = g.dis /\ ~clean.en /\ ~clean.save
      /\ ~clean.stopped /\ clean.pll = g.pll /\ (clean.pllOn <=> g.pllOn)
  <2>1. g.b01 \in BOOLEAN
    BY HostFields
  <2>2. clean \in HostShape
    BY ONLY <2>1, g \in HostShape, b \in BOOLEAN, ZenonT(60) DEF HostShape
  <2>3. clean.id = g.id /\ clean.dis = g.dis /\ clean.pll = g.pll /\ (clean.pllOn <=> g.pllOn)
    BY ONLY g \in HostShape DEF HostShape
  <2>4. ~clean.en /\ ~clean.save /\ ~clean.stopped
    BY ONLY g \in HostShape DEF HostShape
  <2>. QED
    BY ONLY <2>2, <2>3, <2>4
<1>2. /\ powered \in HostShape /\ powered.id = g.id /\ powered.dis = g.dis /\ ~powered.en
      /\ ~powered.save /\ ~powered.stopped /\ powered.pll = g.pll /\ (powered.pllOn <=> g.pllOn)
      /\ powered.vdd /\ powered.ldo = IF g.id = "sd" THEN "3.3" ELSE "1.8"
  <2>. HIDE DEF clean
  <2>1. "3.3" \in Levels /\ "1.8" \in Levels
    BY DEF Levels
  <2>2. CASE g.id = "sd"
    BY ONLY <1>1, <2>1, <2>2, ZenonT(60) DEF ConfigSdmmc1, HostShape
  <2>3. CASE g.id # "sd"
    BY ONLY <1>1, <2>1, <2>3, ZenonT(60) DEF ConfigEmmc, HostShape
  <2>. QED
    BY ONLY <2>2, <2>3
<1>3. CardClockDiv(t)[1] \in Clocks
  BY DEF Clocks
<1>. HIDE DEF powered, clean
<1>4. /\ sourced \in HostShape /\ Stays(powered, sourced) /\ (Plls(powered) => Plls(sourced))
  BY ONLY <1>2, <1>3, ConfigHostDoes
<1>. HIDE DEF sourced
<1>5. /\ clocked \in HostShape /\ clocked.id = sourced.id /\ clocked.dis = sourced.dis
      /\ clocked.vdd = sourced.vdd /\ clocked.ldo = sourced.ldo
      /\ clocked.en = sourced.en /\ clocked.save = sourced.save /\ clocked.stopped = sourced.stopped
      /\ clocked.pll = sourced.pll /\ (clocked.pllOn <=> sourced.pllOn)
  BY ONLY <1>4, ZenonT(60) DEF HostShape
<1>. HIDE DEF clocked
<1>6. "off" \in Levels /\ "none" \in UhsBits /\ 1 \in Widths /\ "static" \in Taps
  BY DEF Levels, UhsBits, Widths, Taps
<1>7. /\ reset \in HostShape /\ reset.id = clocked.id /\ reset.dis = clocked.dis
      /\ reset.vdd = clocked.vdd /\ reset.ldo = clocked.ldo
      /\ reset.en = clocked.en /\ reset.save = clocked.save /\ reset.stopped = clocked.stopped
      /\ reset.pll = clocked.pll /\ (reset.pllOn <=> clocked.pllOn)
      /\ reset.width = 1 /\ ~reset.hispd /\ ~reset.v180
  <2>1. reset \in HostShape
    <3>. DEFINE bare == [clocked EXCEPT !.width = 1, !.hispd = FALSE, !.uhs = "none", !.v180 = FALSE]
    <3>1. bare \in HostShape
      BY ONLY <1>5, <1>6, ZenonT(60) DEF HostShape
    <3>2. reset = [bare EXCEPT !.io = "off", !.ck = FALSE, !.tap = "static"]
      BY ONLY <1>5 DEF HostShape, ResetAll
    <3>. HIDE DEF bare, reset
    <3>. QED
      BY ONLY <3>1, <3>2, <1>6, ZenonT(60) DEF HostShape
  <2>2. /\ reset.id = clocked.id /\ reset.dis = clocked.dis
        /\ reset.vdd = clocked.vdd /\ reset.ldo = clocked.ldo
        /\ reset.en = clocked.en /\ reset.save = clocked.save /\ reset.stopped = clocked.stopped
        /\ reset.pll = clocked.pll /\ (reset.pllOn <=> clocked.pllOn)
    BY ONLY <1>5 DEF HostShape, ResetAll
  <2>3. reset.width = 1 /\ ~reset.hispd /\ ~reset.v180
    BY ONLY <1>5 DEF HostShape, ResetAll
  <2>. QED
    BY ONLY <2>1, <2>2, <2>3
<1>8. r = [[reset EXCEPT !.ofs = power] EXCEPT !.cal = power]
  BY DEF PowerOn, Autocal, AutocalConfigOffset, reset, clocked, sourced, powered, clean, ClockEnable
<1>. HIDE DEF reset
<1>9. /\ r \in HostShape /\ r.id = reset.id /\ r.dis = reset.dis
      /\ r.vdd = reset.vdd /\ r.ldo = reset.ldo /\ r.cal = power /\ r.ofs = power
      /\ r.en = reset.en /\ r.save = reset.save /\ r.stopped = reset.stopped
      /\ r.pll = reset.pll /\ (r.pllOn <=> reset.pllOn)
      /\ r.width = reset.width /\ r.hispd = reset.hispd /\ r.v180 = reset.v180
  BY ONLY <1>7, <1>8, power \in Levels, ZenonT(60) DEF HostShape
<1>10. Plls(g) => Plls(r)
  BY ONLY <1>2, <1>4, <1>5, <1>7, <1>9 DEF Plls
<1>. QED
  BY ONLY <1>2, <1>4, <1>5, <1>7, <1>9, <1>10 DEF Stays

\* The start of the clock and the bus: the rest of sdmmc_init.
LEMMA StartDoes ==
  ASSUME NEW g \in HostShape, NEW power \in Levels, NEW t \in Timings,
         t # "MMC_HS400", NEW r, r = Start(g, power, 1, t)
  PROVE  /\ r \in HostShape /\ r.id = g.id /\ r.vdd = g.vdd /\ r.dis = g.dis /\ r.ldo = g.ldo
         /\ r.io = power /\ r.cal = g.cal /\ r.ofs = g.ofs /\ r.width = 1 /\ TimedFor(r, t)
         /\ r.en /\ r.stopped = g.stopped
         /\ Plls(g) => Plls(r)
<1>. DEFINE wide == SetIoPower(SetBusWidth(g, 1), power)
            timed == SetupClock(wide, t)
            saving == CardClockPowersave(timed, FALSE)
<1>1. /\ wide \in HostShape /\ wide.id = g.id /\ wide.vdd = g.vdd /\ wide.dis = g.dis /\ wide.ldo = g.ldo
      /\ wide.io = power /\ wide.cal = g.cal /\ wide.ofs = g.ofs /\ wide.width = 1
      /\ wide.stopped = g.stopped /\ wide.pll = g.pll /\ (wide.pllOn <=> g.pllOn)
  BY DEF HostShape, SetIoPower, SetBusWidth, Widths
<1>. HIDE DEF wide
<1>2. timed \in HostShape /\ Stays(wide, timed) /\ TimedFor(timed, t) /\ (Plls(wide) => Plls(timed))
  BY ONLY <1>1, t \in Timings, SetupClockDoes
<1>. HIDE DEF timed
<1>3. r = [saving EXCEPT !.en = TRUE, !.ck = TRUE]
  BY DEF Start, saving, timed, wide
<1>4. timed.ck \in BOOLEAN /\ timed.en \in BOOLEAN
  BY <1>2, HostFields
<1>5. saving = [timed EXCEPT !.save = FALSE, !.ck = timed.ck \/ timed.en]
  BY <1>4 DEF CardClockPowersave
<1>6. PICK c \in BOOLEAN : saving = [timed EXCEPT !.save = FALSE, !.ck = c]
  BY <1>4, <1>5
<1>7. /\ r \in HostShape /\ r.id = timed.id /\ r.vdd = timed.vdd /\ r.dis = timed.dis /\ r.ldo = timed.ldo
      /\ r.io = timed.io /\ r.cal = timed.cal /\ r.ofs = timed.ofs /\ r.width = timed.width
      /\ r.en /\ r.stopped = timed.stopped /\ r.pll = timed.pll /\ (r.pllOn <=> timed.pllOn)
      /\ r.src = timed.src /\ r.div = timed.div /\ r.hispd = timed.hispd /\ r.v180 = timed.v180
      /\ r.uhs = timed.uhs
  <2>0. timed \in HostShape
    BY <1>2
  <2>. HIDE DEF saving
  <2>1. saving \in HostShape
    <3>1. [timed EXCEPT !.save = FALSE, !.ck = c] \in HostShape
      BY ONLY <2>0, c \in BOOLEAN, ZenonT(60) DEF HostShape
    <3>. QED
      BY ONLY <3>1, <1>6
  <2>2. r \in HostShape /\ r.en
    BY ONLY <2>1, <1>3, ZenonT(60) DEF HostShape
  <2>3. /\ saving.id = timed.id /\ saving.vdd = timed.vdd /\ saving.dis = timed.dis
        /\ saving.ldo = timed.ldo /\ saving.io = timed.io /\ saving.cal = timed.cal
        /\ saving.ofs = timed.ofs /\ saving.width = timed.width /\ saving.stopped = timed.stopped
        /\ saving.pll = timed.pll /\ saving.pllOn = timed.pllOn
        /\ saving.src = timed.src /\ saving.div = timed.div /\ saving.hispd = timed.hispd
        /\ saving.v180 = timed.v180 /\ saving.uhs = timed.uhs
    BY ONLY <2>0, <1>6, c \in BOOLEAN, SMTT(30) DEF HostShape
  <2>4. /\ r.id = saving.id /\ r.vdd = saving.vdd /\ r.dis = saving.dis
        /\ r.ldo = saving.ldo /\ r.io = saving.io /\ r.cal = saving.cal
        /\ r.ofs = saving.ofs /\ r.width = saving.width /\ r.stopped = saving.stopped
        /\ r.pll = saving.pll /\ r.pllOn = saving.pllOn
        /\ r.src = saving.src /\ r.div = saving.div /\ r.hispd = saving.hispd
        /\ r.v180 = saving.v180 /\ r.uhs = saving.uhs
    BY ONLY <2>1, <1>3 DEF HostShape
  <2>. QED
    BY ONLY <2>2, <2>3, <2>4
<1>8. TimedFor(r, t)
  BY ONLY <1>2, <1>7 DEF TimedFor
<1>9. Plls(g) => Plls(r)
  BY ONLY <1>1, <1>2, <1>7 DEF Plls
<1>. QED
  BY ONLY <1>1, <1>2, <1>7, <1>8, <1>9 DEF Stays

\* Rails and enables that a command or a calibration leaves alone.
SameRails(g, r) ==
    /\ r.id = g.id /\ r.vdd = g.vdd /\ r.ldo = g.ldo /\ r.io = g.io /\ r.dis = g.dis /\ r.ofs = g.ofs
    /\ r.en = g.en /\ r.stopped = g.stopped /\ r.on = g.on /\ r.pll = g.pll /\ r.pllOn = g.pllOn
\* The timing likewise.
SameTiming(g, r) ==
    r.src = g.src /\ r.div = g.div /\ r.hispd = g.hispd /\ r.v180 = g.v180 /\ r.uhs = g.uhs

\* A command may calibrate the drivers for the level of the pads, and that is all.
LEMMA RecalibrateDoes ==
  ASSUME NEW g \in HostShape, NEW r, r = Recalibrate(g)
  PROVE  /\ r \in HostShape /\ SameRails(g, r) /\ SameTiming(g, r)
         /\ r.cal \in {g.cal, g.io}
         /\ r.width = g.width /\ r.tap = g.tap /\ r.saved = g.saved /\ r.ck = g.ck
<1>1. CASE r = g
  BY <1>1 DEF SameRails, SameTiming
<1>2. CASE r = [g EXCEPT !.cal = g.io]
  <2>1. g.io \in Levels
    BY HostFields
  <2>2. /\ r \in HostShape /\ r.cal = g.io
        /\ r.width = g.width /\ r.tap = g.tap /\ r.saved = g.saved /\ r.ck = g.ck
    BY ONLY <2>1, <1>2, g \in HostShape DEF HostShape
  <2>3. SameRails(g, r) /\ SameTiming(g, r)
    BY ONLY <1>2, g \in HostShape DEF HostShape, SameRails, SameTiming
  <2>. QED
    BY <2>2, <2>3
<1>. QED
  BY <1>1, <1>2 DEF Recalibrate, Autocal

\* Only the width changes when the bus is widened.
LEMMA WidthDoes ==
  ASSUME NEW g \in HostShape, NEW w \in Widths, NEW r, r = SetBusWidth(g, w)
  PROVE  /\ r \in HostShape /\ SameRails(g, r) /\ SameTiming(g, r)
         /\ r.cal = g.cal /\ r.width = w /\ r.tap = g.tap /\ r.saved = g.saved /\ r.ck = g.ck
<1>1. /\ r \in HostShape /\ r.width = w /\ r.cal = g.cal /\ r.tap = g.tap /\ r.saved = g.saved
      /\ r.ck = g.ck
  BY ONLY g \in HostShape, w \in Widths, r = SetBusWidth(g, w) DEF HostShape, SetBusWidth
<1>2. SameRails(g, r) /\ SameTiming(g, r)
  BY ONLY g \in HostShape, r = SetBusWidth(g, w) DEF HostShape, SetBusWidth, SameRails, SameTiming
<1>. QED
  BY <1>1, <1>2

\* Tuning only chooses the tap.
LEMMA TunedDoes ==
  ASSUME NEW g \in HostShape, NEW r, r = Tuned(g)
  PROVE  /\ r \in HostShape /\ SameRails(g, r) /\ SameTiming(g, r)
         /\ r.cal = g.cal /\ r.width = g.width /\ r.tap = "tuned" /\ r.ck = g.ck
<1>1. r \in HostShape /\ r.width = g.width /\ r.cal = g.cal /\ r.tap = "tuned" /\ r.ck = g.ck
  BY ONLY g \in HostShape, r = Tuned(g) DEF HostShape, Tuned, Taps
<1>2. SameRails(g, r) /\ SameTiming(g, r)
  BY ONLY g \in HostShape, r = Tuned(g) DEF HostShape, Tuned, SameRails, SameTiming
<1>. QED
  BY <1>1, <1>2

\* Only the saved tap is new.
LEMMA SaveTapDoes ==
  ASSUME NEW g \in HostShape, NEW r, r = SaveTapValue(g)
  PROVE  /\ r \in HostShape /\ SameRails(g, r) /\ SameTiming(g, r)
         /\ r.cal = g.cal /\ r.width = g.width /\ r.tap = g.tap /\ r.saved /\ r.ck = g.ck
<1>1. r \in HostShape /\ r.width = g.width /\ r.cal = g.cal /\ r.tap = g.tap /\ r.saved /\ r.ck = g.ck
  BY ONLY g \in HostShape, r = SaveTapValue(g) DEF HostShape, SaveTapValue
<1>2. SameRails(g, r) /\ SameTiming(g, r)
  BY ONLY g \in HostShape, r = SaveTapValue(g) DEF HostShape, SaveTapValue, SameRails, SameTiming
<1>. QED
  BY <1>1, <1>2

\* The card's clock on again after the switch, or saved once the card is ready.
LEMMA ClockDoes ==
  ASSUME NEW g \in HostShape, NEW r,
         r = [g EXCEPT !.ck = TRUE] \/ r = CardClockPowersave(g, TRUE)
  PROVE  /\ r \in HostShape /\ SameRails(g, r) /\ SameTiming(g, r)
         /\ r.cal = g.cal /\ r.width = g.width /\ r.tap = g.tap
<1>1. CASE r = [g EXCEPT !.ck = TRUE]
  <2>1. r \in HostShape /\ r.width = g.width /\ r.cal = g.cal /\ r.tap = g.tap
    BY ONLY <1>1, g \in HostShape DEF HostShape
  <2>2. SameRails(g, r) /\ SameTiming(g, r)
    BY ONLY <1>1, g \in HostShape DEF HostShape, SameRails, SameTiming
  <2>. QED
    BY <2>1, <2>2
<1>2. CASE r = CardClockPowersave(g, TRUE)
  <2>0. r = [g EXCEPT !.save = TRUE, !.ck = FALSE]
    BY <1>2 DEF CardClockPowersave
  <2>1. r \in HostShape /\ r.width = g.width /\ r.cal = g.cal /\ r.tap = g.tap
    BY ONLY <2>0, g \in HostShape, ZenonT(60) DEF HostShape
  <2>2. SameRails(g, r) /\ SameTiming(g, r)
    BY ONLY <2>0, g \in HostShape DEF HostShape, SameRails, SameTiming
  <2>. QED
    BY <2>1, <2>2
<1>. QED
  BY <1>1, <1>2

\* The switch to 1.8 V moves the rail, the pads and the calibration together.
LEMMA LowerRailDoes ==
  ASSUME NEW g \in HostShape, NEW r, r = LowerRail(g)
  PROVE  /\ r \in HostShape /\ SameTiming(g, r) /\ Level(r, "1.8")
         /\ r.id = g.id /\ r.vdd = g.vdd /\ r.dis = g.dis /\ r.en = g.en /\ r.stopped = g.stopped
         /\ r.pll = g.pll /\ r.pllOn = g.pllOn
         /\ r.width = g.width
<1>. DEFINE a == [g EXCEPT !.ldo = "1.8", !.det = "1.8"]
            b == [a EXCEPT !.ofs = "1.8"]
            c == [b EXCEPT !.cal = "1.8"]
<1>1. a \in HostShape /\ b \in HostShape /\ c \in HostShape
  BY ZenonT(60) DEF HostShape, Levels
<1>2. r = [c EXCEPT !.io = "1.8"]
  BY DEF LowerRail, SetIoPower, Autocal, AutocalConfigOffset
<1>3. r \in HostShape /\ r.io = "1.8"
  BY ONLY <1>1, <1>2, ZenonT(60) DEF HostShape, Levels
<1>4. r.ldo = "1.8" /\ r.cal = "1.8" /\ r.ofs = "1.8"
  BY ONLY <1>2, g \in HostShape DEF HostShape
<1>5. /\ r.id = g.id /\ r.vdd = g.vdd /\ r.dis = g.dis /\ r.en = g.en /\ r.stopped = g.stopped
      /\ r.pll = g.pll /\ r.pllOn = g.pllOn /\ r.width = g.width
  BY ONLY <1>2, g \in HostShape DEF HostShape
<1>6. SameTiming(g, r)
  BY ONLY <1>2, g \in HostShape DEF HostShape, SameTiming
<1>. QED
  BY <1>3, <1>4, <1>5, <1>6 DEF Level

\* The wait before power is applied only discharges the slot.
LEMMA InitWaitDoes ==
  ASSUME NEW g \in HostShape, NEW r, r = InitWait(g)
  PROVE  /\ r \in HostShape /\ r.dis
         /\ r.id = g.id /\ r.vdd = g.vdd /\ r.ldo = g.ldo /\ r.io = g.io /\ r.on = g.on
         /\ r.ck = g.ck /\ r.pll = g.pll /\ r.pllOn = g.pllOn
<1>. QED
  BY DEF HostShape, InitWait

\* Without a card nothing of the rails changes and the controller is left off.
LEMMA NoCardDoes ==
  ASSUME NEW g \in HostShape, NEW b \in BOOLEAN, NEW r, r = NoCard(g, b)
  PROVE  /\ r \in HostShape /\ ~r.en /\ r.stopped
         /\ r.id = g.id /\ r.vdd = g.vdd /\ r.ldo = g.ldo /\ r.io = g.io /\ r.on = g.on
         /\ r.dis = g.dis /\ r.ck = g.ck /\ r.pll = g.pll /\ r.pllOn = g.pllOn
<1>1. r \in HostShape
  <2>. DEFINE cleared == [g EXCEPT !.en = FALSE, !.save = FALSE, !.saved = FALSE]
  <2>1. cleared \in HostShape
    BY ONLY g \in HostShape, ZenonT(60) DEF HostShape
  <2>2. r = [cleared EXCEPT !.b01 = b, !.stopped = TRUE]
    BY DEF NoCard
  <2>. HIDE DEF cleared
  <2>. QED
    BY ONLY <2>1, <2>2, b \in BOOLEAN, ZenonT(60) DEF HostShape
<1>2. ~r.en /\ r.stopped
  BY ONLY g \in HostShape, b \in BOOLEAN, r = NoCard(g, b) DEF HostShape, NoCard
<1>3. /\ r.id = g.id /\ r.vdd = g.vdd /\ r.ldo = g.ldo /\ r.io = g.io /\ r.on = g.on
      /\ r.dis = g.dis /\ r.ck = g.ck /\ r.pll = g.pll /\ r.pllOn = g.pllOn
  BY ONLY g \in HostShape, r = NoCard(g, b), SMTT(40) DEF HostShape, NoCard
<1>. QED
  BY <1>1, <1>2, <1>3

\* A controller that was not stopped before: the slot is off.
LEMMA EndDoes ==
  ASSUME NEW g \in HostShape, ~g.stopped, NEW r, r = SdmmcEnd(g)
  PROVE  /\ r \in HostShape /\ ~r.en /\ r.stopped /\ ~r.ck /\ ~r.on /\ r.io = "off"
         /\ r.id = g.id
         /\ IF g.id = "sd" THEN ~r.vdd /\ r.ldo = "off" ELSE r.vdd = g.vdd /\ r.ldo = g.ldo
         /\ Plls(g) => Plls(r)
<1>. DEFINE off == [g EXCEPT !.en = FALSE, !.ck = FALSE, !.io = "off", !.stopped = TRUE]
            dead == IF g.id = "sd" THEN Sdmmc1DisablePower(off) ELSE off
            users == dead.pll \ {dead.id}
<1>1. /\ off \in HostShape /\ ~off.en /\ off.stopped /\ ~off.ck /\ off.io = "off"
      /\ off.id = g.id /\ off.vdd = g.vdd /\ off.ldo = g.ldo /\ off.pll = g.pll /\ off.pllOn = g.pllOn
  BY ONLY g \in HostShape, ZenonT(60) DEF HostShape, Levels
<1>2. /\ dead \in HostShape /\ ~dead.en /\ dead.stopped /\ ~dead.ck /\ dead.io = "off"
      /\ dead.id = g.id /\ dead.pll = g.pll /\ dead.pllOn = g.pllOn
      /\ IF g.id = "sd" THEN ~dead.vdd /\ dead.ldo = "off" ELSE dead.vdd = g.vdd /\ dead.ldo = g.ldo
  <2>. HIDE DEF off
  <2>1. CASE g.id = "sd"
    <3>1. dead = [off EXCEPT !.ldo = "off", !.vdd = FALSE, !.det = "3.3", !.dis = FALSE]
      BY <2>1, <1>1 DEF Sdmmc1DisablePower
    <3>4. "off" \in Levels /\ "3.3" \in Levels
      BY DEF Levels
    <3>5. dead \in HostShape
      <4>. DEFINE pins == [off EXCEPT !.ldo = "off", !.det = "3.3"]
      <4>1. pins \in HostShape
        BY ONLY <1>1, <3>4 DEF HostShape
      <4>2. dead = [pins EXCEPT !.vdd = FALSE, !.dis = FALSE]
        BY <3>1
      <4>. HIDE DEF pins, dead
      <4>. QED
        BY ONLY <4>1, <4>2, ZenonT(60) DEF HostShape
    <3>2. dead \in HostShape /\ ~dead.vdd /\ dead.ldo = "off"
      BY ONLY <1>1, <3>1, <3>5, ZenonT(60) DEF HostShape
    <3>3. /\ dead.en = off.en /\ dead.stopped = off.stopped /\ dead.ck = off.ck /\ dead.io = off.io
          /\ dead.id = off.id /\ dead.pll = off.pll /\ dead.pllOn = off.pllOn
      BY ONLY <1>1, <3>1, ZenonT(60) DEF HostShape
    <3>. QED
      BY ONLY <2>1, <1>1, <3>2, <3>3
  <2>2. CASE g.id # "sd"
    BY <2>2, <1>1
  <2>. QED
    BY <2>1, <2>2
<1>3. r = ClockDisable(dead)
  BY DEF SdmmcEnd
<1>. HIDE DEF off, dead
<1>4. users \in SUBSET Ids /\ dead.pllOn \in BOOLEAN
  BY <1>2, HostFields
<1>5. r = [dead EXCEPT !.on = FALSE, !.rst = TRUE, !.pll = users, !.pllOn = dead.pllOn /\ users # {}]
  BY <1>3, <1>4 DEF ClockDisable
<1>. HIDE DEF users
<1>6. PICK q \in BOOLEAN :
         /\ q <=> dead.pllOn /\ users # {}
         /\ r = [dead EXCEPT !.on = FALSE, !.rst = TRUE, !.pll = users, !.pllOn = q]
  BY <1>4, <1>5
<1>7. r \in HostShape /\ ~r.on /\ r.pll = users /\ r.pllOn = q
  <2>1. r \in HostShape
    <3>. DEFINE quiet == [dead EXCEPT !.on = FALSE, !.rst = TRUE]
    <3>1. quiet \in HostShape
      BY ONLY <1>2, ZenonT(60) DEF HostShape
    <3>2. r = [quiet EXCEPT !.pll = users, !.pllOn = q]
      BY <1>6
    <3>. HIDE DEF quiet
    <3>. QED
      BY ONLY <3>1, <3>2, <1>4, q \in BOOLEAN, ZenonT(60) DEF HostShape
  <2>. QED
    BY ONLY <2>1, <1>2, <1>6, q \in BOOLEAN DEF HostShape
<1>8. /\ r.en = dead.en /\ r.stopped = dead.stopped /\ r.ck = dead.ck /\ r.io = dead.io
      /\ r.id = dead.id /\ r.vdd = dead.vdd /\ r.ldo = dead.ldo
  BY ONLY <1>2, <1>6, q \in BOOLEAN DEF HostShape
<1>9. Plls(g) => Plls(r)
  BY ONLY <1>2, <1>6, <1>7 DEF Plls, users
<1>. QED
  BY <1>2, <1>7, <1>8, <1>9

(***************************************************************************)
(* The actions.                                                            *)
(***************************************************************************)
\* A step of an initialisation after sdmmc_init.
Walk == (CommonStep \/ SdStep \/ MmcStep) /\ op.step # "sdmmc_init"

\* It leaves the program's own state alone, and goes on with the step that follows or fails.
LEMMA Walks ==
  ASSUME ShapeInv, Walk
  PROVE  /\ op.step \in Steps \ {"sdmmc_init", "ready"}
         /\ UNCHANGED <<env, mode, mounted, moved, result>>
         /\ op' = [op EXCEPT !.step = op'.step]
         /\ op'.step = "failed" \/ op'.step = Following(op.step, store')
         /\ faults' \in Nat
<1>0. op = [op EXCEPT !.step = op.step] /\ faults \in Nat /\ faults + 1 \in Nat /\ op \in Places
  BY DEF ShapeInv, Places
<1>1. CASE CommonStep
  <2>1. op.step \in Steps \ {"sdmmc_init", "ready"}
    BY <1>1, StepsAre DEF Walk, CommonStep, SdmmcInit, SdmmcStart, GoIdleState, GetCid, GetCsd, SelectCard,
      SetBlocklen, CheckStatus, CheckStatus2, CheckStatus3, TuningExecute,
      Done, Setting, Accepted, Failed, Command, DataCommand, Ask, CommonSteps, MmcOnly
  <2>. QED
    BY <1>1, <1>0, <2>1 DEF Walk, CommonStep, SdmmcInit, SdmmcStart, GoIdleState, GetCid, GetCsd, SelectCard,
      SetBlocklen, CheckStatus, CheckStatus2, CheckStatus3, TuningExecute,
      Done, Setting, Accepted, Failed, Command, DataCommand, Ask, Spend, Places
<1>2. CASE SdStep
  <2>1. op.step \in Steps \ {"sdmmc_init", "ready"}
    BY <1>2, StepsAre DEF SdStep, SendIfCond, SdGetOpCond, SwitchVoltage, EnableLowVoltage, GetRca,
      SetupDs12, ClrCardDetect, GetScr, SetBusWidth4, SwitchGet, SetCurrentLimit, SwitchCheck,
      SwitchSet, SetupUhs, SetupHs25, GetSsr,
      Done, Setting, Accepted, Failed, Command, DataCommand, Ask, CommonSteps, SdOnly
  <2>. QED
    <3>1. CASE SendIfCond
      <4>1. \E x : op' = [op EXCEPT !.step = x] /\ (x = "failed" \/ x = Following(op.step, store'))
        BY <3>1 DEF SendIfCond, Done, Accepted, Failed
      <4>2. faults' \in Nat /\ UNCHANGED <<env, mode, mounted, moved, result>>
        BY <3>1, <1>0 DEF SendIfCond, Done, Accepted, Failed, Spend
      <4>. QED
        BY <4>1, <4>2, <1>0, <2>1 DEF Places
    <3>4. CASE SwitchVoltage
      <4>1. \E x : op' = [op EXCEPT !.step = x] /\ (x = "failed" \/ x = Following(op.step, store'))
        BY <3>4 DEF SwitchVoltage, Done, Accepted, Failed
      <4>2. faults' \in Nat /\ UNCHANGED <<env, mode, mounted, moved, result>>
        BY <3>4, <1>0 DEF SwitchVoltage, Done, Accepted, Failed, Spend
      <4>. QED
        BY <4>1, <4>2, <1>0, <2>1 DEF Places
    <3>5. CASE SdGetOpCond \/ GetRca
      BY <3>5, <1>0, <2>1 DEF SdGetOpCond, GetRca, Done, Accepted, Failed, Command, Spend, Places
    <3>6. CASE EnableLowVoltage
      <4>1. \E x : op' = [op EXCEPT !.step = x] /\ (x = "failed" \/ x = Following(op.step, store'))
        BY <3>6 DEF EnableLowVoltage, Done, Setting, Failed
      <4>2. faults' \in Nat /\ UNCHANGED <<env, mode, mounted, moved, result>>
        BY <3>6, <1>0 DEF EnableLowVoltage, Done, Setting, Failed, Spend
      <4>. QED
        BY <4>1, <4>2, <1>0, <2>1 DEF Places
    <3>2. CASE SetupDs12 \/ ClrCardDetect \/ GetScr \/ SetBusWidth4 \/ SwitchGet \/ SetCurrentLimit
      BY <3>2, <1>0, <2>1 DEF SetupDs12, ClrCardDetect, GetScr, SetBusWidth4, SwitchGet,
        SetCurrentLimit, Done, Setting, Accepted, Failed, Command, DataCommand, Ask, Spend, Places
    <3>3. CASE SwitchCheck \/ SwitchSet \/ SetupUhs \/ SetupHs25 \/ GetSsr
      BY <3>3, <1>0, <2>1 DEF SwitchCheck, SwitchSet, SetupUhs, SetupHs25, GetSsr,
        Done, Setting, Accepted, Failed, Command, DataCommand, Ask, Spend, Places
    <3>. QED
      BY <1>2, <3>1, <3>2, <3>3, <3>4, <3>5, <3>6 DEF SdStep
<1>3. CASE MmcStep
  <2>1. op.step \in Steps \ {"sdmmc_init", "ready"}
    BY <1>3, StepsAre DEF MmcStep, MmcGetOpCond, SetRelativeAddr, SetupLs26, SwitchBuswidth,
      GetExtCsd, EnableHS200, EnableHS, EnableHS400,
      Done, Setting, Accepted, Failed, Command, DataCommand, Ask, CommonSteps, MmcOnly
  <2>. QED
    BY <1>3, <1>0, <2>1 DEF MmcStep, MmcGetOpCond, SetRelativeAddr, SetupLs26, SwitchBuswidth,
      GetExtCsd, EnableHS200, EnableHS, EnableHS400,
      Done, Setting, Accepted, Failed, Command, DataCommand, Ask, Spend, Places
<1>. QED
  BY <1>1, <1>2, <1>3 DEF Walk

\* What a step of an initialisation has done when the program goes on with the next.
R == Recalibrate(h)
\* Per step of the SD card's way: what is true when the program goes on.
SdGoes(s) ==
    /\ s = "start" => h' = Start(h, h.ldo, 1, "SD_ID") /\ card' = card /\ store' = store
    /\ s = "go_idle" => h' = R /\ card' \in {card, Idled} /\ store' = store
    /\ s = "send_if_cond" =>
          h' = R /\ card' = card /\ store' \in {store, [store EXCEPT !.sdsc = TRUE]}
    /\ s = "get_op_cond" =>
          /\ h' = R /\ card' = [card EXCEPT !.st = "ready"] /\ card.st = "idle" /\ Talks
          /\ store' = [store EXCEPT !.s18 = UhsSupport /\ ~store.sdsc /\ cap.uhs /\ card.sig = "3.3"]
    /\ s = "switch_voltage" =>
          /\ h' = R
          /\ \/ store' = store /\ card' = [card EXCEPT !.sig = "1.8", !.mode = "SDR12"] /\ card.st = "ready"
             \/ store' = [store EXCEPT !.s18 = FALSE]
    /\ s = "lv_clock" => h' = SetupClock(h, "SDR12") /\ card' = card /\ store' = store
    /\ s = "lv_rail" => h' = LowerRail(h) /\ card' = card /\ store' = store
    /\ s = "lv_check" =>
          h' = [h EXCEPT !.ck = TRUE] /\ card' = card /\ store' = [store EXCEPT !.low = TRUE]
    /\ s = "get_cid" => /\ h' = R /\ card' = [card EXCEPT !.st = "ident"] /\ store' = store
                        /\ Talks /\ card.st = "ready"
    /\ s = "get_rca" => /\ h' = R /\ card' = [card EXCEPT !.st = "stby"] /\ store' = store
                        /\ Talks /\ card.st = "ident"
    /\ s = "get_csd" => h' = R /\ card' = card /\ store' = store
    /\ s = "setup_ds12" => h' = SetupClock(h, "SD_DS12") /\ card' = card /\ store' = store
    /\ s = "select_card" => /\ h' = R /\ card' = [card EXCEPT !.st = "tran"] /\ store' = store
                            /\ Talks /\ card.st = "stby"
    /\ s \in {"set_blocklen", "clr_card_detect", "get_scr", "switch_get", "current_limit",
              "check_status", "get_ssr"} => h' = R /\ card' = card /\ store' = store
    /\ s = "set_bus_width" =>
          h' = SetBusWidth(R, 4) /\ card' = [card EXCEPT !.width = 4] /\ store' = store
    /\ s = "switch_check" => /\ h' = R /\ card' = card /\ store' = store
                             /\ store.low => UhsMode \in cap.modes
    /\ s = "switch_set" =>
          /\ h' = R /\ store' = store
          /\ card' = [card EXCEPT !.mode = IF store.low THEN UhsMode ELSE "HS"]
    /\ s = "setup_uhs" => h' = SetupClock(h, UhsTiming) /\ card' = card /\ store' = store
    /\ s = "setup_hs25" => h' = SetupClock(h, "SD_HS25") /\ card' = card /\ store' = store
    /\ s = "tuning" => h' = Tuned(h) /\ card' = card /\ store' = store

\* Each action of SdSession does that when it does not end in "failed".
LEMMA SdGoesOn ==
  ASSUME ShapeInv, HostInv, cap.kind = "sd", Walk, op'.step # "failed"
  PROVE  SdGoes(op.step)
<1>0. h.id = "sd" /\ op' # [op EXCEPT !.step = "failed"]
  BY DEF ShapeInv, Places
<1>1. CASE SdmmcStart
  BY <1>0, <1>1 DEF SdmmcStart, Setting, Done, Accepted, Failed, Command, DataCommand, Ask, SdGoes, R
<1>2. CASE GoIdleState
  BY <1>0, <1>2 DEF GoIdleState, Setting, Done, Accepted, Failed, Command, DataCommand, Ask, SdGoes, R
<1>3. CASE GetCid
  BY <1>0, <1>3 DEF GetCid, Setting, Done, Accepted, Failed, Command, DataCommand, Ask, SdGoes, R
<1>4. CASE GetCsd
  BY <1>0, <1>4 DEF GetCsd, Setting, Done, Accepted, Failed, Command, DataCommand, Ask, SdGoes, R
<1>5. CASE SelectCard
  BY <1>0, <1>5 DEF SelectCard, Setting, Done, Accepted, Failed, Command, DataCommand, Ask, SdGoes, R
<1>6. CASE SetBlocklen
  BY <1>0, <1>6 DEF SetBlocklen, Setting, Done, Accepted, Failed, Command, DataCommand, Ask, SdGoes, R
<1>7. CASE CheckStatus
  BY <1>0, <1>7 DEF CheckStatus, Setting, Done, Accepted, Failed, Command, DataCommand, Ask, SdGoes, R
<1>8. CASE TuningExecute
  BY <1>0, <1>8 DEF TuningExecute, Setting, Done, Accepted, Failed, Command, DataCommand, Ask, SdGoes, R
<1>9. CASE SendIfCond
  BY <1>0, <1>9 DEF SendIfCond, Setting, Done, Accepted, Failed, Command, DataCommand, Ask, SdGoes, R
<1>10. CASE SdGetOpCond
  BY <1>0, <1>10 DEF SdGetOpCond, Setting, Done, Accepted, Failed, Command, DataCommand, Ask, SdGoes, R
<1>11. CASE SwitchVoltage
  BY <1>0, <1>11 DEF SwitchVoltage, Setting, Done, Accepted, Failed, Command, DataCommand, Ask, SdGoes, R
<1>12. CASE EnableLowVoltage
  BY <1>0, <1>12 DEF EnableLowVoltage, Setting, Done, Accepted, Failed, Command, DataCommand, Ask, SdGoes, R
<1>13. CASE GetRca
  BY <1>0, <1>13 DEF GetRca, Setting, Done, Accepted, Failed, Command, DataCommand, Ask, SdGoes, R
<1>14. CASE SetupDs12
  BY <1>0, <1>14 DEF SetupDs12, Setting, Done, Accepted, Failed, Command, DataCommand, Ask, SdGoes, R
<1>15. CASE ClrCardDetect
  BY <1>0, <1>15 DEF ClrCardDetect, Setting, Done, Accepted, Failed, Command, DataCommand, Ask, SdGoes, R
<1>16. CASE GetScr
  BY <1>0, <1>16 DEF GetScr, Setting, Done, Accepted, Failed, Command, DataCommand, Ask, SdGoes, R
<1>17. CASE SetBusWidth4
  BY <1>0, <1>17 DEF SetBusWidth4, Setting, Done, Accepted, Failed, Command, DataCommand, Ask, SdGoes, R
<1>18. CASE SwitchGet
  BY <1>0, <1>18 DEF SwitchGet, Setting, Done, Accepted, Failed, Command, DataCommand, Ask, SdGoes, R
<1>19. CASE SetCurrentLimit
  BY <1>0, <1>19 DEF SetCurrentLimit, Setting, Done, Accepted, Failed, Command, DataCommand, Ask, SdGoes, R
<1>20. CASE SwitchCheck
  BY <1>0, <1>20 DEF SwitchCheck, Setting, Done, Accepted, Failed, Command, DataCommand, Ask, SdGoes, R
<1>21. CASE SwitchSet
  BY <1>0, <1>21 DEF SwitchSet, Setting, Done, Accepted, Failed, Command, DataCommand, Ask, SdGoes, R
<1>22. CASE SetupUhs
  BY <1>0, <1>22 DEF SetupUhs, Setting, Done, Accepted, Failed, Command, DataCommand, Ask, SdGoes, R
<1>23. CASE SetupHs25
  BY <1>0, <1>23 DEF SetupHs25, Setting, Done, Accepted, Failed, Command, DataCommand, Ask, SdGoes, R
<1>24. CASE GetSsr
  BY <1>0, <1>24 DEF GetSsr, Setting, Done, Accepted, Failed, Command, DataCommand, Ask, SdGoes, R
<1>25. CASE CheckStatus2 \/ CheckStatus3 \/ MmcStep
  BY <1>0, <1>25 DEF CheckStatus2, CheckStatus3, MmcStep, MmcGetOpCond, SetRelativeAddr, SetupLs26,
    SwitchBuswidth, GetExtCsd, EnableHS200, EnableHS, EnableHS400, HostInv, MmcOnly,
    Setting, Done, Accepted, Failed, Command, DataCommand, Ask
<1>. QED
  BY <1>0, <1>1, <1>2, <1>3, <1>4, <1>5, <1>6, <1>7, <1>8, <1>9, <1>10, <1>11, <1>12, <1>13, <1>14, <1>15, <1>16, <1>17, <1>18, <1>19, <1>20, <1>21, <1>22, <1>23, <1>24, <1>25 DEF Walk, CommonStep, SdStep, SdmmcInit

\* The same for the eMMC's way.
MmcGoes(s) ==
    /\ s = "start" => h' = Start(h, h.ldo, 1, "MMC_ID") /\ card' = card
    /\ s = "go_idle" => h' = R /\ card' \in {card, Idled}
    /\ s = "get_op_cond" => h' = R /\ card' = [card EXCEPT !.st = "ready"]
    /\ s = "get_cid" => h' = R /\ card' = [card EXCEPT !.st = "ident"]
    /\ s = "get_rca" => h' = R /\ card' = [card EXCEPT !.st = "stby"]
    /\ s \in {"get_csd", "set_blocklen", "get_ext_csd", "check_status", "check_status2",
              "switch_ddr8", "check_status3"} => h' = R /\ card' = card
    /\ s = "setup_ls26" => h' = SetupClock(h, "MMC_LS26") /\ card' = card
    /\ s = "select_card" => /\ h' = R /\ card' = [card EXCEPT !.st = "tran"]
                            /\ Talks /\ card.st = "stby"
    /\ s = "switch_width8" => h' = SetBusWidth(h, 8) /\ card' = [card EXCEPT !.width = 8]
    /\ s = "switch_hs200" => h' = R /\ card' = [card EXCEPT !.mode = "HS200"]
    /\ s = "setup_hs200" => h' = SetupClock(h, "MMC_HS200") /\ card' = card
    /\ s = "tuning" => h' = Tuned(h) /\ card' = card
    /\ s = "save_tap" => h' = SaveTapValue(h) /\ card' = card
    /\ s = "switch_hs52" => h' = R /\ card' = [card EXCEPT !.mode = "HS52"]
    /\ s = "setup_hs52" => h' = SetupClock(h, "MMC_HS52") /\ card' = card
    /\ s = "switch_hs400" => h' = R /\ card' = [card EXCEPT !.mode = "HS400"]
    /\ s = "setup_hs400" => h' = SetupClock(h, "MMC_HS400") /\ card' = card

\* Each action does that when it does not end in "failed".
LEMMA MmcGoesOn ==
  ASSUME ShapeInv, HostInv, cap.kind = "emmc", Walk, op'.step # "failed"
  PROVE  MmcGoes(op.step)
<1>0. h.id = "emmc" /\ op' # [op EXCEPT !.step = "failed"]
  BY DEF ShapeInv, Places
<1>1. CASE SdmmcStart
  BY <1>0, <1>1 DEF SdmmcStart, Setting, Done, Accepted, Failed, Command, DataCommand, Ask, MmcGoes, R
<1>2. CASE GoIdleState
  BY <1>0, <1>2 DEF GoIdleState, Setting, Done, Accepted, Failed, Command, DataCommand, Ask, MmcGoes, R
<1>3. CASE GetCid
  BY <1>0, <1>3 DEF GetCid, Setting, Done, Accepted, Failed, Command, DataCommand, Ask, MmcGoes, R
<1>4. CASE GetCsd
  BY <1>0, <1>4 DEF GetCsd, Setting, Done, Accepted, Failed, Command, DataCommand, Ask, MmcGoes, R
<1>5. CASE SelectCard
  BY <1>0, <1>5 DEF SelectCard, Setting, Done, Accepted, Failed, Command, DataCommand, Ask, MmcGoes, R
<1>6. CASE SetBlocklen
  BY <1>0, <1>6 DEF SetBlocklen, Setting, Done, Accepted, Failed, Command, DataCommand, Ask, MmcGoes, R
<1>7. CASE CheckStatus
  BY <1>0, <1>7 DEF CheckStatus, Setting, Done, Accepted, Failed, Command, DataCommand, Ask, MmcGoes, R
<1>8. CASE CheckStatus2
  BY <1>0, <1>8 DEF CheckStatus2, Setting, Done, Accepted, Failed, Command, DataCommand, Ask, MmcGoes, R
<1>9. CASE CheckStatus3
  BY <1>0, <1>9 DEF CheckStatus3, Setting, Done, Accepted, Failed, Command, DataCommand, Ask, MmcGoes, R
<1>10. CASE TuningExecute
  BY <1>0, <1>10 DEF TuningExecute, Setting, Done, Accepted, Failed, Command, DataCommand, Ask, MmcGoes, R
<1>11. CASE MmcGetOpCond
  BY <1>0, <1>11 DEF MmcGetOpCond, Setting, Done, Accepted, Failed, Command, DataCommand, Ask, MmcGoes, R
<1>12. CASE SetRelativeAddr
  BY <1>0, <1>12 DEF SetRelativeAddr, Setting, Done, Accepted, Failed, Command, DataCommand, Ask, MmcGoes, R
<1>13. CASE SetupLs26
  BY <1>0, <1>13 DEF SetupLs26, Setting, Done, Accepted, Failed, Command, DataCommand, Ask, MmcGoes, R
<1>14. CASE SwitchBuswidth
  BY <1>0, <1>14 DEF SwitchBuswidth, Setting, Done, Accepted, Failed, Command, DataCommand, Ask, MmcGoes, R
<1>15. CASE GetExtCsd
  BY <1>0, <1>15 DEF GetExtCsd, Setting, Done, Accepted, Failed, Command, DataCommand, Ask, MmcGoes, R
<1>16. CASE EnableHS200
  BY <1>0, <1>16 DEF EnableHS200, Setting, Done, Accepted, Failed, Command, DataCommand, Ask, MmcGoes, R
<1>17. CASE EnableHS
  BY <1>0, <1>17 DEF EnableHS, Setting, Done, Accepted, Failed, Command, DataCommand, Ask, MmcGoes, R
<1>18. CASE EnableHS400
  BY <1>0, <1>18 DEF EnableHS400, Setting, Done, Accepted, Failed, Command, DataCommand, Ask, MmcGoes, R
<1>19. CASE SdStep
  BY <1>0, <1>19 DEF SdStep, SendIfCond, SdGetOpCond, SwitchVoltage, EnableLowVoltage, GetRca,
    SetupDs12, ClrCardDetect, GetScr, SetBusWidth4, SwitchGet, SetCurrentLimit, SwitchCheck,
    SwitchSet, SetupUhs, SetupHs25, GetSsr, HostInv, SdOnly,
    Setting, Done, Accepted, Failed, Command, DataCommand, Ask
<1>. QED
  BY <1>0, <1>1, <1>2, <1>3, <1>4, <1>5, <1>6, <1>7, <1>8, <1>9, <1>10, <1>11, <1>12, <1>13, <1>14, <1>15, <1>16, <1>17, <1>18, <1>19 DEF Walk, CommonStep, MmcStep, SdmmcInit

\* What a step may do to the controller and to the card, whether it succeeds or not.
LEMMA HostChanges ==
  ASSUME ShapeInv, Walk
  PROVE  \/ h' = R
         \/ op.step = "start" /\ \E t \in {"SD_ID", "MMC_ID"} : h' = Start(h, h.ldo, 1, t)
         \/ \E t \in Timings : h' = SetupClock(h, t)
         \/ op.step = "lv_rail" /\ h' = LowerRail(h)
         \/ h' = SetBusWidth(R, 4) \/ h' = SetBusWidth(h, 8)
         \/ h' = Tuned(h) \/ h' = SaveTapValue(h) \/ h' = [h EXCEPT !.ck = TRUE]
<1>1. CASE CommonStep
  BY <1>1 DEF Walk, CommonStep, SdmmcInit, SdmmcStart, GoIdleState, GetCid, GetCsd, SelectCard,
      SetBlocklen, CheckStatus, CheckStatus2, CheckStatus3, TuningExecute,
      Done, Setting, Accepted, Failed, Command, DataCommand, Ask, R, Timings
<1>2. CASE SdStep
  BY <1>2 DEF SdStep, SendIfCond, SdGetOpCond, SwitchVoltage, EnableLowVoltage, GetRca,
      SetupDs12, ClrCardDetect, GetScr, SetBusWidth4, SwitchGet, SetCurrentLimit, SwitchCheck,
      SwitchSet, SetupUhs, SetupHs25, GetSsr, UhsTiming, UhsMode,
      Done, Setting, Accepted, Failed, Command, DataCommand, Ask, R, Timings
<1>3. CASE MmcStep
  BY <1>3 DEF MmcStep, MmcGetOpCond, SetRelativeAddr, SetupLs26, SwitchBuswidth,
      GetExtCsd, EnableHS200, EnableHS, EnableHS400,
      Done, Setting, Accepted, Failed, Command, DataCommand, Ask, R, Timings
<1>. QED
  BY <1>1, <1>2, <1>3 DEF Walk

\* What a step may tell the card.
LEMMA CardChanges ==
  ASSUME ShapeInv, Walk
  PROVE  \/ card' = card
         \/ op.step = "go_idle" /\ Talks /\ card' = Idled
         \/ op.step = "get_op_cond" /\ Talks /\ card.st = "idle" /\ card' = [card EXCEPT !.st = "ready"]
         \/ Talks /\ card.st = "ready" /\ card' = [card EXCEPT !.st = "ident"]
         \/ Talks /\ card.st = "ident" /\ card' = [card EXCEPT !.st = "stby"]
         \/ Talks /\ card.st = "stby" /\ card' = [card EXCEPT !.st = "tran"]
         \/ /\ op.step = "switch_voltage" /\ Talks /\ card.st = "ready"
            /\ card' = [card EXCEPT !.sig = "1.8", !.mode = "SDR12"]
         \/ card.st = "tran" /\ \E w \in Widths : card' = [card EXCEPT !.width = w]
         \/ card.st = "tran" /\ \E m \in Modes : card' = [card EXCEPT !.mode = m]
<1>1. CASE CommonStep
  BY <1>1 DEF Walk, CommonStep, SdmmcInit, SdmmcStart, GoIdleState, GetCid, GetCsd, SelectCard,
      SetBlocklen, CheckStatus, CheckStatus2, CheckStatus3, TuningExecute,
      Done, Setting, Accepted, Failed, Command, DataCommand, Ask
<1>2. CASE SdStep
  <2>1. UhsMode \in Modes /\ "HS" \in Modes /\ 4 \in Widths
    BY DEF UhsMode, Modes, Widths
  <2>. QED
    BY <1>2, <2>1 DEF SdStep, SendIfCond, SdGetOpCond, SwitchVoltage, EnableLowVoltage, GetRca,
      SetupDs12, ClrCardDetect, GetScr, SetBusWidth4, SwitchGet, SetCurrentLimit, SwitchCheck,
      SwitchSet, SetupUhs, SetupHs25, GetSsr,
      Done, Setting, Accepted, Failed, Command, DataCommand, Ask
<1>3. CASE MmcStep
  BY <1>3 DEF MmcStep, MmcGetOpCond, SetRelativeAddr, SetupLs26, SwitchBuswidth,
      GetExtCsd, EnableHS200, EnableHS, EnableHS400,
      Done, Setting, Accepted, Failed, Command, DataCommand, Ask, Modes, Widths
<1>. QED
  BY <1>1, <1>2, <1>3 DEF Walk

\* A step of an initialisation never declares the storage usable.
LEMMA StoreChanges ==
  ASSUME ShapeInv, Walk
  PROVE  store' \in Records /\ store'.init = store.init
<1>0. store \in Records
  BY DEF ShapeInv, Records
<1>1. \/ store' = store
      \/ store' = [store EXCEPT !.sdsc = TRUE]
      \/ store' = [store EXCEPT !.s18 = UhsSupport /\ ~store.sdsc /\ cap.uhs /\ card.sig = "3.3"]
      \/ store' = [store EXCEPT !.s18 = FALSE]
      \/ store' = [store EXCEPT !.low = TRUE]
  <2>1. CASE CommonStep
    BY <2>1 DEF Walk, CommonStep, SdmmcInit, SdmmcStart, GoIdleState, GetCid, GetCsd, SelectCard,
      SetBlocklen, CheckStatus, CheckStatus2, CheckStatus3, TuningExecute,
      Done, Setting, Accepted, Failed, Command, DataCommand, Ask
  <2>2. CASE SdStep
    BY <2>2 DEF SdStep, SendIfCond, SdGetOpCond, SwitchVoltage, EnableLowVoltage, GetRca,
      SetupDs12, ClrCardDetect, GetScr, SetBusWidth4, SwitchGet, SetCurrentLimit, SwitchCheck,
      SwitchSet, SetupUhs, SetupHs25, GetSsr,
      Done, Setting, Accepted, Failed, Command, DataCommand, Ask
  <2>3. CASE MmcStep
    BY <2>3 DEF MmcStep, MmcGetOpCond, SetRelativeAddr, SetupLs26, SwitchBuswidth,
      GetExtCsd, EnableHS200, EnableHS, EnableHS400,
      Done, Setting, Accepted, Failed, Command, DataCommand, Ask
  <2>. QED
    BY <2>1, <2>2, <2>3 DEF Walk
<1>2. (UhsSupport /\ ~store.sdsc /\ cap.uhs /\ card.sig = "3.3") \in BOOLEAN
  OBVIOUS
<1>. QED
  BY <1>0, <1>1, <1>2 DEF Records

\* What no step of an initialisation changes about the controller.
LEMMA HostStays ==
  ASSUME ShapeInv, Walk
  PROVE  /\ h' \in HostShape /\ h'.id = h.id /\ h'.vdd = h.vdd /\ h'.dis = h.dis
         /\ h'.stopped = h.stopped /\ (Plls(h) => Plls(h'))
         /\ op.step # "start" => h'.en = h.en
         /\ h'.ldo = h.ldo \/ (op.step = "lv_rail" /\ h'.ldo = "1.8")
<1>0. h \in HostShape /\ h.ldo \in Levels
  BY HostFields DEF ShapeInv
<1>1. CASE h' = R
  BY <1>0, <1>1, RecalibrateDoes DEF R, SameRails, Plls
<1>2. CASE op.step = "start" /\ \E t \in {"SD_ID", "MMC_ID"} : h' = Start(h, h.ldo, 1, t)
  <2>1. PICK t \in {"SD_ID", "MMC_ID"} : h' = Start(h, h.ldo, 1, t)
    BY <1>2
  <2>2. t \in Timings /\ t # "MMC_HS400"
    BY DEF Timings
  <2>. QED
    BY <1>0, <1>2, <2>1, <2>2, StartDoes
<1>3. CASE \E t \in Timings : h' = SetupClock(h, t)
  BY <1>0, <1>3, SetupClockDoes DEF Stays
<1>4. CASE op.step = "lv_rail" /\ h' = LowerRail(h)
  BY <1>0, <1>4, LowerRailDoes DEF Level, Plls
<1>5. CASE h' = SetBusWidth(R, 4) \/ h' = SetBusWidth(h, 8)
  <2>1. R \in HostShape /\ SameRails(h, R)
    BY <1>0, RecalibrateDoes DEF R
  <2>2. h' \in HostShape /\ (SameRails(R, h') \/ SameRails(h, h'))
    BY <1>0, <1>5, <2>1, WidthDoes DEF Widths
  <2>. QED
    BY <2>1, <2>2 DEF SameRails, Plls
<1>6. CASE h' = Tuned(h) \/ h' = SaveTapValue(h) \/ h' = [h EXCEPT !.ck = TRUE]
  <2>1. h' \in HostShape /\ SameRails(h, h')
    BY <1>0, <1>6, TunedDoes, SaveTapDoes, ClockDoes
  <2>. QED
    BY <2>1 DEF SameRails, Plls
<1>. QED
  BY HostChanges, <1>1, <1>2, <1>3, <1>4, <1>5, <1>6
=============================================================================
