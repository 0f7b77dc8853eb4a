--------------------------- MODULE SdSessionProofs ---------------------------
(***************************************************************************)
(* SessionInv holds in every reachable state of SdSession, and with it     *)
(* what the program promises of a card: the two sides agree, no level is   *)
(* exceeded, transfers are whole and the slot ends dark.                   *)
(***************************************************************************)
EXTENDS SdStepProofs

(***************************************************************************)
(* The controller along the SD card's way.                                 *)
(***************************************************************************)
\* A command leaves level and timing as they are.
LEMMA RKeeps ==
  ASSUME h \in HostShape, h' = R
  PROVE  /\ h' \in HostShape /\ SameRails(h, h') /\ SameTiming(h, h')
         /\ h'.width = h.width /\ h'.tap = h.tap /\ h'.saved = h.saved
         /\ \A l : Level(h, l) => Level(h', l)
         /\ \A t : TimedFor(h, t) => TimedFor(h', t)
<1>1. /\ h' \in HostShape /\ SameRails(h, h') /\ SameTiming(h, h') /\ h'.cal \in {h.cal, h.io}
      /\ h'.width = h.width /\ h'.tap = h.tap /\ h'.saved = h.saved
  BY RecalibrateDoes DEF R
<1>2. \A l : Level(h, l) => Level(h', l)
  BY <1>1 DEF Level, SameRails
<1>3. \A t : TimedFor(h, t) => TimedFor(h', t)
  BY <1>1 DEF TimedFor, SameTiming
<1>. QED
  BY <1>1, <1>2, <1>3

\* A clock set-up leaves the level as it is.
LEMMA ClockKeeps ==
  ASSUME h \in HostShape, NEW t \in Timings, h' = SetupClock(h, t)
  PROVE  /\ h' \in HostShape /\ TimedFor(h', t) /\ Stays(h, h')
         /\ t # "MMC_HS400" => h'.tap = "static"
         /\ \A l : Level(h, l) => Level(h', l)
<1>1. /\ h' \in HostShape /\ TimedFor(h', t) /\ Stays(h, h')
      /\ t # "MMC_HS400" => h'.tap = "static"
  BY SetupClockDoes
<1>2. \A l : Level(h, l) => Level(h', l)
  BY <1>1 DEF Level, Stays
<1>. QED
  BY <1>1, <1>2

\* Where an SD card's initialisation goes.
SdWay == (CommonSteps \cup SdOnly) \ {"sdmmc_init", "start"}

\* HostInv along the SD card's way, one step of it at a time.
LEMMA SdSuccess ==
  ASSUME SessionInv, cap.kind = "sd", Walk, op'.step # "failed"
  PROVE  HostInv' /\ op'.step \in SdWay
<1>. USE DEF SessionInv
<1>1. op.step \in Steps /\ op.step \notin MmcOnly /\ cap' = cap /\ op'.step = Following(op.step, store') /\ swaps' = swaps
  BY Walks DEF HostInv, env
<1>2. store' \in Records /\ SdGoes(op.step) /\ h \in HostShape /\ cap \in CardShape
  BY StoreChanges, SdGoesOn, CardsAssumption DEF ShapeInv
<1>3. SdAfter(op.step, store')
  BY <1>1, <1>2, SdFollowing
<1>4. SdHostAt(op.step) /\ (swaps = 0 => SdToldAt(op.step))
  BY DEF HostInv, ToldInv
<1>5. store.low \in BOOLEAN /\ store.s18 \in BOOLEAN
  BY DEF ShapeInv
<1>6. SUFFICES op'.step \in SdWay /\ SdHostAt(op.step)'
  BY <1>1 DEF HostInv, SdWay, CommonSteps, SdOnly, MmcOnly
<1>r. h' = R => /\ SameRails(h, h') /\ SameTiming(h, h')
                /\ h'.width = h.width /\ h'.tap = h.tap
                /\ \A l : Level(h, l) => Level(h', l)
                /\ \A t : TimedFor(h, t) => TimedFor(h', t)
  BY <1>2, RKeeps
<1>t. \A t \in Timings : h' = SetupClock(h, t) =>
         /\ TimedFor(h', t) /\ Stays(h, h')
         /\ t # "MMC_HS400" => h'.tap = "static"
         /\ \A l : Level(h, l) => Level(h', l)
  BY <1>2, ClockKeeps
<1>s. h' = Start(h, h.ldo, 1, "SD_ID") =>
         /\ TimedFor(h', "SD_ID") /\ h'.width = 1 /\ h'.ldo = h.ldo /\ h'.io = h.ldo
         /\ h'.cal = h.cal /\ h'.ofs = h.ofs
  <2>1. h.ldo \in Levels /\ "SD_ID" \in Timings
    BY <1>2, HostFields DEF Timings
  <2>. QED
    BY <2>1, <1>2, StartDoes
<1>l. h' = LowerRail(h) =>
         Level(h', "1.8") /\ h'.width = h.width /\ (TimedFor(h, "SDR12") => TimedFor(h', "SDR12"))
  BY <1>2, LowerRailDoes DEF SameTiming, TimedFor
<1>k. h' = [h EXCEPT !.ck = TRUE] =>
         /\ h'.width = h.width /\ (Level(h, "1.8") => Level(h', "1.8"))
         /\ TimedFor(h, "SDR12") => TimedFor(h', "SDR12")
  BY <1>2, ClockDoes DEF SameTiming, TimedFor, SameRails, Level
<1>w. h' = SetBusWidth(R, 4) =>
         /\ h'.width = 4 /\ SameRails(h, h') /\ SameTiming(h, h') /\ h'.tap = h.tap
         /\ \A l : Level(h, l) => Level(h', l)
         /\ \A t : TimedFor(h, t) => TimedFor(h', t)
  BY <1>2, RecalibrateDoes, WidthDoes DEF R, SameTiming, TimedFor, SameRails, Level, Widths
<1>u. h' = Tuned(h) =>
         /\ h'.width = h.width /\ SameRails(h, h') /\ SameTiming(h, h') /\ h'.tap = "tuned"
         /\ \A l : Level(h, l) => Level(h', l)
         /\ \A t : TimedFor(h, t) => TimedFor(h', t)
  BY <1>2, TunedDoes DEF SameTiming, TimedFor, SameRails, Level
<1>m. UhsTiming \in Timings /\ UhsTiming # "MMC_HS400" /\ {"SDR12", "SD_DS12", "SD_HS25"} \subseteq Timings
  BY DEF UhsTiming, UhsMode, Timings
<1>e. cap' = cap /\ UhsMode' = UhsMode /\ UhsTiming' = UhsTiming
  BY <1>1 DEF UhsMode, UhsTiming
<1>7. op.step \notin {"sdmmc_init", "ready"}
  BY Walks
<1>c. card \in CardStates /\ store \in Records
  BY DEF ShapeInv, Records
<1>8. CASE op.step = "start"
  <2>1. SdGoes("start") /\ SdAfter("start", store') /\ SdHostAt("start")
    BY <1>8, <1>2, <1>3, <1>4
  <2>2. h.ldo = "3.3" /\ h.cal = "3.3" /\ h.ofs = "3.3" /\ ~store.low
    BY <2>1, <1>5 DEF SdHostAt, Identifying, Switching, Asking, Selected
  <2>3. h' = Start(h, h.ldo, 1, "SD_ID") /\ card' = card /\ store' = store
    BY <1>8, <2>1, <2>2, <1>1, <1>5, <1>c DEF SdGoes, SdAfter, Records
  <2>4. op'.step = "go_idle"
    BY <1>8, <2>1, <2>2, <2>3, <1>1, <1>5, <1>c DEF SdAfter, Records
  <2>5. Level(h', "3.3") /\ TimedFor(h', "SD_ID") /\ ~store'.low /\ h'.width = 1
    BY <2>2, <2>3, <1>s, <1>5, <1>m DEF Stays, SameRails, Level
  <2>6. SdHostAt(op.step)' /\ op'.step \in SdWay
    BY ONLY <2>2, <2>3, <2>4, <2>5, <1>5, <1>e DEF SdHostAt, Identifying, Switching, Asking, Selected, SdWay, CommonSteps, SdOnly
  <2>. QED
    BY <2>6
<1>9. CASE op.step = "go_idle"
  <2>1. SdGoes("go_idle") /\ SdAfter("go_idle", store') /\ SdHostAt("go_idle")
    BY <1>9, <1>2, <1>3, <1>4
  <2>2. Level(h, "3.3") /\ TimedFor(h, "SD_ID") /\ ~store.low /\ h.width = 1
    BY <2>1, <1>5 DEF SdHostAt, Identifying, Switching, Asking, Selected
  <2>3. h' = R /\ store' = store
    BY <1>9, <2>1, <2>2, <1>1, <1>5, <1>c DEF SdGoes, SdAfter, Records
  <2>4. op'.step = "send_if_cond"
    BY <1>9, <2>1, <2>2, <2>3, <1>1, <1>5, <1>c DEF SdAfter, Records
  <2>5. Level(h', "3.3") /\ TimedFor(h', "SD_ID") /\ ~store'.low /\ h'.width = 1
    BY <2>2, <2>3, <1>r, <1>5, <1>m DEF Stays, SameRails, Level
  <2>6. SdHostAt(op.step)' /\ op'.step \in SdWay
    BY ONLY <2>2, <2>3, <2>4, <2>5, <1>5, <1>e DEF SdHostAt, Identifying, Switching, Asking, Selected, SdWay, CommonSteps, SdOnly
  <2>. QED
    BY <2>6
<1>10. CASE op.step = "send_if_cond"
  <2>1. SdGoes("send_if_cond") /\ SdAfter("send_if_cond", store') /\ SdHostAt("send_if_cond")
    BY <1>10, <1>2, <1>3, <1>4
  <2>2. Level(h, "3.3") /\ TimedFor(h, "SD_ID") /\ ~store.low /\ h.width = 1
    BY <2>1, <1>5 DEF SdHostAt, Identifying, Switching, Asking, Selected
  <2>3. h' = R /\ store'.low = store.low
    BY <1>10, <2>1, <2>2, <1>1, <1>5, <1>c DEF SdGoes, SdAfter, Records
  <2>4. op'.step = "get_op_cond"
    BY <1>10, <2>1, <2>2, <2>3, <1>1, <1>5, <1>c DEF SdAfter, Records
  <2>5. Level(h', "3.3") /\ TimedFor(h', "SD_ID") /\ ~store'.low /\ h'.width = 1
    BY <2>2, <2>3, <1>r, <1>5, <1>m DEF Stays, SameRails, Level
  <2>6. SdHostAt(op.step)' /\ op'.step \in SdWay
    BY ONLY <2>2, <2>3, <2>4, <2>5, <1>5, <1>e DEF SdHostAt, Identifying, Switching, Asking, Selected, SdWay, CommonSteps, SdOnly
  <2>. QED
    BY <2>6
<1>11. CASE op.step = "get_op_cond"
  <2>1. SdGoes("get_op_cond") /\ SdAfter("get_op_cond", store') /\ SdHostAt("get_op_cond")
    BY <1>11, <1>2, <1>3, <1>4
  <2>2. Level(h, "3.3") /\ TimedFor(h, "SD_ID") /\ ~store.low /\ h.width = 1
    BY <2>1, <1>5 DEF SdHostAt, Identifying, Switching, Asking, Selected
  <2>3. h' = R /\ store'.low = store.low /\ (op'.step = "switch_voltage" => store'.s18)
    BY <1>11, <2>1, <2>2, <1>1, <1>5, <1>c DEF SdGoes, SdAfter, Records
  <2>4. op'.step \in {"switch_voltage", "get_cid"}
    BY <1>11, <2>1, <2>2, <2>3, <1>1, <1>5, <1>c DEF SdAfter, Records
  <2>5. Level(h', "3.3") /\ TimedFor(h', "SD_ID") /\ ~store'.low /\ h'.width = 1
    BY <2>2, <2>3, <1>r, <1>5, <1>m DEF Stays, SameRails, Level
  <2>6. SdHostAt(op.step)' /\ op'.step \in SdWay
    BY ONLY <2>2, <2>3, <2>4, <2>5, <1>5, <1>e DEF SdHostAt, Identifying, Switching, Asking, Selected, SdWay, CommonSteps, SdOnly
  <2>. QED
    BY <2>6
<1>12. CASE op.step = "switch_voltage"
  <2>1. SdGoes("switch_voltage") /\ SdAfter("switch_voltage", store') /\ SdHostAt("switch_voltage")
    BY <1>12, <1>2, <1>3, <1>4
  <2>2. Level(h, "3.3") /\ TimedFor(h, "SD_ID") /\ ~store.low /\ h.width = 1 /\ store.s18
    BY <2>1, <1>5 DEF SdHostAt, Identifying, Switching, Asking, Selected
  <2>3. h' = R /\ store'.low = store.low /\ (op'.step = "lv_clock" => store'.s18)
    BY <1>12, <2>1, <2>2, <1>1, <1>5, <1>c DEF SdGoes, SdAfter, Records
  <2>4. op'.step \in {"lv_clock", "get_cid"}
    BY <1>12, <2>1, <2>2, <2>3, <1>1, <1>5, <1>c DEF SdAfter, Records
  <2>5. Level(h', "3.3") /\ TimedFor(h', "SD_ID") /\ ~store'.low /\ h'.width = 1
    BY <2>2, <2>3, <1>r, <1>5, <1>m DEF Stays, SameRails, Level
  <2>6. SdHostAt(op.step)' /\ op'.step \in SdWay
    BY ONLY <2>2, <2>3, <2>4, <2>5, <1>5, <1>e DEF SdHostAt, Identifying, Switching, Asking, Selected, SdWay, CommonSteps, SdOnly
  <2>. QED
    BY <2>6
<1>13. CASE op.step = "lv_clock"
  <2>1. SdGoes("lv_clock") /\ SdAfter("lv_clock", store') /\ SdHostAt("lv_clock")
    BY <1>13, <1>2, <1>3, <1>4
  <2>2. Level(h, "3.3") /\ TimedFor(h, "SD_ID") /\ ~store.low /\ h.width = 1 /\ store.s18
    BY <2>1, <1>5 DEF SdHostAt, Identifying, Switching, Asking, Selected
  <2>3. h' = SetupClock(h, "SDR12") /\ card' = card /\ store' = store
    BY <1>13, <2>1, <2>2, <1>1, <1>5, <1>c DEF SdGoes, SdAfter, Records
  <2>4. op'.step = "lv_rail"
    BY <1>13, <2>1, <2>2, <2>3, <1>1, <1>5, <1>c DEF SdAfter, Records
  <2>5. h'.ldo = "3.3" /\ TimedFor(h', "SDR12") /\ ~store'.low /\ h'.width = 1 /\ store'.s18
    BY <2>2, <2>3, <1>t, <1>5, <1>m DEF Stays, SameRails, Level
  <2>6. SdHostAt(op.step)' /\ op'.step \in SdWay
    BY ONLY <2>2, <2>3, <2>4, <2>5, <1>5, <1>e DEF SdHostAt, Identifying, Switching, Asking, Selected, SdWay, CommonSteps, SdOnly
  <2>. QED
    BY <2>6
<1>14. CASE op.step = "lv_rail"
  <2>1. SdGoes("lv_rail") /\ SdAfter("lv_rail", store') /\ SdHostAt("lv_rail")
    BY <1>14, <1>2, <1>3, <1>4
  <2>2. h.ldo = "3.3" /\ TimedFor(h, "SDR12") /\ ~store.low /\ h.width = 1 /\ store.s18
    BY <2>1, <1>5 DEF SdHostAt, Identifying, Switching, Asking, Selected
  <2>3. h' = LowerRail(h) /\ card' = card /\ store' = store
    BY <1>14, <2>1, <2>2, <1>1, <1>5, <1>c DEF SdGoes, SdAfter, Records
  <2>4. op'.step = "lv_check"
    BY <1>14, <2>1, <2>2, <2>3, <1>1, <1>5, <1>c DEF SdAfter, Records
  <2>5. Level(h', "1.8") /\ TimedFor(h', "SDR12") /\ h'.width = 1 /\ ~store'.low /\ store'.s18
    BY <2>2, <2>3, <1>l, <1>5, <1>m DEF Stays, SameRails, Level
  <2>6. SdHostAt(op.step)' /\ op'.step \in SdWay
    BY ONLY <2>2, <2>3, <2>4, <2>5, <1>5, <1>e DEF SdHostAt, Identifying, Switching, Asking, Selected, SdWay, CommonSteps, SdOnly
  <2>. QED
    BY <2>6
<1>15. CASE op.step = "lv_check"
  <2>1. SdGoes("lv_check") /\ SdAfter("lv_check", store') /\ SdHostAt("lv_check")
    BY <1>15, <1>2, <1>3, <1>4
  <2>2. Level(h, "1.8") /\ TimedFor(h, "SDR12") /\ h.width = 1
    BY <2>1, <1>5 DEF SdHostAt, Identifying, Switching, Asking, Selected
  <2>3. h' = [h EXCEPT !.ck = TRUE] /\ card' = card /\ store'.low
    BY <1>15, <2>1, <2>2, <1>1, <1>5, <1>c DEF SdGoes, SdAfter, Records
  <2>4. op'.step = "get_cid"
    BY <1>15, <2>1, <2>2, <2>3, <1>1, <1>5, <1>c DEF SdAfter, Records
  <2>5. Level(h', "1.8") /\ TimedFor(h', "SDR12") /\ h'.width = 1 /\ store'.low
    BY <2>2, <2>3, <1>k, <1>5, <1>m DEF Stays, SameRails, Level
  <2>6. SdHostAt(op.step)' /\ op'.step \in SdWay
    BY ONLY <2>2, <2>3, <2>4, <2>5, <1>5, <1>e DEF SdHostAt, Identifying, Switching, Asking, Selected, SdWay, CommonSteps, SdOnly
  <2>. QED
    BY <2>6
<1>16. CASE op.step = "get_cid"
  <2>1. SdGoes("get_cid") /\ SdAfter("get_cid", store') /\ SdHostAt("get_cid")
    BY <1>16, <1>2, <1>3, <1>4
  <2>2. (IF store.low THEN Level(h, "1.8") /\ TimedFor(h, "SDR12") ELSE Level(h, "3.3") /\ TimedFor(h, "SD_ID")) /\ h.width = 1
    BY <2>1, <1>5 DEF SdHostAt, Identifying, Switching, Asking, Selected
  <2>3. h' = R /\ store' = store
    BY <1>16, <2>1, <2>2, <1>1, <1>5, <1>c DEF SdGoes, SdAfter, Records
  <2>4. op'.step = "get_rca"
    BY <1>16, <2>1, <2>2, <2>3, <1>1, <1>5, <1>c DEF SdAfter, Records
  <2>5. (IF store'.low THEN Level(h', "1.8") /\ TimedFor(h', "SDR12") ELSE Level(h', "3.3") /\ TimedFor(h', "SD_ID")) /\ h'.width = 1
    BY <2>2, <2>3, <1>r, <1>5, <1>m DEF Stays, SameRails, Level
  <2>6. SdHostAt(op.step)' /\ op'.step \in SdWay
    BY ONLY <2>2, <2>3, <2>4, <2>5, <1>5, <1>e DEF SdHostAt, Identifying, Switching, Asking, Selected, SdWay, CommonSteps, SdOnly
  <2>. QED
    BY <2>6
<1>17. CASE op.step = "get_rca"
  <2>1. SdGoes("get_rca") /\ SdAfter("get_rca", store') /\ SdHostAt("get_rca")
    BY <1>17, <1>2, <1>3, <1>4
  <2>2. (IF store.low THEN Level(h, "1.8") /\ TimedFor(h, "SDR12") ELSE Level(h, "3.3") /\ TimedFor(h, "SD_ID")) /\ h.width = 1
    BY <2>1, <1>5 DEF SdHostAt, Identifying, Switching, Asking, Selected
  <2>3. h' = R /\ store' = store
    BY <1>17, <2>1, <2>2, <1>1, <1>5, <1>c DEF SdGoes, SdAfter, Records
  <2>4. op'.step = "get_csd"
    BY <1>17, <2>1, <2>2, <2>3, <1>1, <1>5, <1>c DEF SdAfter, Records
  <2>5. (IF store'.low THEN Level(h', "1.8") /\ TimedFor(h', "SDR12") ELSE Level(h', "3.3") /\ TimedFor(h', "SD_ID")) /\ h'.width = 1
    BY <2>2, <2>3, <1>r, <1>5, <1>m DEF Stays, SameRails, Level
  <2>6. SdHostAt(op.step)' /\ op'.step \in SdWay
    BY ONLY <2>2, <2>3, <2>4, <2>5, <1>5, <1>e DEF SdHostAt, Identifying, Switching, Asking, Selected, SdWay, CommonSteps, SdOnly
  <2>. QED
    BY <2>6
<1>18. CASE op.step = "get_csd"
  <2>1. SdGoes("get_csd") /\ SdAfter("get_csd", store') /\ SdHostAt("get_csd")
    BY <1>18, <1>2, <1>3, <1>4
  <2>2. (IF store.low THEN Level(h, "1.8") /\ TimedFor(h, "SDR12") ELSE Level(h, "3.3") /\ TimedFor(h, "SD_ID")) /\ h.width = 1
    BY <2>1, <1>5 DEF SdHostAt, Identifying, Switching, Asking, Selected
  <2>3. h' = R /\ store' = store /\ (op'.step = "select_card" <=> store.low)
    BY <1>18, <2>1, <2>2, <1>1, <1>5, <1>c DEF SdGoes, SdAfter, Records
  <2>4. op'.step \in {"select_card", "setup_ds12"}
    BY <1>18, <2>1, <2>2, <2>3, <1>1, <1>5, <1>c DEF SdAfter, Records
  <2>5. (IF store'.low THEN Level(h', "1.8") /\ TimedFor(h', "SDR12") ELSE Level(h', "3.3") /\ TimedFor(h', "SD_ID")) /\ h'.width = 1
    BY <2>2, <2>3, <1>r, <1>5, <1>m DEF Stays, SameRails, Level
  <2>6. SdHostAt(op.step)' /\ op'.step \in SdWay
    BY ONLY <2>2, <2>3, <2>4, <2>5, <1>5, <1>e DEF SdHostAt, Identifying, Switching, Asking, Selected, SdWay, CommonSteps, SdOnly
  <2>. QED
    BY <2>6
<1>19. CASE op.step = "setup_ds12"
  <2>1. SdGoes("setup_ds12") /\ SdAfter("setup_ds12", store') /\ SdHostAt("setup_ds12")
    BY <1>19, <1>2, <1>3, <1>4
  <2>2. ~store.low /\ Level(h, "3.3") /\ h.width = 1
    BY <2>1, <1>5 DEF SdHostAt, Identifying, Switching, Asking, Selected
  <2>3. h' = SetupClock(h, "SD_DS12") /\ card' = card /\ store' = store
    BY <1>19, <2>1, <2>2, <1>1, <1>5, <1>c DEF SdGoes, SdAfter, Records
  <2>4. op'.step = "select_card"
    BY <1>19, <2>1, <2>2, <2>3, <1>1, <1>5, <1>c DEF SdAfter, Records
  <2>5. (IF store'.low THEN Level(h', "1.8") /\ TimedFor(h', "SDR12") ELSE Level(h', "3.3") /\ TimedFor(h', "SD_DS12")) /\ h'.width = 1
    BY <2>2, <2>3, <1>t, <1>5, <1>m DEF Stays, SameRails, Level
  <2>6. SdHostAt(op.step)' /\ op'.step \in SdWay
    BY ONLY <2>2, <2>3, <2>4, <2>5, <1>5, <1>e DEF SdHostAt, Identifying, Switching, Asking, Selected, SdWay, CommonSteps, SdOnly
  <2>. QED
    BY <2>6
<1>20. CASE op.step = "select_card"
  <2>1. SdGoes("select_card") /\ SdAfter("select_card", store') /\ SdHostAt("select_card")
    BY <1>20, <1>2, <1>3, <1>4
  <2>2. (IF store.low THEN Level(h, "1.8") /\ TimedFor(h, "SDR12") ELSE Level(h, "3.3") /\ TimedFor(h, "SD_DS12")) /\ h.width = 1
    BY <2>1, <1>5 DEF SdHostAt, Identifying, Switching, Asking, Selected
  <2>3. h' = R /\ store' = store /\ card' = [card EXCEPT !.st = "tran"] /\ Talks /\ card.st = "stby"
    BY <1>20, <2>1, <2>2, <1>1, <1>5, <1>c DEF SdGoes, SdAfter, Records
  <2>4. op'.step = "set_blocklen"
    BY <1>20, <2>1, <2>2, <2>3, <1>1, <1>5, <1>c DEF SdAfter, Records
  <2>5. (IF store'.low THEN Level(h', "1.8") /\ TimedFor(h', "SDR12") ELSE Level(h', "3.3") /\ TimedFor(h', "SD_DS12")) /\ h'.width = 1
    BY <2>2, <2>3, <1>r, <1>5, <1>m DEF Stays, SameRails, Level
  <2>6. SdHostAt(op.step)' /\ op'.step \in SdWay
    BY ONLY <2>2, <2>3, <2>4, <2>5, <1>5, <1>e DEF SdHostAt, Identifying, Switching, Asking, Selected, SdWay, CommonSteps, SdOnly
  <2>. QED
    BY <2>6
<1>21. CASE op.step = "set_blocklen"
  <2>1. SdGoes("set_blocklen") /\ SdAfter("set_blocklen", store') /\ SdHostAt("set_blocklen")
    BY <1>21, <1>2, <1>3, <1>4
  <2>2. (IF store.low THEN Level(h, "1.8") /\ TimedFor(h, "SDR12") ELSE Level(h, "3.3") /\ TimedFor(h, "SD_DS12"))
    BY <2>1, <1>5 DEF SdHostAt, Identifying, Switching, Asking, Selected
  <2>3. h' = R /\ card' = card /\ store' = store
    BY <1>21, <2>1, <2>2, <1>1, <1>5, <1>c DEF SdGoes, SdAfter, Records
  <2>4. op'.step = "clr_card_detect"
    BY <1>21, <2>1, <2>2, <2>3, <1>1, <1>5, <1>c DEF SdAfter, Records
  <2>5. (IF store'.low THEN Level(h', "1.8") /\ TimedFor(h', "SDR12") ELSE Level(h', "3.3") /\ TimedFor(h', "SD_DS12"))
    BY <2>2, <2>3, <1>r, <1>5, <1>m DEF Stays, SameRails, Level
  <2>6. SdHostAt(op.step)' /\ op'.step \in SdWay
    BY ONLY <2>2, <2>3, <2>4, <2>5, <1>5, <1>e DEF SdHostAt, Identifying, Switching, Asking, Selected, SdWay, CommonSteps, SdOnly
  <2>. QED
    BY <2>6
<1>22. CASE op.step = "clr_card_detect"
  <2>1. SdGoes("clr_card_detect") /\ SdAfter("clr_card_detect", store') /\ SdHostAt("clr_card_detect")
    BY <1>22, <1>2, <1>3, <1>4
  <2>2. (IF store.low THEN Level(h, "1.8") /\ TimedFor(h, "SDR12") ELSE Level(h, "3.3") /\ TimedFor(h, "SD_DS12"))
    BY <2>1, <1>5 DEF SdHostAt, Identifying, Switching, Asking, Selected
  <2>3. h' = R /\ card' = card /\ store' = store
    BY <1>22, <2>1, <2>2, <1>1, <1>5, <1>c DEF SdGoes, SdAfter, Records
  <2>4. op'.step = "get_scr"
    BY <1>22, <2>1, <2>2, <2>3, <1>1, <1>5, <1>c DEF SdAfter, Records
  <2>5. (IF store'.low THEN Level(h', "1.8") /\ TimedFor(h', "SDR12") ELSE Level(h', "3.3") /\ TimedFor(h', "SD_DS12"))
    BY <2>2, <2>3, <1>r, <1>5, <1>m DEF Stays, SameRails, Level
  <2>6. SdHostAt(op.step)' /\ op'.step \in SdWay
    BY ONLY <2>2, <2>3, <2>4, <2>5, <1>5, <1>e DEF SdHostAt, Identifying, Switching, Asking, Selected, SdWay, CommonSteps, SdOnly
  <2>. QED
    BY <2>6
<1>23. CASE op.step = "get_scr"
  <2>1. SdGoes("get_scr") /\ SdAfter("get_scr", store') /\ SdHostAt("get_scr")
    BY <1>23, <1>2, <1>3, <1>4
  <2>2. (IF store.low THEN Level(h, "1.8") /\ TimedFor(h, "SDR12") ELSE Level(h, "3.3") /\ TimedFor(h, "SD_DS12"))
    BY <2>1, <1>5 DEF SdHostAt, Identifying, Switching, Asking, Selected
  <2>3. (op'.step = "get_ssr" => ~store.low) /\ (op'.step = "switch_get" => store.low \/ ~cap.v10) /\ h' = R /\ card' = card /\ store' = store
    BY <1>23, <2>1, <2>2, <1>1, <1>5, <1>c DEF SdGoes, SdAfter, Records
  <2>4. op'.step \in {"set_bus_width", "switch_get", "get_ssr"}
    BY <1>23, <2>1, <2>2, <2>3, <1>1, <1>5, <1>c DEF SdAfter, Records
  <2>5. (IF store'.low THEN Level(h', "1.8") /\ TimedFor(h', "SDR12") ELSE Level(h', "3.3") /\ TimedFor(h', "SD_DS12"))
    BY <2>2, <2>3, <1>r, <1>5, <1>m DEF Stays, SameRails, Level
  <2>7. Level(h', h'.ldo) /\ h'.ldo # "off"
    BY <2>5 DEF Level
  <2>6. SdHostAt(op.step)' /\ op'.step \in SdWay
    BY ONLY <2>2, <2>3, <2>4, <2>5, <2>7, <1>5, <1>e DEF SdHostAt, Identifying, Switching, Asking, Selected, SdWay, CommonSteps, SdOnly
  <2>. QED
    BY <2>6
<1>24. CASE op.step = "set_bus_width"
  <2>1. SdGoes("set_bus_width") /\ SdAfter("set_bus_width", store') /\ SdHostAt("set_bus_width")
    BY <1>24, <1>2, <1>3, <1>4
  <2>2. (IF store.low THEN Level(h, "1.8") /\ TimedFor(h, "SDR12") ELSE Level(h, "3.3") /\ TimedFor(h, "SD_DS12"))
    BY <2>1, <1>5 DEF SdHostAt, Identifying, Switching, Asking, Selected
  <2>3. (op'.step = "get_ssr" => ~store.low) /\ (op'.step = "switch_get" => store.low \/ ~cap.v10) /\ h' = SetBusWidth(R, 4) /\ card' = [card EXCEPT !.width = 4] /\ store' = store
    BY <1>24, <2>1, <2>2, <1>1, <1>5, <1>c DEF SdGoes, SdAfter, Records
  <2>4. op'.step \in {"switch_get", "get_ssr"}
    BY <1>24, <2>1, <2>2, <2>3, <1>1, <1>5, <1>c DEF SdAfter, Records
  <2>5. (IF store'.low THEN Level(h', "1.8") /\ TimedFor(h', "SDR12") ELSE Level(h', "3.3") /\ TimedFor(h', "SD_DS12"))
    BY <2>2, <2>3, <1>w, <1>5, <1>m DEF Stays, SameRails, Level
  <2>7. Level(h', h'.ldo) /\ h'.ldo # "off"
    BY <2>5 DEF Level
  <2>6. SdHostAt(op.step)' /\ op'.step \in SdWay
    BY ONLY <2>2, <2>3, <2>4, <2>5, <2>7, <1>5, <1>e DEF SdHostAt, Identifying, Switching, Asking, Selected, SdWay, CommonSteps, SdOnly
  <2>. QED
    BY <2>6
<1>25. CASE op.step = "switch_get"
  <2>1. SdGoes("switch_get") /\ SdAfter("switch_get", store') /\ SdHostAt("switch_get")
    BY <1>25, <1>2, <1>3, <1>4
  <2>2. (IF store.low THEN Level(h, "1.8") /\ TimedFor(h, "SDR12") ELSE Level(h, "3.3") /\ TimedFor(h, "SD_DS12")) /\ (store.low \/ ~cap.v10)
    BY <2>1, <1>5 DEF SdHostAt, Identifying, Switching, Asking, Selected
  <2>3. h' = R /\ card' = card /\ store' = store
    BY <1>25, <2>1, <2>2, <1>1, <1>5, <1>c DEF SdGoes, SdAfter, Records
  <2>4. op'.step = "current_limit"
    BY <1>25, <2>1, <2>2, <2>3, <1>1, <1>5, <1>c DEF SdAfter, Records
  <2>5. (IF store'.low THEN Level(h', "1.8") /\ TimedFor(h', "SDR12") ELSE Level(h', "3.3") /\ TimedFor(h', "SD_DS12")) /\ (store'.low \/ ~cap.v10)
    BY <2>2, <2>3, <1>r, <1>5, <1>m DEF Stays, SameRails, Level
  <2>6. SdHostAt(op.step)' /\ op'.step \in SdWay
    BY ONLY <2>2, <2>3, <2>4, <2>5, <1>5, <1>e DEF SdHostAt, Identifying, Switching, Asking, Selected, SdWay, CommonSteps, SdOnly
  <2>. QED
    BY <2>6
<1>26. CASE op.step = "current_limit"
  <2>1. SdGoes("current_limit") /\ SdAfter("current_limit", store') /\ SdHostAt("current_limit")
    BY <1>26, <1>2, <1>3, <1>4
  <2>2. (IF store.low THEN Level(h, "1.8") /\ TimedFor(h, "SDR12") ELSE Level(h, "3.3") /\ TimedFor(h, "SD_DS12")) /\ (store.low \/ ~cap.v10)
    BY <2>1, <1>5 DEF SdHostAt, Identifying, Switching, Asking, Selected
  <2>3. (op'.step = "switch_check" <=> store.low \/ (~cap.v10 /\ cap.hs)) /\ h' = R /\ card' = card /\ store' = store
    BY <1>26, <2>1, <2>2, <1>1, <1>5, <1>c DEF SdGoes, SdAfter, Records
  <2>4. op'.step \in {"switch_check", "get_ssr"}
    BY <1>26, <2>1, <2>2, <2>3, <1>1, <1>5, <1>c DEF SdAfter, Records
  <2>5. (IF store'.low THEN Level(h', "1.8") /\ TimedFor(h', "SDR12") ELSE Level(h', "3.3") /\ TimedFor(h', "SD_DS12"))
    BY <2>2, <2>3, <1>r, <1>5, <1>m DEF Stays, SameRails, Level
  <2>7. Level(h', h'.ldo) /\ h'.ldo # "off"
    BY <2>5 DEF Level
  <2>6. SdHostAt(op.step)' /\ op'.step \in SdWay
    BY ONLY <2>2, <2>3, <2>4, <2>5, <2>7, <1>5, <1>e DEF SdHostAt, Identifying, Switching, Asking, Selected, SdWay, CommonSteps, SdOnly
  <2>. QED
    BY <2>6
<1>27. CASE op.step = "switch_check"
  <2>1. SdGoes("switch_check") /\ SdAfter("switch_check", store') /\ SdHostAt("switch_check")
    BY <1>27, <1>2, <1>3, <1>4
  <2>2. (IF store.low THEN Level(h, "1.8") /\ TimedFor(h, "SDR12") ELSE Level(h, "3.3") /\ TimedFor(h, "SD_DS12")) /\ (store.low \/ (~cap.v10 /\ cap.hs))
    BY <2>1, <1>5 DEF SdHostAt, Identifying, Switching, Asking, Selected
  <2>3. h' = R /\ card' = card /\ store' = store /\ (store.low => UhsMode \in cap.modes)
    BY <1>27, <2>1, <2>2, <1>1, <1>5, <1>c DEF SdGoes, SdAfter, Records
  <2>4. op'.step = "switch_set"
    BY <1>27, <2>1, <2>2, <2>3, <1>1, <1>5, <1>c DEF SdAfter, Records
  <2>5. (IF store'.low THEN Level(h', "1.8") /\ TimedFor(h', "SDR12") ELSE Level(h', "3.3") /\ TimedFor(h', "SD_DS12")) /\ (store'.low \/ (~cap.v10 /\ cap.hs))
    BY <2>2, <2>3, <1>r, <1>5, <1>m DEF Stays, SameRails, Level
  <2>6. SdHostAt(op.step)' /\ op'.step \in SdWay
    BY ONLY <2>2, <2>3, <2>4, <2>5, <1>5, <1>e DEF SdHostAt, Identifying, Switching, Asking, Selected, SdWay, CommonSteps, SdOnly
  <2>. QED
    BY <2>6
<1>28. CASE op.step = "switch_set"
  <2>1. SdGoes("switch_set") /\ SdAfter("switch_set", store') /\ SdHostAt("switch_set")
    BY <1>28, <1>2, <1>3, <1>4
  <2>2. (IF store.low THEN Level(h, "1.8") /\ TimedFor(h, "SDR12") ELSE Level(h, "3.3") /\ TimedFor(h, "SD_DS12")) /\ (store.low \/ (~cap.v10 /\ cap.hs))
    BY <2>1, <1>5 DEF SdHostAt, Identifying, Switching, Asking, Selected
  <2>3. (op'.step = "setup_uhs" <=> store.low) /\ h' = R /\ store' = store /\ card' = [card EXCEPT !.mode = IF store.low THEN UhsMode ELSE "HS"]
    BY <1>28, <2>1, <2>2, <1>1, <1>5, <1>c DEF SdGoes, SdAfter, Records
  <2>4. op'.step \in {"setup_uhs", "check_status"}
    BY <1>28, <2>1, <2>2, <2>3, <1>1, <1>5, <1>c DEF SdAfter, Records
  <2>5. (IF store'.low THEN Level(h', "1.8") /\ TimedFor(h', "SDR12") ELSE Level(h', "3.3") /\ TimedFor(h', "SD_DS12")) /\ (store'.low \/ (~cap.v10 /\ cap.hs))
    BY <2>2, <2>3, <1>r, <1>5, <1>m DEF Stays, SameRails, Level
  <2>6. SdHostAt(op.step)' /\ op'.step \in SdWay
    BY ONLY <2>2, <2>3, <2>4, <2>5, <1>5, <1>e DEF SdHostAt, Identifying, Switching, Asking, Selected, SdWay, CommonSteps, SdOnly
  <2>. QED
    BY <2>6
<1>29. CASE op.step = "setup_uhs"
  <2>1. SdGoes("setup_uhs") /\ SdAfter("setup_uhs", store') /\ SdHostAt("setup_uhs")
    BY <1>29, <1>2, <1>3, <1>4
  <2>2. store.low /\ Level(h, "1.8")
    BY <2>1, <1>5 DEF SdHostAt, Identifying, Switching, Asking, Selected
  <2>3. (op'.step = "tuning" <=> UhsMode \in {"SDR104", "SDR50"}) /\ h' = SetupClock(h, UhsTiming) /\ card' = card /\ store' = store
    BY <1>29, <2>1, <2>2, <1>1, <1>5, <1>c DEF SdGoes, SdAfter, Records
  <2>4. op'.step \in {"tuning", "check_status"}
    BY <1>29, <2>1, <2>2, <2>3, <1>1, <1>5, <1>c DEF SdAfter, Records
  <2>5. store'.low /\ Level(h', "1.8") /\ TimedFor(h', UhsTiming)
    BY <2>2, <2>3, <1>t, <1>5, <1>m DEF Stays, SameRails, Level
  <2>6. SdHostAt(op.step)' /\ op'.step \in SdWay
    BY ONLY <2>2, <2>3, <2>4, <2>5, <1>5, <1>e DEF SdHostAt, Identifying, Switching, Asking, Selected, SdWay, CommonSteps, SdOnly
  <2>. QED
    BY <2>6
<1>30. CASE op.step = "tuning"
  <2>1. SdGoes("tuning") /\ SdAfter("tuning", store') /\ SdHostAt("tuning")
    BY <1>30, <1>2, <1>3, <1>4
  <2>2. store.low /\ Level(h, "1.8") /\ TimedFor(h, UhsTiming)
    BY <2>1, <1>5 DEF SdHostAt, Identifying, Switching, Asking, Selected
  <2>3. h' = Tuned(h) /\ card' = card /\ store' = store
    BY <1>30, <2>1, <2>2, <1>1, <1>5, <1>c DEF SdGoes, SdAfter, Records
  <2>4. op'.step = "check_status"
    BY <1>30, <2>1, <2>2, <2>3, <1>1, <1>5, <1>c DEF SdAfter, Records
  <2>5. store'.low /\ Level(h', "1.8") /\ TimedFor(h', UhsTiming)
    BY <2>2, <2>3, <1>u, <1>5, <1>m DEF Stays, SameRails, Level
  <2>6. SdHostAt(op.step)' /\ op'.step \in SdWay
    BY ONLY <2>2, <2>3, <2>4, <2>5, <1>5, <1>e DEF SdHostAt, Identifying, Switching, Asking, Selected, SdWay, CommonSteps, SdOnly
  <2>. QED
    BY <2>6
<1>31. CASE op.step = "check_status"
  <2>1. SdGoes("check_status") /\ SdAfter("check_status", store') /\ SdHostAt("check_status")
    BY <1>31, <1>2, <1>3, <1>4
  <2>2. IF store.low THEN Level(h, "1.8") /\ TimedFor(h, UhsTiming) ELSE Level(h, "3.3") /\ TimedFor(h, "SD_DS12") /\ ~cap.v10 /\ cap.hs
    BY <2>1, <1>5 DEF SdHostAt, Identifying, Switching, Asking, Selected
  <2>3. (op'.step = "setup_hs25" <=> ~store.low /\ ~cap.v10 /\ cap.hs) /\ h' = R /\ card' = card /\ store' = store
    BY <1>31, <2>1, <2>2, <1>1, <1>5, <1>c DEF SdGoes, SdAfter, Records
  <2>4. op'.step \in {"setup_hs25", "get_ssr"}
    BY <1>31, <2>1, <2>2, <2>3, <1>1, <1>5, <1>c DEF SdAfter, Records
  <2>5. IF store'.low THEN Level(h', "1.8") /\ TimedFor(h', UhsTiming) ELSE Level(h', "3.3")
    BY <2>2, <2>3, <1>r, <1>5, <1>m DEF Stays, SameRails, Level
  <2>7. Level(h', h'.ldo) /\ h'.ldo # "off"
    BY <2>5 DEF Level
  <2>6. SdHostAt(op.step)' /\ op'.step \in SdWay
    BY ONLY <2>2, <2>3, <2>4, <2>5, <2>7, <1>5, <1>e DEF SdHostAt, Identifying, Switching, Asking, Selected, SdWay, CommonSteps, SdOnly
  <2>. QED
    BY <2>6
<1>32. CASE op.step = "setup_hs25"
  <2>1. SdGoes("setup_hs25") /\ SdAfter("setup_hs25", store') /\ SdHostAt("setup_hs25")
    BY <1>32, <1>2, <1>3, <1>4
  <2>2. ~store.low /\ Level(h, "3.3")
    BY <2>1, <1>5 DEF SdHostAt, Identifying, Switching, Asking, Selected
  <2>3. h' = SetupClock(h, "SD_HS25") /\ card' = card /\ store' = store
    BY <1>32, <2>1, <2>2, <1>1, <1>5, <1>c DEF SdGoes, SdAfter, Records
  <2>4. op'.step = "get_ssr"
    BY <1>32, <2>1, <2>2, <2>3, <1>1, <1>5, <1>c DEF SdAfter, Records
  <2>5. ~store'.low /\ Level(h', "3.3") /\ TimedFor(h', "SD_HS25")
    BY <2>2, <2>3, <1>t, <1>5, <1>m DEF Stays, SameRails, Level
  <2>7. Level(h', h'.ldo) /\ h'.ldo # "off"
    BY <2>5 DEF Level
  <2>6. SdHostAt(op.step)' /\ op'.step \in SdWay
    BY ONLY <2>2, <2>3, <2>4, <2>5, <2>7, <1>5, <1>e DEF SdHostAt, Identifying, Switching, Asking, Selected, SdWay, CommonSteps, SdOnly
  <2>. QED
    BY <2>6
<1>33. CASE op.step = "get_ssr"
  <2>1. SdGoes("get_ssr") /\ SdAfter("get_ssr", store') /\ SdHostAt("get_ssr")
    BY <1>33, <1>2, <1>3, <1>4
  <2>2. Level(h, h.ldo) /\ h.ldo # "off"
    BY <2>1, <1>5 DEF SdHostAt, Identifying, Switching, Asking, Selected
  <2>3. h' = R /\ card' = card /\ store' = store
    BY <1>33, <2>1, <2>2, <1>1, <1>5, <1>c DEF SdGoes, SdAfter, Records
  <2>4. op'.step = "ready"
    BY <1>33, <2>1, <2>2, <2>3, <1>1, <1>5, <1>c DEF SdAfter, Records
  <2>5. Level(h', h'.ldo) /\ h'.ldo # "off"
    BY <2>2, <2>3, <1>r, <1>5, <1>m DEF Stays, SameRails, Level
  <2>6. SdHostAt(op.step)' /\ op'.step \in SdWay
    BY ONLY <2>2, <2>3, <2>4, <2>5, <1>5, <1>e DEF SdHostAt, Identifying, Switching, Asking, Selected, SdWay, CommonSteps, SdOnly
  <2>. QED
    BY <2>6
<1>. QED
  BY <1>1, <1>7, StepsAre, <1>8, <1>9, <1>10, <1>11, <1>12, <1>13, <1>14, <1>15, <1>16, <1>17, <1>18, <1>19, <1>20, <1>21, <1>22, <1>23, <1>24, <1>25, <1>26, <1>27, <1>28, <1>29, <1>30, <1>31, <1>32, <1>33 DEF CommonSteps, SdOnly

(***************************************************************************)
(* The card along the SD card's way.                                       *)
(***************************************************************************)
\* The two sides agree when the card has been told a mode and the controller has its timing.
LEMMA AgreesThen ==
  ASSUME h' \in HostShape, NEW m, Told(m)', Level(h', h'.ldo),
         \/ m = "DS" /\ (TimedFor(h', "SD_DS12") \/ TimedFor(h', "MMC_LS26"))
         \/ m = "HS" /\ TimedFor(h', "SD_HS25")
         \/ m = "SDR12" /\ TimedFor(h', "SDR12")
         \/ m = "SDR25" /\ TimedFor(h', "SDR25")
         \/ m = "SDR50" /\ TimedFor(h', "SDR50") /\ h'.tap = "tuned"
         \/ m = "SDR104" /\ TimedFor(h', "SDR82") /\ h'.tap = "tuned"
         \/ m = "HS200" /\ TimedFor(h', "MMC_HS200") /\ h'.tap = "tuned"
         \/ m = "HS400" /\ TimedFor(h', "MMC_HS400") /\ h'.tap = "saved"
  PROVE  Agreed'
<1>1. /\ card'.st = "tran" /\ h'.ldo = card'.sig /\ h'.io = card'.sig
      /\ h'.cal = card'.sig /\ h'.ofs = card'.sig /\ h'.width = card'.width /\ card'.mode = m
  BY DEF Told, Level
<1>2. TapAgrees'
  BY <1>1 DEF TapAgrees
<1>3. TimingAgrees'
  BY <1>1 DEF TimingAgrees, TimedFor
<1>4. CardRate(h') <= Limit(m)
  <2>1. CASE m = "DS" /\ TimedFor(h', "SD_DS12")
    <3>1. h'.src = 25000 /\ h'.div = 1
      BY <2>1 DEF TimedFor, CardClockDiv
    <3>. QED
      BY <2>1, <3>1 DEF CardRate, RealClock, Limit
  <2>2. CASE m = "DS" /\ TimedFor(h', "MMC_LS26")
    <3>1. h'.src = 26000 /\ h'.div = 1
      BY <2>2 DEF TimedFor, CardClockDiv
    <3>. QED
      BY <2>2, <3>1 DEF CardRate, RealClock, Limit
  <2>3. CASE m = "HS"
    <3>1. h'.src = 50000 /\ h'.div = 1
      BY <2>3 DEF TimedFor, CardClockDiv
    <3>. QED
      BY <2>3, <3>1 DEF CardRate, RealClock, Limit
  <2>4. CASE m = "SDR12"
    <3>1. h'.src = 25000 /\ h'.div = 1
      BY <2>4 DEF TimedFor, CardClockDiv
    <3>. QED
      BY <2>4, <3>1 DEF CardRate, RealClock, Limit
  <2>5. CASE m = "SDR25"
    <3>1. h'.src = 50000 /\ h'.div = 1
      BY <2>5 DEF TimedFor, CardClockDiv
    <3>. QED
      BY <2>5, <3>1 DEF CardRate, RealClock, Limit
  <2>6. CASE m = "SDR50"
    <3>1. h'.src = 100000 /\ h'.div = 1
      BY <2>6 DEF TimedFor, CardClockDiv
    <3>. QED
      BY <2>6, <3>1 DEF CardRate, RealClock, Limit
  <2>7. CASE m = "SDR104"
    <3>1. h'.src = 164000 /\ h'.div = 1
      BY <2>7 DEF TimedFor, CardClockDiv
    <3>. QED
      BY <2>7, <3>1 DEF CardRate, RealClock, Limit
  <2>8. CASE m \in {"HS200", "HS400"}
    <3>1. h'.src = 200000 /\ h'.div = 1
      BY <2>8 DEF TimedFor, CardClockDiv
    <3>. QED
      BY <2>8, <3>1 DEF CardRate, RealClock, Limit
  <2>. QED
    BY <2>1, <2>2, <2>3, <2>4, <2>5, <2>6, <2>7, <2>8
<1>. QED
  BY <1>1, <1>2, <1>3, <1>4 DEF Agreed, DataAgrees

\* A card that answers when it is selected is in the mode of its level.
LEMMA SelectedTold ==
  ASSUME ShapeInv, CardInv, Talks, card.st = "stby", card' = [card EXCEPT !.st = "tran"],
         cap' = cap, h'.ldo = h.ldo, h'.width = 1
  PROVE  Told(IF cap.kind = "sd" /\ h.ldo = "1.8" THEN "SDR12" ELSE "DS")'
<1>1. /\ card'.st = "tran" /\ card'.sig = card.sig /\ card'.width = card.width
      /\ card'.mode = card.mode
  BY DEF ShapeInv, CardStates
<1>2. /\ card.sig = h.ldo /\ card.width = 1
      /\ card.mode = IF cap.kind = "sd" /\ card.sig = "1.8" THEN "SDR12" ELSE "DS"
  BY DEF CardInv, Talks
<1>. QED
  BY <1>1, <1>2 DEF Told

\* What the two sides agree about does not change when the pads are calibrated again,
\* the clock is saved or the record says more.
LEMMA AgreedStays ==
  ASSUME h \in HostShape, h' = R \/ h' = CardClockPowersave(h, TRUE) \/ h' = h, card' = card, Agreed
  PROVE  Agreed'
<1>1. /\ h'.ldo = h.ldo /\ h'.io = h.io /\ h'.ofs = h.ofs /\ h'.cal \in {h.cal, h.io}
      /\ h'.width = h.width /\ h'.tap = h.tap /\ SameTiming(h, h')
  <2>1. CASE h' = R
    BY <2>1, RecalibrateDoes DEF R, SameRails, SameTiming
  <2>2. CASE h' = CardClockPowersave(h, TRUE)
    BY <2>2, ClockDoes, ZenonT(60) DEF SameRails, SameTiming
  <2>3. CASE h' = h
    BY <2>3 DEF SameTiming
  <2>. QED
    BY <2>1, <2>2, <2>3
<1>2. TimingAgrees' /\ TapAgrees'
  BY <1>1 DEF Agreed, DataAgrees, TimingAgrees, TapAgrees, SameTiming
<1>3. CardRate(h') = CardRate(h)
  BY <1>1 DEF CardRate, SameTiming
<1>. QED
  BY <1>1, <1>2, <1>3 DEF Agreed, DataAgrees

\* ToldInv along the SD card's way.
LEMMA SdTold ==
  ASSUME SessionInv, cap.kind = "sd", Walk, op'.step # "failed", swaps = 0
  PROVE  SdToldAt(op.step)'
<1>. USE DEF SessionInv
<1>1. op.step \in Steps /\ op.step \notin MmcOnly /\ cap' = cap /\ op'.step = Following(op.step, store')
  BY Walks DEF HostInv, env
<1>2. /\ store' \in Records /\ SdGoes(op.step) /\ h \in HostShape /\ h' \in HostShape
      /\ cap \in CardShape
  BY StoreChanges, SdGoesOn, HostChanges, RKeeps, CardsAssumption, HostStays DEF ShapeInv
<1>3. SdAfter(op.step, store')
  BY <1>1, <1>2, SdFollowing
<1>4. SdHostAt(op.step) /\ SdToldAt(op.step)
  BY DEF HostInv, ToldInv
<1>h. SdHostAt(op.step)'
  BY <1>1, SdSuccess DEF HostInv
<1>5. store.low \in BOOLEAN /\ store.s18 \in BOOLEAN
  BY DEF ShapeInv
<1>7. op.step \notin {"sdmmc_init", "ready"}
  BY Walks
<1>e. UhsMode' = UhsMode /\ UhsTiming' = UhsTiming
  BY <1>1 DEF UhsMode, UhsTiming
<1>c. card \in CardStates /\ store \in Records /\ CardInv
  BY DEF ShapeInv, Records
<1>r. h' = R => h'.ldo = h.ldo /\ h'.width = h.width /\ h'.tap = h.tap
  BY <1>2, RKeeps DEF SameRails
<1>t. \A t \in Timings : h' = SetupClock(h, t) => h'.ldo = h.ldo /\ h'.width = h.width
  BY <1>2, ClockKeeps DEF Stays
<1>m. UhsTiming \in Timings /\ "SD_HS25" \in Timings
  BY DEF UhsTiming, UhsMode, Timings
<1>8. CASE op.step \in Identifying \cup Switching \cup Asking \cup {"start"}
  <2>0. op.step \in {"lv_clock", "lv_rail"} => store'.s18
    BY <1>2, <1>4 DEF SdGoes, SdHostAt, Switching
  <2>1. op'.step \in Identifying \cup Switching \cup Asking \cup {"select_card"}
    BY <1>8, <1>1, <1>3, <2>0 DEF SdAfter, Identifying, Switching, Asking
  <2>. QED
    BY <2>1 DEF SdToldAt, Identifying, Switching, Asking, Selected
<1>9. CASE op.step = "select_card"
  <2>1. h' = R /\ store' = store /\ card' = [card EXCEPT !.st = "tran"] /\ Talks /\ card.st = "stby"
    BY <1>9, <1>2 DEF SdGoes
  <2>2. h.width = 1 /\ (store.low <=> h.ldo = "1.8")
    BY <1>9, <1>4, <1>5 DEF SdHostAt, Level
  <2>3. Told(IF cap.kind = "sd" /\ h.ldo = "1.8" THEN "SDR12" ELSE "DS")'
    BY <2>1, <2>2, <1>1, <1>c, <1>r, SelectedTold
  <2>4. op'.step = "set_blocklen" /\ h'.ldo = h.ldo
    BY <1>9, <1>1, <1>3, <2>1, <1>r DEF SdAfter
  <2>. QED
    BY <2>1, <2>2, <2>3, <2>4, <1>1, <1>5 DEF SdToldAt, Told, Selected
<1>10. CASE op.step \in {"set_blocklen", "clr_card_detect", "get_scr", "switch_get",
                          "current_limit", "switch_check"}
  <2>1. h' = R /\ store' = store /\ card' = card
    BY <1>10, <1>2 DEF SdGoes
  <2>2. Told(IF store.low THEN "SDR12" ELSE "DS") /\ (~store.low => TimedFor(h, "SD_DS12"))
    BY <1>10, <1>4, <1>5 DEF SdToldAt, SdHostAt, Selected
  <2>3. Told(IF store.low THEN "SDR12" ELSE "DS")'
    BY <2>1, <2>2, <1>r DEF Told
  <2>4. op'.step \in Selected \cup {"get_ssr"} /\ (op'.step = "get_ssr" => ~store.low)
    <3>1. /\ op.step = "switch_get" => store.low \/ ~cap.v10
          /\ op.step = "switch_check" => store.low \/ (~cap.v10 /\ cap.hs)
      BY <1>4 DEF SdHostAt
    <3>. QED
      BY <1>10, <1>1, <1>3, <1>5, <2>1, <3>1 DEF SdAfter, Selected
  <2>5. op'.step = "get_ssr" => Agreed'
    <3>. SUFFICES ASSUME op'.step = "get_ssr" PROVE Agreed'
      OBVIOUS
    <3>1. Told("DS")' /\ TimedFor(h', "SD_DS12")
      BY <2>1, <2>2, <2>3, <2>4, <1>2, RKeeps
    <3>2. Level(h', h'.ldo)
      BY <1>h DEF SdHostAt
    <3>. QED
      BY <3>1, <3>2, <1>2, AgreesThen
  <2>. QED
    BY ONLY <2>3, <2>4, <2>5 DEF SdToldAt, Selected
<1>11. CASE op.step = "set_bus_width"
  <2>1. h' = SetBusWidth(R, 4) /\ store' = store /\ card' = [card EXCEPT !.width = 4]
    BY <1>11, <1>2 DEF SdGoes
  <2>2. Told(IF store.low THEN "SDR12" ELSE "DS") /\ (~store.low => TimedFor(h, "SD_DS12"))
    BY <1>11, <1>4, <1>5 DEF SdToldAt, SdHostAt, Selected
  <2>w. /\ h'.width = 4 /\ h'.ldo = h.ldo
        /\ \A t : TimedFor(h, t) => TimedFor(h', t)
    BY <2>1, <1>2, RecalibrateDoes, WidthDoes DEF R, SameTiming, TimedFor, SameRails, Widths
  <2>3. Told(IF store.low THEN "SDR12" ELSE "DS")'
    BY <2>1, <2>2, <2>w, <1>c DEF Told, CardStates
  <2>4. op'.step \in Selected \cup {"get_ssr"} /\ (op'.step = "get_ssr" => ~store.low)
    BY <1>11, <1>1, <1>3, <1>5, <2>1 DEF SdAfter, Selected
  <2>5. op'.step = "get_ssr" => Agreed'
    <3>. SUFFICES ASSUME op'.step = "get_ssr" PROVE Agreed'
      OBVIOUS
    <3>1. Told("DS")' /\ TimedFor(h', "SD_DS12")
      BY <2>1, <2>2, <2>3, <2>4, <2>w
    <3>2. Level(h', h'.ldo)
      BY <1>h DEF SdHostAt
    <3>. QED
      BY <3>1, <3>2, <1>2, AgreesThen
  <2>. QED
    BY ONLY <2>3, <2>4, <2>5 DEF SdToldAt, Selected
<1>12. CASE op.step = "switch_set"
  <2>1. h' = R /\ store' = store /\ card' = [card EXCEPT !.mode = IF store.low THEN UhsMode ELSE "HS"]
    BY <1>12, <1>2 DEF SdGoes
  <2>2. Told(IF store.low THEN "SDR12" ELSE "DS")
    BY <1>12, <1>4, <1>5 DEF SdToldAt, Selected
  <2>3. op'.step = IF store.low THEN "setup_uhs" ELSE "check_status"
    <3>1. store.low \/ (~cap.v10 /\ cap.hs)
      BY <1>12, <1>4 DEF SdHostAt
    <3>. QED
      BY <1>12, <1>1, <1>3, <1>5, <2>1, <3>1 DEF SdAfter
  <2>4. Told(IF store.low THEN UhsMode ELSE "HS")'
    BY <2>1, <2>2, <1>r, <1>c, <1>e DEF Told, CardStates
  <2>. QED
    BY ONLY <2>1, <2>3, <2>4, <1>5, <1>e DEF SdToldAt, Selected
<1>13. CASE op.step = "setup_uhs"
  <2>1. h' = SetupClock(h, UhsTiming) /\ store' = store /\ card' = card
    BY <1>13, <1>2 DEF SdGoes
  <2>2. Told(UhsMode) /\ store.low
    BY <1>13, <1>4, <1>5 DEF SdToldAt, SdHostAt
  <2>3. Told(UhsMode)'
    BY <2>1, <2>2, <1>t, <1>m, <1>e DEF Told
  <2>4. op'.step = IF UhsMode \in {"SDR104", "SDR50"} THEN "tuning" ELSE "check_status"
    BY <1>13, <1>1, <1>3, <1>5, <2>1, <2>2 DEF SdAfter
  <2>5. op'.step = "check_status" => TapAgrees'
    <3>1. UhsMode \notin {"HS200", "HS400"}
      BY DEF UhsMode
    <3>. QED
      BY <2>3, <2>4, <3>1, <1>e DEF Told, TapAgrees
  <2>. QED
    BY ONLY <2>1, <2>2, <2>3, <2>4, <2>5 DEF SdToldAt, Selected
<1>14. CASE op.step = "tuning"
  <2>1. h' = Tuned(h) /\ store' = store /\ card' = card
    BY <1>14, <1>2 DEF SdGoes
  <2>2. Told(UhsMode) /\ store.low
    BY <1>14, <1>4, <1>5 DEF SdToldAt, SdHostAt
  <2>3. h'.ldo = h.ldo /\ h'.width = h.width /\ h'.tap = "tuned"
    BY <2>1, <1>2, TunedDoes DEF SameRails
  <2>4. Told(UhsMode)'
    BY <2>1, <2>2, <2>3, <1>e DEF Told
  <2>5. op'.step = "check_status"
    BY <1>14, <1>1, <1>3, <2>1, <2>2 DEF SdAfter
  <2>6. TapAgrees'
    <3>1. UhsMode # "HS400"
      BY DEF UhsMode
    <3>. QED
      BY <2>3, <2>4, <3>1, <1>e DEF Told, TapAgrees
  <2>. QED
    BY ONLY <2>1, <2>2, <2>4, <2>5, <2>6 DEF SdToldAt, Selected
<1>15. CASE op.step = "check_status"
  <2>1. h' = R /\ store' = store /\ card' = card
    BY <1>15, <1>2 DEF SdGoes
  <2>2. Told(IF store.low THEN UhsMode ELSE "HS") /\ (store.low => TapAgrees)
    BY <1>15, <1>4, <1>5 DEF SdToldAt, SdHostAt, Selected
  <2>3. IF store.low THEN op'.step = "get_ssr" /\ TimedFor(h, UhsTiming) ELSE op'.step = "setup_hs25"
    <3>1. store.low \/ (~cap.v10 /\ cap.hs)
      BY <1>15, <1>4, <1>5 DEF SdHostAt
    <3>2. store.low => TimedFor(h, UhsTiming)
      BY <1>15, <1>4, <1>5 DEF SdHostAt
    <3>. QED
      BY <1>15, <1>1, <1>3, <1>5, <2>1, <3>1, <3>2 DEF SdAfter
  <2>4. CASE ~store.low
    <3>1. Told("HS")'
      BY <2>1, <2>2, <2>4, <1>r DEF Told
    <3>. QED
      BY ONLY <2>3, <2>4, <3>1 DEF SdToldAt, Selected
  <2>5. CASE store.low
    <3>1. Told(UhsMode)' /\ h'.tap = h.tap /\ TimedFor(h', UhsTiming) /\ card.mode = UhsMode
      BY <2>1, <2>2, <2>3, <2>5, <1>r, <1>e, <1>2, RKeeps DEF Told
    <3>2. Level(h', h'.ldo) /\ op'.step = "get_ssr"
      BY <1>h, <2>3, <2>5 DEF SdHostAt
    <3>3. UhsMode \in {"SDR104", "SDR50"} => h'.tap = "tuned"
      BY <2>2, <2>5, <3>1 DEF TapAgrees
    <3>4. Agreed'
      BY <3>1, <3>2, <3>3, <1>2, <1>e, AgreesThen DEF UhsMode, UhsTiming
    <3>. QED
      BY ONLY <3>2, <3>4 DEF SdToldAt, Selected
  <2>. QED
    BY <2>4, <2>5
<1>16. CASE op.step = "setup_hs25"
  <2>1. h' = SetupClock(h, "SD_HS25") /\ store' = store /\ card' = card
    BY <1>16, <1>2 DEF SdGoes
  <2>2. Told("HS")
    BY <1>16, <1>4 DEF SdToldAt
  <2>3. Told("HS")' /\ TimedFor(h', "SD_HS25")
    BY <2>1, <2>2, <1>t, <1>m, <1>2, ClockKeeps DEF Told
  <2>4. op'.step = "get_ssr"
    BY <1>16, <1>1, <1>3 DEF SdAfter
  <2>5. Level(h', h'.ldo)
    BY <1>h, <2>4 DEF SdHostAt
  <2>6. Agreed'
    BY <2>3, <2>5, <1>2, AgreesThen
  <2>. QED
    BY ONLY <2>4, <2>6 DEF SdToldAt, Selected
<1>17. CASE op.step = "get_ssr"
  <2>1. h' = R /\ card' = card /\ Agreed
    BY <1>17, <1>2, <1>4 DEF SdGoes, SdToldAt
  <2>2. op'.step = "ready"
    BY <1>17, <1>1, <1>3 DEF SdAfter
  <2>3. Agreed'
    BY <2>1, <1>2, AgreedStays
  <2>. QED
    BY ONLY <2>2, <2>3 DEF SdToldAt, Selected
<1>. QED
  BY <1>1, <1>7, StepsAre, <1>8, <1>9, <1>10, <1>11, <1>12, <1>13, <1>14, <1>15, <1>16, <1>17
     DEF CommonSteps, SdOnly, Identifying, Switching, Asking

(***************************************************************************)
(* The eMMC's way.                                                         *)
(***************************************************************************)
\* Where the eMMC's initialisation goes.
MmcWay == (CommonSteps \cup MmcOnly) \ {"sdmmc_init", "start"}

\* The eMMC's way, by the same argument.
LEMMA MmcSuccess ==
  ASSUME SessionInv, cap.kind = "emmc", Walk, op'.step # "failed"
  PROVE  HostInv' /\ op'.step \in MmcWay /\ (swaps = 0 => MmcToldAt(op.step)')
<1>. USE DEF SessionInv
<1>1. op.step \in Steps /\ op.step \notin SdOnly /\ cap' = cap /\ op'.step = Following(op.step, store') /\ swaps' = swaps
  BY Walks DEF HostInv, env
<1>2. /\ store' \in Records /\ MmcGoes(op.step) /\ h \in HostShape /\ h' \in HostShape
      /\ cap \in CardShape
  BY StoreChanges, MmcGoesOn, HostStays, CardsAssumption DEF ShapeInv
<1>3. MmcAfter(op.step, store')
  BY <1>1, <1>2, MmcFollowing
<1>4. MmcHostAt(op.step) /\ (swaps = 0 => MmcToldAt(op.step))
  BY DEF HostInv, ToldInv
<1>6. SUFFICES op'.step \in MmcWay /\ MmcHostAt(op.step)' /\ (swaps = 0 => MmcToldAt(op.step)')
  BY <1>1 DEF HostInv, MmcWay, CommonSteps, SdOnly, MmcOnly
<1>r. h' = R => /\ SameTiming(h, h')
                /\ h'.ldo = h.ldo /\ h'.width = h.width /\ h'.tap = h.tap /\ h'.saved = h.saved
                /\ \A l : Level(h, l) => Level(h', l)
                /\ \A t : TimedFor(h, t) => TimedFor(h', t)
  BY <1>2, RKeeps DEF SameRails
<1>t. \A t \in Timings : h' = SetupClock(h, t) =>
         /\ TimedFor(h', t) /\ h'.ldo = h.ldo /\ h'.width = h.width /\ h'.saved = h.saved
         /\ t # "MMC_HS400" => h'.tap = "static"
         /\ \A l : Level(h, l) => Level(h', l)
  BY <1>2, ClockKeeps DEF Stays
<1>x. h' = SetupClock(h, "MMC_HS400") /\ h.saved => h'.tap = "saved"
  <2>1. "MMC_HS400" \in Timings
    BY DEF Timings
  <2>. QED
    BY <2>1, <1>2, SetupClockDoes
<1>s. h' = Start(h, h.ldo, 1, "MMC_ID") =>
         /\ TimedFor(h', "MMC_ID") /\ h'.width = 1 /\ h'.ldo = h.ldo /\ h'.io = h.ldo
         /\ h'.cal = h.cal /\ h'.ofs = h.ofs
  <2>1. h.ldo \in Levels /\ "MMC_ID" \in Timings
    BY <1>2, HostFields DEF Timings
  <2>. QED
    BY <2>1, <1>2, StartDoes
<1>w. h' = SetBusWidth(h, 8) =>
         /\ h'.width = 8 /\ h'.ldo = h.ldo
         /\ \A l : Level(h, l) => Level(h', l)
         /\ \A t : TimedFor(h, t) => TimedFor(h', t)
  BY <1>2, WidthDoes DEF R, SameTiming, TimedFor, SameRails, Level, Widths
<1>u. h' = Tuned(h) =>
         /\ h'.width = h.width /\ h'.ldo = h.ldo /\ h'.tap = "tuned"
         /\ \A l : Level(h, l) => Level(h', l)
         /\ \A t : TimedFor(h, t) => TimedFor(h', t)
  BY <1>2, TunedDoes DEF SameTiming, TimedFor, SameRails, Level
<1>v. h' = SaveTapValue(h) =>
         /\ h'.width = h.width /\ h'.ldo = h.ldo /\ h'.saved
         /\ \A l : Level(h, l) => Level(h', l)
  BY <1>2, SaveTapDoes DEF SameTiming, SameRails, Level
<1>m. {"MMC_LS26", "MMC_HS200", "MMC_HS52", "MMC_HS400"} \subseteq Timings
  BY DEF Timings
<1>e. Hs400' <=> Hs400
  BY <1>1 DEF Hs400
<1>7. op.step \notin {"sdmmc_init", "ready"}
  BY Walks
<1>o. h.ldo = "1.8"
  BY DEF ShapeInv, PowerInv
<1>c. card \in CardStates /\ CardInv
  BY DEF ShapeInv
<1>8. CASE op.step = "start"
  <2>1. MmcGoes("start") /\ MmcAfter("start", store') /\ MmcHostAt("start") /\ (swaps = 0 => MmcToldAt("start"))
    BY <1>8, <1>2, <1>3, <1>4
  <2>2. h.ldo = "1.8" /\ h.cal = "1.8" /\ h.ofs = "1.8"
    BY <1>8, <2>1, <1>1, <1>o DEF MmcHostAt
  <2>3. h' = Start(h, h.ldo, 1, "MMC_ID") /\ card' = card
    BY <1>8, <2>1, <1>1 DEF MmcGoes, MmcAfter
  <2>4. op'.step = "go_idle"
    BY <1>8, <2>1, <2>2, <1>1 DEF MmcAfter
  <2>5. Level(h', "1.8") /\ TimedFor(h', "MMC_ID") /\ h'.width = 1
    BY <2>2, <2>3, <1>s, <1>m DEF SameTiming, TimedFor, Level
  <2>6. MmcHostAt(op.step)' /\ op'.step \in MmcWay
    BY ONLY <2>3, <2>4, <2>5, <1>e DEF MmcHostAt, MmcWay, CommonSteps, MmcOnly
  <2>7. MmcToldAt(op.step)'
    BY ONLY <2>4 DEF MmcToldAt
  <2>. QED
    BY <2>6, <2>7
<1>9. CASE op.step = "go_idle"
  <2>1. MmcGoes("go_idle") /\ MmcAfter("go_idle", store') /\ MmcHostAt("go_idle") /\ (swaps = 0 => MmcToldAt("go_idle"))
    BY <1>9, <1>2, <1>3, <1>4
  <2>2. Level(h, "1.8") /\ TimedFor(h, "MMC_ID") /\ h.width = 1
    BY <1>9, <2>1, <1>1, <1>o DEF MmcHostAt
  <2>3. h' = R
    BY <1>9, <2>1, <1>1 DEF MmcGoes, MmcAfter
  <2>4. op'.step = "get_op_cond"
    BY <1>9, <2>1, <2>2, <1>1 DEF MmcAfter
  <2>5. Level(h', "1.8") /\ TimedFor(h', "MMC_ID") /\ h'.width = 1
    BY <2>2, <2>3, <1>r, <1>m DEF SameTiming, TimedFor, Level
  <2>6. MmcHostAt(op.step)' /\ op'.step \in MmcWay
    BY ONLY <2>3, <2>4, <2>5, <1>e DEF MmcHostAt, MmcWay, CommonSteps, MmcOnly
  <2>7. MmcToldAt(op.step)'
    BY ONLY <2>4 DEF MmcToldAt
  <2>. QED
    BY <2>6, <2>7
<1>10. CASE op.step = "get_op_cond"
  <2>1. MmcGoes("get_op_cond") /\ MmcAfter("get_op_cond", store') /\ MmcHostAt("get_op_cond") /\ (swaps = 0 => MmcToldAt("get_op_cond"))
    BY <1>10, <1>2, <1>3, <1>4
  <2>2. Level(h, "1.8") /\ TimedFor(h, "MMC_ID") /\ h.width = 1
    BY <1>10, <2>1, <1>1, <1>o DEF MmcHostAt
  <2>3. h' = R
    BY <1>10, <2>1, <1>1 DEF MmcGoes, MmcAfter
  <2>4. op'.step = "get_cid"
    BY <1>10, <2>1, <2>2, <1>1 DEF MmcAfter
  <2>5. Level(h', "1.8") /\ TimedFor(h', "MMC_ID") /\ h'.width = 1
    BY <2>2, <2>3, <1>r, <1>m DEF SameTiming, TimedFor, Level
  <2>6. MmcHostAt(op.step)' /\ op'.step \in MmcWay
    BY ONLY <2>3, <2>4, <2>5, <1>e DEF MmcHostAt, MmcWay, CommonSteps, MmcOnly
  <2>7. MmcToldAt(op.step)'
    BY ONLY <2>4 DEF MmcToldAt
  <2>. QED
    BY <2>6, <2>7
<1>11. CASE op.step = "get_cid"
  <2>1. MmcGoes("get_cid") /\ MmcAfter("get_cid", store') /\ MmcHostAt("get_cid") /\ (swaps = 0 => MmcToldAt("get_cid"))
    BY <1>11, <1>2, <1>3, <1>4
  <2>2. Level(h, "1.8") /\ TimedFor(h, "MMC_ID") /\ h.width = 1
    BY <1>11, <2>1, <1>1, <1>o DEF MmcHostAt
  <2>3. h' = R
    BY <1>11, <2>1, <1>1 DEF MmcGoes, MmcAfter
  <2>4. op'.step = "get_rca"
    BY <1>11, <2>1, <2>2, <1>1 DEF MmcAfter
  <2>5. Level(h', "1.8") /\ TimedFor(h', "MMC_ID") /\ h'.width = 1
    BY <2>2, <2>3, <1>r, <1>m DEF SameTiming, TimedFor, Level
  <2>6. MmcHostAt(op.step)' /\ op'.step \in MmcWay
    BY ONLY <2>3, <2>4, <2>5, <1>e DEF MmcHostAt, MmcWay, CommonSteps, MmcOnly
  <2>7. MmcToldAt(op.step)'
    BY ONLY <2>4 DEF MmcToldAt
  <2>. QED
    BY <2>6, <2>7
<1>12. CASE op.step = "get_rca"
  <2>1. MmcGoes("get_rca") /\ MmcAfter("get_rca", store') /\ MmcHostAt("get_rca") /\ (swaps = 0 => MmcToldAt("get_rca"))
    BY <1>12, <1>2, <1>3, <1>4
  <2>2. Level(h, "1.8") /\ TimedFor(h, "MMC_ID") /\ h.width = 1
    BY <1>12, <2>1, <1>1, <1>o DEF MmcHostAt
  <2>3. h' = R
    BY <1>12, <2>1, <1>1 DEF MmcGoes, MmcAfter
  <2>4. op'.step = "get_csd"
    BY <1>12, <2>1, <2>2, <1>1 DEF MmcAfter
  <2>5. Level(h', "1.8") /\ TimedFor(h', "MMC_ID") /\ h'.width = 1
    BY <2>2, <2>3, <1>r, <1>m DEF SameTiming, TimedFor, Level
  <2>6. MmcHostAt(op.step)' /\ op'.step \in MmcWay
    BY ONLY <2>3, <2>4, <2>5, <1>e DEF MmcHostAt, MmcWay, CommonSteps, MmcOnly
  <2>7. MmcToldAt(op.step)'
    BY ONLY <2>4 DEF MmcToldAt
  <2>. QED
    BY <2>6, <2>7
<1>13. CASE op.step = "get_csd"
  <2>1. MmcGoes("get_csd") /\ MmcAfter("get_csd", store') /\ MmcHostAt("get_csd") /\ (swaps = 0 => MmcToldAt("get_csd"))
    BY <1>13, <1>2, <1>3, <1>4
  <2>2. Level(h, "1.8") /\ TimedFor(h, "MMC_ID") /\ h.width = 1
    BY <1>13, <2>1, <1>1, <1>o DEF MmcHostAt
  <2>3. h' = R /\ card' = card
    BY <1>13, <2>1, <1>1 DEF MmcGoes, MmcAfter
  <2>4. op'.step = "setup_ls26"
    BY <1>13, <2>1, <2>2, <1>1 DEF MmcAfter
  <2>5. Level(h', "1.8") /\ ~h'.hispd /\ ~h'.v180 /\ h'.width = 1
    BY <2>2, <2>3, <1>r, <1>m DEF SameTiming, TimedFor, Level
  <2>6. MmcHostAt(op.step)' /\ op'.step \in MmcWay
    BY ONLY <2>3, <2>4, <2>5, <1>e DEF MmcHostAt, MmcWay, CommonSteps, MmcOnly
  <2>7. MmcToldAt(op.step)'
    BY ONLY <2>4 DEF MmcToldAt
  <2>. QED
    BY <2>6, <2>7
<1>14. CASE op.step = "setup_ls26"
  <2>1. MmcGoes("setup_ls26") /\ MmcAfter("setup_ls26", store') /\ MmcHostAt("setup_ls26") /\ (swaps = 0 => MmcToldAt("setup_ls26"))
    BY <1>14, <1>2, <1>3, <1>4
  <2>2. Level(h, "1.8") /\ h.width = 1
    BY <1>14, <2>1, <1>1, <1>o DEF MmcHostAt
  <2>3. h' = SetupClock(h, "MMC_LS26") /\ card' = card
    BY <1>14, <2>1, <1>1 DEF MmcGoes, MmcAfter
  <2>4. op'.step = "select_card"
    BY <1>14, <2>1, <2>2, <1>1 DEF MmcAfter
  <2>5. Level(h', "1.8") /\ TimedFor(h', "MMC_LS26") /\ ~h'.hispd /\ ~h'.v180 /\ h'.width = 1
    BY <2>2, <2>3, <1>t, <1>m DEF SameTiming, TimedFor, Level
  <2>6. MmcHostAt(op.step)' /\ op'.step \in MmcWay
    BY ONLY <2>3, <2>4, <2>5, <1>e DEF MmcHostAt, MmcWay, CommonSteps, MmcOnly
  <2>7. MmcToldAt(op.step)'
    BY ONLY <2>4 DEF MmcToldAt
  <2>. QED
    BY <2>6, <2>7
<1>15. CASE op.step = "select_card"
  <2>1. MmcGoes("select_card") /\ MmcAfter("select_card", store') /\ MmcHostAt("select_card") /\ (swaps = 0 => MmcToldAt("select_card"))
    BY <1>15, <1>2, <1>3, <1>4
  <2>2. Level(h, "1.8") /\ TimedFor(h, "MMC_LS26") /\ h.width = 1
    BY <1>15, <2>1, <1>1, <1>o DEF MmcHostAt
  <2>3. h' = R /\ card' = [card EXCEPT !.st = "tran"] /\ Talks /\ card.st = "stby"
    BY <1>15, <2>1, <1>1 DEF MmcGoes, MmcAfter
  <2>4. op'.step = "set_blocklen"
    BY <1>15, <2>1, <2>2, <1>1 DEF MmcAfter
  <2>5. Level(h', "1.8") /\ TimedFor(h', "MMC_LS26") /\ h'.width = 1
    BY <2>2, <2>3, <1>r, <1>m DEF SameTiming, TimedFor, Level
  <2>6. MmcHostAt(op.step)' /\ op'.step \in MmcWay
    BY ONLY <2>3, <2>4, <2>5, <1>e DEF MmcHostAt, MmcWay, CommonSteps, MmcOnly
  <2>7. ASSUME swaps = 0 PROVE MmcToldAt(op.step)'
    <3>1. Told(IF cap.kind = "sd" /\ h.ldo = "1.8" THEN "SDR12" ELSE "DS")'
      BY <2>2, <2>3, <2>5, <1>1, <1>c, <1>r, SelectedTold
    <3>2. Told("DS")'
      BY <3>1, <1>1 DEF Told
    <3>. QED
      BY ONLY <2>4, <3>2 DEF MmcToldAt
  <2>. QED
    BY <2>6, <2>7
<1>16. CASE op.step = "set_blocklen"
  <2>1. MmcGoes("set_blocklen") /\ MmcAfter("set_blocklen", store') /\ MmcHostAt("set_blocklen") /\ (swaps = 0 => MmcToldAt("set_blocklen"))
    BY <1>16, <1>2, <1>3, <1>4
  <2>2. Level(h, "1.8") /\ TimedFor(h, "MMC_LS26")
    BY <1>16, <2>1, <1>1, <1>o DEF MmcHostAt
  <2>3. h' = R /\ card' = card
    BY <1>16, <2>1, <1>1 DEF MmcGoes, MmcAfter
  <2>4. op'.step = "switch_width8"
    BY <1>16, <2>1, <2>2, <1>1 DEF MmcAfter
  <2>5. Level(h', "1.8") /\ TimedFor(h', "MMC_LS26")
    BY <2>2, <2>3, <1>r, <1>m DEF SameTiming, TimedFor, Level
  <2>6. MmcHostAt(op.step)' /\ op'.step \in MmcWay
    BY ONLY <2>3, <2>4, <2>5, <1>e DEF MmcHostAt, MmcWay, CommonSteps, MmcOnly
  <2>7. ASSUME swaps = 0 PROVE MmcToldAt(op.step)'
    <3>1. Told("DS")
      BY <2>1, <2>7 DEF MmcToldAt
    <3>2. Told("DS")'
      BY <2>3, <2>5, <3>1, <1>r, <1>m, <1>c DEF Told, CardStates
    <3>. QED
      BY ONLY <2>4, <3>2 DEF MmcToldAt
  <2>. QED
    BY <2>6, <2>7
<1>17. CASE op.step = "switch_width8"
  <2>1. MmcGoes("switch_width8") /\ MmcAfter("switch_width8", store') /\ MmcHostAt("switch_width8") /\ (swaps = 0 => MmcToldAt("switch_width8"))
    BY <1>17, <1>2, <1>3, <1>4
  <2>2. Level(h, "1.8") /\ TimedFor(h, "MMC_LS26")
    BY <1>17, <2>1, <1>1, <1>o DEF MmcHostAt
  <2>3. h' = SetBusWidth(h, 8) /\ card' = [card EXCEPT !.width = 8]
    BY <1>17, <2>1, <1>1 DEF MmcGoes, MmcAfter
  <2>4. op'.step = "get_ext_csd"
    BY <1>17, <2>1, <2>2, <1>1 DEF MmcAfter
  <2>5. Level(h', "1.8") /\ TimedFor(h', "MMC_LS26") /\ h'.width = 8
    BY <2>2, <2>3, <1>w, <1>m DEF SameTiming, TimedFor, Level
  <2>6. MmcHostAt(op.step)' /\ op'.step \in MmcWay
    BY ONLY <2>3, <2>4, <2>5, <1>e DEF MmcHostAt, MmcWay, CommonSteps, MmcOnly
  <2>7. ASSUME swaps = 0 PROVE MmcToldAt(op.step)'
    <3>1. Told("DS")
      BY <2>1, <2>7 DEF MmcToldAt
    <3>2. Told("DS")'
      BY <2>3, <2>5, <3>1, <1>w, <1>m, <1>c DEF Told, CardStates
    <3>. QED
      BY ONLY <2>4, <3>2 DEF MmcToldAt
  <2>. QED
    BY <2>6, <2>7
<1>18. CASE op.step = "get_ext_csd"
  <2>1. MmcGoes("get_ext_csd") /\ MmcAfter("get_ext_csd", store') /\ MmcHostAt("get_ext_csd") /\ (swaps = 0 => MmcToldAt("get_ext_csd"))
    BY <1>18, <1>2, <1>3, <1>4
  <2>2. Level(h, "1.8") /\ TimedFor(h, "MMC_LS26")
    BY <1>18, <2>1, <1>1, <1>o DEF MmcHostAt
  <2>3. h' = R /\ card' = card
    BY <1>18, <2>1, <1>1 DEF MmcGoes, MmcAfter
  <2>4. op'.step = "switch_hs200"
    BY <1>18, <2>1, <2>2, <1>1 DEF MmcAfter
  <2>5. Level(h', "1.8") /\ TimedFor(h', "MMC_LS26")
    BY <2>2, <2>3, <1>r, <1>m DEF SameTiming, TimedFor, Level
  <2>6. MmcHostAt(op.step)' /\ op'.step \in MmcWay
    BY ONLY <2>3, <2>4, <2>5, <1>e DEF MmcHostAt, MmcWay, CommonSteps, MmcOnly
  <2>7. ASSUME swaps = 0 PROVE MmcToldAt(op.step)'
    <3>1. Told("DS")
      BY <2>1, <2>7 DEF MmcToldAt
    <3>2. Told("DS")'
      BY <2>3, <2>5, <3>1, <1>r, <1>m, <1>c DEF Told, CardStates
    <3>. QED
      BY ONLY <2>4, <3>2 DEF MmcToldAt
  <2>. QED
    BY <2>6, <2>7
<1>19. CASE op.step = "switch_hs200"
  <2>1. MmcGoes("switch_hs200") /\ MmcAfter("switch_hs200", store') /\ MmcHostAt("switch_hs200") /\ (swaps = 0 => MmcToldAt("switch_hs200"))
    BY <1>19, <1>2, <1>3, <1>4
  <2>2. Level(h, "1.8") /\ TimedFor(h, "MMC_LS26")
    BY <1>19, <2>1, <1>1, <1>o DEF MmcHostAt
  <2>3. h' = R /\ card' = [card EXCEPT !.mode = "HS200"]
    BY <1>19, <2>1, <1>1 DEF MmcGoes, MmcAfter
  <2>4. op'.step = "setup_hs200"
    BY <1>19, <2>1, <2>2, <1>1 DEF MmcAfter
  <2>5. Level(h', "1.8")
    BY <2>2, <2>3, <1>r, <1>m DEF SameTiming, TimedFor, Level
  <2>6. MmcHostAt(op.step)' /\ op'.step \in MmcWay
    BY ONLY <2>3, <2>4, <2>5, <1>e DEF MmcHostAt, MmcWay, CommonSteps, MmcOnly
  <2>7. ASSUME swaps = 0 PROVE MmcToldAt(op.step)'
    <3>1. Told("DS")
      BY <2>1, <2>7 DEF MmcToldAt
    <3>2. Told("HS200")'
      BY <2>3, <2>5, <3>1, <1>r, <1>m, <1>c DEF Told, CardStates
    <3>. QED
      BY ONLY <2>4, <3>2 DEF MmcToldAt
  <2>. QED
    BY <2>6, <2>7
<1>20. CASE op.step = "setup_hs200"
  <2>1. MmcGoes("setup_hs200") /\ MmcAfter("setup_hs200", store') /\ MmcHostAt("setup_hs200") /\ (swaps = 0 => MmcToldAt("setup_hs200"))
    BY <1>20, <1>2, <1>3, <1>4
  <2>2. Level(h, "1.8")
    BY <1>20, <2>1, <1>1, <1>o DEF MmcHostAt
  <2>3. h' = SetupClock(h, "MMC_HS200") /\ card' = card
    BY <1>20, <2>1, <1>1 DEF MmcGoes, MmcAfter
  <2>4. op'.step = "tuning"
    BY <1>20, <2>1, <2>2, <1>1 DEF MmcAfter
  <2>5. Level(h', "1.8") /\ TimedFor(h', "MMC_HS200")
    BY <2>2, <2>3, <1>t, <1>m DEF SameTiming, TimedFor, Level
  <2>6. MmcHostAt(op.step)' /\ op'.step \in MmcWay
    BY ONLY <2>3, <2>4, <2>5, <1>e DEF MmcHostAt, MmcWay, CommonSteps, MmcOnly
  <2>7. ASSUME swaps = 0 PROVE MmcToldAt(op.step)'
    <3>1. Told("HS200")
      BY <2>1, <2>7 DEF MmcToldAt
    <3>2. Told("HS200")'
      BY <2>3, <2>5, <3>1, <1>t, <1>m, <1>c DEF Told, CardStates
    <3>. QED
      BY ONLY <2>4, <3>2 DEF MmcToldAt
  <2>. QED
    BY <2>6, <2>7
<1>21. CASE op.step = "tuning"
  <2>1. MmcGoes("tuning") /\ MmcAfter("tuning", store') /\ MmcHostAt("tuning") /\ (swaps = 0 => MmcToldAt("tuning"))
    BY <1>21, <1>2, <1>3, <1>4
  <2>2. Level(h, "1.8") /\ TimedFor(h, "MMC_HS200")
    BY <1>21, <2>1, <1>1, <1>o DEF MmcHostAt
  <2>3. h' = Tuned(h) /\ card' = card
    BY <1>21, <2>1, <1>1 DEF MmcGoes, MmcAfter
  <2>4. op'.step = "check_status"
    BY <1>21, <2>1, <2>2, <1>1 DEF MmcAfter
  <2>5. Level(h', "1.8") /\ TimedFor(h', "MMC_HS200") /\ h'.tap = "tuned"
    BY <2>2, <2>3, <1>u, <1>m DEF SameTiming, TimedFor, Level
  <2>6. MmcHostAt(op.step)' /\ op'.step \in MmcWay
    BY ONLY <2>3, <2>4, <2>5, <1>e DEF MmcHostAt, MmcWay, CommonSteps, MmcOnly
  <2>7. ASSUME swaps = 0 PROVE MmcToldAt(op.step)'
    <3>1. Told("HS200")
      BY <2>1, <2>7 DEF MmcToldAt
    <3>2. Told("HS200")'
      BY <2>3, <2>5, <3>1, <1>u, <1>m, <1>c DEF Told, CardStates
    <3>. QED
      BY ONLY <2>4, <3>2 DEF MmcToldAt
  <2>. QED
    BY <2>6, <2>7
<1>22. CASE op.step = "check_status"
  <2>1. MmcGoes("check_status") /\ MmcAfter("check_status", store') /\ MmcHostAt("check_status") /\ (swaps = 0 => MmcToldAt("check_status"))
    BY <1>22, <1>2, <1>3, <1>4
  <2>2. Level(h, "1.8") /\ TimedFor(h, "MMC_HS200") /\ h.tap = "tuned"
    BY <1>22, <2>1, <1>1, <1>o DEF MmcHostAt
  <2>3. h' = R /\ card' = card /\ (op'.step = "save_tap" <=> Hs400)
    BY <1>22, <2>1, <1>1 DEF MmcGoes, MmcAfter
  <2>4. op'.step \in {"save_tap", "ready"}
    BY <1>22, <2>1, <2>2, <1>1 DEF MmcAfter
  <2>5. Level(h', "1.8") /\ TimedFor(h', "MMC_HS200") /\ h'.tap = "tuned"
    BY <2>2, <2>3, <1>r, <1>m DEF SameTiming, TimedFor, Level
  <2>6. MmcHostAt(op.step)' /\ op'.step \in MmcWay
    BY ONLY <2>3, <2>4, <2>5, <1>e DEF MmcHostAt, MmcWay, CommonSteps, MmcOnly
  <2>7. ASSUME swaps = 0 PROVE MmcToldAt(op.step)'
    <3>1. Told("HS200")
      BY <2>1, <2>7 DEF MmcToldAt
    <3>2. Told("HS200")'
      BY <2>3, <2>5, <3>1, <1>r, <1>m, <1>c DEF Told, CardStates
    <3>3. op'.step = "ready" => Agreed'
      <4>1. Level(h', h'.ldo)
        BY <2>5 DEF Level
      <4>. QED
        BY <2>5, <3>2, <4>1, <1>2, AgreesThen
    <3>. QED
      BY ONLY <2>4, <3>2, <3>3 DEF MmcToldAt
  <2>. QED
    BY <2>6, <2>7
<1>23. CASE op.step = "save_tap"
  <2>1. MmcGoes("save_tap") /\ MmcAfter("save_tap", store') /\ MmcHostAt("save_tap") /\ (swaps = 0 => MmcToldAt("save_tap"))
    BY <1>23, <1>2, <1>3, <1>4
  <2>2. Level(h, "1.8") /\ TimedFor(h, "MMC_HS200") /\ Hs400
    BY <1>23, <2>1, <1>1, <1>o DEF MmcHostAt
  <2>3. h' = SaveTapValue(h) /\ card' = card
    BY <1>23, <2>1, <1>1 DEF MmcGoes, MmcAfter
  <2>4. op'.step = "switch_hs52"
    BY <1>23, <2>1, <2>2, <1>1 DEF MmcAfter
  <2>5. Level(h', "1.8") /\ h'.saved /\ Hs400
    BY <2>2, <2>3, <1>v, <1>m DEF SameTiming, TimedFor, Level
  <2>6. MmcHostAt(op.step)' /\ op'.step \in MmcWay
    BY ONLY <2>3, <2>4, <2>5, <1>e DEF MmcHostAt, MmcWay, CommonSteps, MmcOnly
  <2>7. ASSUME swaps = 0 PROVE MmcToldAt(op.step)'
    <3>1. Told("HS200")
      BY <2>1, <2>7 DEF MmcToldAt
    <3>2. Told("HS200")'
      BY <2>3, <2>5, <3>1, <1>v, <1>m, <1>c DEF Told, CardStates
    <3>. QED
      BY ONLY <2>4, <3>2 DEF MmcToldAt
  <2>. QED
    BY <2>6, <2>7
<1>24. CASE op.step = "switch_hs52"
  <2>1. MmcGoes("switch_hs52") /\ MmcAfter("switch_hs52", store') /\ MmcHostAt("switch_hs52") /\ (swaps = 0 => MmcToldAt("switch_hs52"))
    BY <1>24, <1>2, <1>3, <1>4
  <2>2. Level(h, "1.8") /\ h.saved /\ Hs400
    BY <1>24, <2>1, <1>1, <1>o DEF MmcHostAt
  <2>3. h' = R /\ card' = [card EXCEPT !.mode = "HS52"]
    BY <1>24, <2>1, <1>1 DEF MmcGoes, MmcAfter
  <2>4. op'.step = "setup_hs52"
    BY <1>24, <2>1, <2>2, <1>1 DEF MmcAfter
  <2>5. Level(h', "1.8") /\ h'.saved /\ Hs400
    BY <2>2, <2>3, <1>r, <1>m DEF SameTiming, TimedFor, Level
  <2>6. MmcHostAt(op.step)' /\ op'.step \in MmcWay
    BY ONLY <2>3, <2>4, <2>5, <1>e DEF MmcHostAt, MmcWay, CommonSteps, MmcOnly
  <2>7. ASSUME swaps = 0 PROVE MmcToldAt(op.step)'
    <3>1. Told("HS200")
      BY <2>1, <2>7 DEF MmcToldAt
    <3>2. Told("HS52")'
      BY <2>3, <2>5, <3>1, <1>r, <1>m, <1>c DEF Told, CardStates
    <3>. QED
      BY ONLY <2>4, <3>2 DEF MmcToldAt
  <2>. QED
    BY <2>6, <2>7
<1>25. CASE op.step = "setup_hs52"
  <2>1. MmcGoes("setup_hs52") /\ MmcAfter("setup_hs52", store') /\ MmcHostAt("setup_hs52") /\ (swaps = 0 => MmcToldAt("setup_hs52"))
    BY <1>25, <1>2, <1>3, <1>4
  <2>2. Level(h, "1.8") /\ h.saved /\ Hs400
    BY <1>25, <2>1, <1>1, <1>o DEF MmcHostAt
  <2>3. h' = SetupClock(h, "MMC_HS52") /\ card' = card
    BY <1>25, <2>1, <1>1 DEF MmcGoes, MmcAfter
  <2>4. op'.step = "check_status2"
    BY <1>25, <2>1, <2>2, <1>1 DEF MmcAfter
  <2>5. Level(h', "1.8") /\ h'.saved /\ Hs400
    BY <2>2, <2>3, <1>t, <1>m DEF SameTiming, TimedFor, Level
  <2>6. MmcHostAt(op.step)' /\ op'.step \in MmcWay
    BY ONLY <2>3, <2>4, <2>5, <1>e DEF MmcHostAt, MmcWay, CommonSteps, MmcOnly
  <2>7. ASSUME swaps = 0 PROVE MmcToldAt(op.step)'
    <3>1. Told("HS52")
      BY <2>1, <2>7 DEF MmcToldAt
    <3>2. Told("HS52")'
      BY <2>3, <2>5, <3>1, <1>t, <1>m, <1>c DEF Told, CardStates
    <3>. QED
      BY ONLY <2>4, <3>2 DEF MmcToldAt
  <2>. QED
    BY <2>6, <2>7
<1>26. CASE op.step = "check_status2"
  <2>1. MmcGoes("check_status2") /\ MmcAfter("check_status2", store') /\ MmcHostAt("check_status2") /\ (swaps = 0 => MmcToldAt("check_status2"))
    BY <1>26, <1>2, <1>3, <1>4
  <2>2. Level(h, "1.8") /\ h.saved /\ Hs400
    BY <1>26, <2>1, <1>1, <1>o DEF MmcHostAt
  <2>3. h' = R /\ card' = card
    BY <1>26, <2>1, <1>1 DEF MmcGoes, MmcAfter
  <2>4. op'.step = "switch_ddr8"
    BY <1>26, <2>1, <2>2, <1>1 DEF MmcAfter
  <2>5. Level(h', "1.8") /\ h'.saved /\ Hs400
    BY <2>2, <2>3, <1>r, <1>m DEF SameTiming, TimedFor, Level
  <2>6. MmcHostAt(op.step)' /\ op'.step \in MmcWay
    BY ONLY <2>3, <2>4, <2>5, <1>e DEF MmcHostAt, MmcWay, CommonSteps, MmcOnly
  <2>7. ASSUME swaps = 0 PROVE MmcToldAt(op.step)'
    <3>1. Told("HS52")
      BY <2>1, <2>7 DEF MmcToldAt
    <3>2. Told("HS52")'
      BY <2>3, <2>5, <3>1, <1>r, <1>m, <1>c DEF Told, CardStates
    <3>. QED
      BY ONLY <2>4, <3>2 DEF MmcToldAt
  <2>. QED
    BY <2>6, <2>7
<1>27. CASE op.step = "switch_ddr8"
  <2>1. MmcGoes("switch_ddr8") /\ MmcAfter("switch_ddr8", store') /\ MmcHostAt("switch_ddr8") /\ (swaps = 0 => MmcToldAt("switch_ddr8"))
    BY <1>27, <1>2, <1>3, <1>4
  <2>2. Level(h, "1.8") /\ h.saved /\ Hs400
    BY <1>27, <2>1, <1>1, <1>o DEF MmcHostAt
  <2>3. h' = R /\ card' = card
    BY <1>27, <2>1, <1>1 DEF MmcGoes, MmcAfter
  <2>4. op'.step = "switch_hs400"
    BY <1>27, <2>1, <2>2, <1>1 DEF MmcAfter
  <2>5. Level(h', "1.8") /\ h'.saved /\ Hs400
    BY <2>2, <2>3, <1>r, <1>m DEF SameTiming, TimedFor, Level
  <2>6. MmcHostAt(op.step)' /\ op'.step \in MmcWay
    BY ONLY <2>3, <2>4, <2>5, <1>e DEF MmcHostAt, MmcWay, CommonSteps, MmcOnly
  <2>7. ASSUME swaps = 0 PROVE MmcToldAt(op.step)'
    <3>1. Told("HS52")
      BY <2>1, <2>7 DEF MmcToldAt
    <3>2. Told("HS52")'
      BY <2>3, <2>5, <3>1, <1>r, <1>m, <1>c DEF Told, CardStates
    <3>. QED
      BY ONLY <2>4, <3>2 DEF MmcToldAt
  <2>. QED
    BY <2>6, <2>7
<1>28. CASE op.step = "switch_hs400"
  <2>1. MmcGoes("switch_hs400") /\ MmcAfter("switch_hs400", store') /\ MmcHostAt("switch_hs400") /\ (swaps = 0 => MmcToldAt("switch_hs400"))
    BY <1>28, <1>2, <1>3, <1>4
  <2>2. Level(h, "1.8") /\ h.saved /\ Hs400
    BY <1>28, <2>1, <1>1, <1>o DEF MmcHostAt
  <2>3. h' = R /\ card' = [card EXCEPT !.mode = "HS400"]
    BY <1>28, <2>1, <1>1 DEF MmcGoes, MmcAfter
  <2>4. op'.step = "setup_hs400"
    BY <1>28, <2>1, <2>2, <1>1 DEF MmcAfter
  <2>5. Level(h', "1.8") /\ h'.saved /\ Hs400
    BY <2>2, <2>3, <1>r, <1>m DEF SameTiming, TimedFor, Level
  <2>6. MmcHostAt(op.step)' /\ op'.step \in MmcWay
    BY ONLY <2>3, <2>4, <2>5, <1>e DEF MmcHostAt, MmcWay, CommonSteps, MmcOnly
  <2>7. ASSUME swaps = 0 PROVE MmcToldAt(op.step)'
    <3>1. Told("HS52")
      BY <2>1, <2>7 DEF MmcToldAt
    <3>2. Told("HS400")'
      BY <2>3, <2>5, <3>1, <1>r, <1>m, <1>c DEF Told, CardStates
    <3>. QED
      BY ONLY <2>4, <3>2 DEF MmcToldAt
  <2>. QED
    BY <2>6, <2>7
<1>29. CASE op.step = "setup_hs400"
  <2>1. MmcGoes("setup_hs400") /\ MmcAfter("setup_hs400", store') /\ MmcHostAt("setup_hs400") /\ (swaps = 0 => MmcToldAt("setup_hs400"))
    BY <1>29, <1>2, <1>3, <1>4
  <2>2. Level(h, "1.8") /\ h.saved /\ Hs400
    BY <1>29, <2>1, <1>1, <1>o DEF MmcHostAt
  <2>3. h' = SetupClock(h, "MMC_HS400") /\ card' = card
    BY <1>29, <2>1, <1>1 DEF MmcGoes, MmcAfter
  <2>4. op'.step = "check_status3"
    BY <1>29, <2>1, <2>2, <1>1 DEF MmcAfter
  <2>5. Level(h', "1.8") /\ h'.saved /\ Hs400 /\ TimedFor(h', "MMC_HS400") /\ h'.tap = "saved"
    BY <2>2, <2>3, <1>t, <1>x, <1>m DEF SameTiming, TimedFor, Level
  <2>6. MmcHostAt(op.step)' /\ op'.step \in MmcWay
    BY ONLY <2>3, <2>4, <2>5, <1>e DEF MmcHostAt, MmcWay, CommonSteps, MmcOnly
  <2>7. ASSUME swaps = 0 PROVE MmcToldAt(op.step)'
    <3>1. Told("HS400")
      BY <2>1, <2>7 DEF MmcToldAt
    <3>2. Told("HS400")'
      BY <2>3, <2>5, <3>1, <1>t, <1>x, <1>m, <1>c DEF Told, CardStates
    <3>. QED
      BY ONLY <2>4, <3>2 DEF MmcToldAt
  <2>. QED
    BY <2>6, <2>7
<1>30. CASE op.step = "check_status3"
  <2>1. MmcGoes("check_status3") /\ MmcAfter("check_status3", store') /\ MmcHostAt("check_status3") /\ (swaps = 0 => MmcToldAt("check_status3"))
    BY <1>30, <1>2, <1>3, <1>4
  <2>2. Level(h, "1.8") /\ h.saved /\ Hs400 /\ TimedFor(h, "MMC_HS400") /\ h.tap = "saved"
    BY <1>30, <2>1, <1>1, <1>o DEF MmcHostAt
  <2>3. h' = R /\ card' = card
    BY <1>30, <2>1, <1>1 DEF MmcGoes, MmcAfter
  <2>4. op'.step = "ready"
    BY <1>30, <2>1, <2>2, <1>1 DEF MmcAfter
  <2>5. Level(h', "1.8") /\ h'.saved /\ Hs400 /\ TimedFor(h', "MMC_HS400") /\ h'.tap = "saved"
    BY <2>2, <2>3, <1>r, <1>m, ZenonT(60) DEF SameTiming, TimedFor, Level
  <2>6. MmcHostAt(op.step)' /\ op'.step \in MmcWay
    BY ONLY <2>3, <2>4, <2>5, <1>e DEF MmcHostAt, MmcWay, CommonSteps, MmcOnly
  <2>7. ASSUME swaps = 0 PROVE MmcToldAt(op.step)'
    <3>1. Told("HS400")
      BY <2>1, <2>7 DEF MmcToldAt
    <3>2. Told("HS400")'
      BY <2>3, <2>5, <3>1, <1>r, <1>m, <1>c DEF Told, CardStates
    <3>3. op'.step = "ready" => Agreed'
      <4>1. Level(h', h'.ldo)
        BY <2>5 DEF Level
      <4>. QED
        BY <2>5, <3>2, <4>1, <1>2, AgreesThen
    <3>. QED
      BY ONLY <2>4, <3>2, <3>3 DEF MmcToldAt
  <2>. QED
    BY <2>6, <2>7
<1>. QED
  BY <1>1, <1>7, StepsAre, <1>8, <1>9, <1>10, <1>11, <1>12, <1>13, <1>14, <1>15, <1>16, <1>17, <1>18, <1>19, <1>20, <1>21, <1>22, <1>23, <1>24, <1>25, <1>26, <1>27, <1>28, <1>29, <1>30 DEF CommonSteps, MmcOnly

(***************************************************************************)
(* The steps around an initialisation.                                     *)
(***************************************************************************)
\* sdmmc_storage_end: everything off, the eMMC's rails on, or nothing done at all.
LEMMA EndChanges ==
  ASSUME ShapeInv, PowerInv, StorageEnd
  PROVE  /\ h' \in HostShape /\ h'.id = h.id /\ (Plls(h) => Plls(h'))
         /\ store' \in Records /\ faults' \in Nat
         /\ \/ /\ h.id = "sd" /\ ~h'.vdd /\ h'.ldo = "off" /\ h'.io = "off" /\ ~h'.on /\ ~h'.ck
               /\ ~h'.en /\ card' = Unpowered /\ lapses' = {} /\ ~store'.init
            \/ /\ h.id = "emmc" /\ h'.vdd /\ h'.ldo = h.ldo /\ ~h'.en
               /\ card' \in {card, Idled} /\ lapses' = lapses /\ ~store'.init
            \/ /\ h' = h /\ store' = store
               /\ card' = card \/ (Talks /\ card' = Idled)
               /\ lapses' = IF h.vdd THEN lapses \cup {"end"} ELSE lapses
<1>0. h \in HostShape /\ store \in Records /\ faults \in Nat /\ faults + 1 \in Nat
  BY DEF ShapeInv, Records
<1>1. CASE /\ h.en
           /\ h' = SdmmcEnd(h)
           /\ card' = IF h'.vdd THEN (IF Talks THEN Idled ELSE card) ELSE Unpowered
           /\ store' = [store EXCEPT !.init = FALSE]
           /\ lapses' = IF h'.vdd THEN lapses ELSE {}
           /\ UNCHANGED faults
  <2>1. ~h.stopped
    BY <1>1 DEF PowerInv
  <2>2. /\ h' \in HostShape /\ ~h'.en /\ ~h'.ck /\ ~h'.on /\ h'.io = "off" /\ h'.id = h.id
        /\ IF h.id = "sd" THEN ~h'.vdd /\ h'.ldo = "off" ELSE h'.vdd = h.vdd /\ h'.ldo = h.ldo
        /\ Plls(h) => Plls(h')
    BY <1>0, <1>1, <2>1, EndDoes
  <2>3. store' \in Records /\ ~store'.init
    BY <1>0, <1>1 DEF Records
  <2>4. h.id \in {"sd", "emmc"}
    BY <1>0, HostFields DEF Ids
  <2>5. CASE h.id = "sd"
    BY <1>0, <1>1, <2>2, <2>3, <2>5
  <2>6. CASE h.id = "emmc"
    <3>1. h.vdd
      BY <2>6 DEF PowerInv
    <3>. QED
      BY <1>0, <1>1, <2>2, <2>3, <2>6, <3>1
  <2>. QED
    BY <2>4, <2>5, <2>6
<1>2. CASE /\ IF h.en THEN Spend ELSE UNCHANGED faults
           /\ card' \in IF Talks THEN {card, Idled} ELSE {card}
           /\ lapses' = IF h.vdd THEN lapses \cup {"end"} ELSE lapses
           /\ UNCHANGED <<h, store>>
  BY <1>0, <1>2 DEF Spend, Plls
<1>. QED
  BY <1>1, <1>2 DEF StorageEnd

\* The program's steps around the initialisations, by what they do to the slot.
PowerCycles == InitLoop \/ InitGivesUp \/ ReinitFirst \/ ReinitAgain \/ (Deinit /\ mounted)
QuietOnes == Mount \/ InitOnceFails \/ FatMount \/ Transfer \/ (Deinit /\ ~mounted)
Requests == Ready \/ TransferRequest \/ RequestFails
Others == PowerCycles \/ QuietOnes \/ Requests

\* What the program's other steps do to the controller, the card and the record.
LEMMA OtherChanges ==
  ASSUME ShapeInv, Others
  PROVE  /\ UNCHANGED <<cap, b01, swaps>>
         /\ \/ PowerCycles /\ StorageEnd
            \/ QuietOnes /\ UNCHANGED <<h, card, store, lapses>>
            \/ /\ TransferRequest \/ RequestFails
               /\ h' = R /\ UNCHANGED <<card, store, lapses>>
            \/ /\ Ready /\ h' = CardClockPowersave(h, TRUE) /\ store' = [store EXCEPT !.init = TRUE]
               /\ UNCHANGED <<card, lapses>>
<1>1. CASE PowerCycles
  BY <1>1 DEF PowerCycles, InitLoop, InitGivesUp, ReinitFirst, ReinitAgain, Deinit, PowerCycle, env
<1>2. CASE QuietOnes
  BY <1>2 DEF QuietOnes, Mount, InitOnceFails, FatMount, Transfer, Deinit, env
<1>3. CASE Requests
  BY <1>3 DEF Requests, Ready, TransferRequest, RequestFails, R, env
<1>. QED
  BY <1>1, <1>2, <1>3 DEF Others

\* Where the program goes from there: back to the start of an initialisation, or out of it.
LEMMA OtherPlaces ==
  ASSUME ShapeInv, PlaceInv, Others
  PROVE  /\ op' \in Places /\ op'.step \in {"idle", "failed", "f_mount", "try", "reinit", "sdmmc_init"}
         /\ mode' \in SD_INIT_FAIL .. SD_UHS_SDR82 /\ mounted' \in BOOLEAN
         /\ calls' \in Nat /\ faults' \in Nat
         /\ op.step \in {"idle", "failed", "f_mount", "try", "reinit", "ready"}
         /\ op'.step = "sdmmc_init" => op.call = "off" \/ PowerCycles
         /\ op'.call = "off" => op.call = "off"
         /\ PlaceInv'
<1>0. /\ op \in Places /\ mode \in 0 .. 3 /\ mounted \in BOOLEAN /\ calls \in Nat /\ faults \in Nat
      /\ Sectors \in Nat \ {0} /\ cap.kind \in {"sd", "emmc"} /\ store \in Records
  BY CardsAssumption, BoundsAssumption DEF ShapeInv, SD_INIT_FAIL, SD_UHS_SDR82, CardShape, Ids, Records
<1>. USE DEF SD_INIT_FAIL, SD_UHS_SDR82
<1>s. /\ \A s \in {"idle", "failed", "f_mount", "try", "reinit"} : s \notin Steps
      /\ "sdmmc_init" \in Steps /\ "ready" \in Steps
  BY StepsAre DEF CommonSteps, SdOnly, MmcOnly
<1>n. /\ {"idle", "failed", "f_mount", "try", "reinit", "sdmmc_init"} \subseteq StepNames
      /\ {"off", "mount", "rw", "idle"} = CallNames
  BY <1>s DEF StepNames, CallNames
<1>q. op \in Places
  BY <1>0
<1>p. op.call \in {"off", "mount", "rw", "idle"} /\ op.left \in Nat /\ op.tries \in Nat
  BY <1>0, <1>n DEF Places
<1>f. StorageEnd => faults' \in Nat
  BY <1>0 DEF StorageEnd, Spend
<1>1. CASE Mount
  <2>1. /\ op'.call = "mount" /\ op'.step = IF mode = 0 THEN "failed" ELSE "sdmmc_init"
        /\ op'.left = op.left /\ op'.first = op.first /\ op' \in Places
    BY <1>0, <1>1, <1>s, <1>n DEF Mount, Places
  <2>2. /\ UNCHANGED <<cap, store, mode, mounted, moved, calls, faults, result>>
        /\ op.call = "off" /\ op.step = "idle"
    BY <1>1 DEF Mount, PlaceInv, env
  <2>. QED
    BY <2>1, <2>2, <1>0, <1>s DEF PlaceInv
<1>2. CASE Ready
  <2>1. op.call \in {"mount", "rw"} /\ op.step = "ready" /\ mode # 0
    BY <1>2, <1>s, <1>p DEF PlaceInv, Ready
  <2>2. /\ op'.call = op.call /\ op' \in Places
        /\ \/ op.call = "mount" /\ op'.step = "f_mount" /\ moved' = moved
           \/ op.call = "rw" /\ op'.step = "try" /\ op'.left = Sectors /\ ~op'.first /\ moved' = {}
    <3>1. CASE op.call = "mount"
      BY <1>0, <1>2, <3>1, <1>n DEF Ready, Goto, Places
    <3>2. CASE op.call = "rw"
      <4>1. /\ op' = [op EXCEPT !.step = "try", !.tries = 3, !.first = FALSE, !.left = Sectors]
            /\ moved' = {}
        BY <1>2, <3>2 DEF Ready
      <4>2. Sectors \in Nat /\ 3 \in Nat
        BY <1>0
      <4>. QED
        BY ONLY <1>q, <3>2, <4>1, <4>2, <1>n DEF Places
    <3>. QED
      BY <2>1, <3>1, <3>2
  <2>3. UNCHANGED <<cap, mode, mounted, calls, faults, result>>
    BY <1>2 DEF Ready, env
  <2>4. 1 .. Sectors - Sectors = {} /\ Sectors \in 1 .. Sectors
    BY <1>0
  <2>5. CASE op.call = "mount"
    BY <2>1, <2>2, <2>3, <2>5, <1>0, <1>s DEF PlaceInv
  <2>6. CASE op.call = "rw"
    BY <2>1, <2>2, <2>3, <2>4, <2>6, <1>0, <1>s DEF PlaceInv
  <2>. QED
    BY <2>1, <2>5, <2>6
<1>3. CASE InitLoop
  <2>1. /\ op.step = "failed" /\ cap.kind = "sd" /\ mode # 0 /\ mode' = mode - 1
        /\ op' = [op EXCEPT !.step = IF mode' = 0 THEN "failed" ELSE "sdmmc_init"]
        /\ UNCHANGED <<env, mounted, moved, result>> /\ StorageEnd
    BY <1>3 DEF InitLoop, PowerCycle, Goto
  <2>2. /\ op'.call = op.call /\ op' \in Places
        /\ op'.step = IF mode' = 0 THEN "failed" ELSE "sdmmc_init"
        /\ op'.first = op.first /\ op'.ret = op.ret
    BY <1>0, <2>1, <1>s, <1>n DEF Places
  <2>3. op.call \in {"mount", "rw"} /\ faults' \in Nat
    BY <2>1, <1>p, <1>0, <1>f DEF PlaceInv
  <2>. QED
    BY <2>1, <2>2, <2>3, <1>0, <1>s, <1>3 DEF PlaceInv, env, PowerCycles
<1>4. CASE InitGivesUp
  <2>1. /\ op.step = "failed" /\ cap.kind = "sd" /\ mode' \in {mode, 3} /\ StorageEnd
        /\ op' = [op EXCEPT !.call = "idle", !.step = "idle"] /\ result' = "failed"
        /\ UNCHANGED <<env, mounted, moved>>
    BY <1>4 DEF InitGivesUp, Return
  <2>2. op'.call = "idle" /\ op' \in Places /\ op'.step = "idle" /\ faults' \in Nat
    BY <1>0, <2>1, <1>f, <1>n DEF Places
  <2>. QED
    BY <2>1, <2>2, <1>0, <1>s DEF PlaceInv, env
<1>5. CASE InitOnceFails \/ FatMount
  <2>1. /\ op.step \in {"failed", "f_mount"} /\ op' = [op EXCEPT !.call = "idle", !.step = "idle"]
        /\ result' \in {"ok", "failed"} /\ mounted' \in {mounted, TRUE} /\ faults' \in {faults, faults + 1}
        /\ UNCHANGED <<env, mode, moved, store>>
    BY <1>5 DEF InitOnceFails, FatMount, Return, Spend
  <2>2. op'.call = "idle" /\ op' \in Places /\ op'.step = "idle"
    BY ONLY <1>q, <2>1, <1>n DEF Places
  <2>3. faults' \in Nat
    BY <1>0, <2>1
  <2>. QED
    BY <2>1, <2>2, <2>3, <1>0, <1>s DEF PlaceInv, env
<1>6. CASE Transfer
  <2>1. /\ op.call = "idle" /\ op.step = "idle" /\ store.init /\ result # "gone" /\ calls' = calls + 1 /\ moved' = {}
        /\ UNCHANGED <<cap, store, mode, mounted, faults, result>>
    BY <1>6 DEF Transfer, PlaceInv
  <2>2. op'.call = "rw" /\ op' \in Places /\ op'.step = "try" /\ op'.first /\ op'.left = Sectors
    BY <1>0, <1>6, <1>n DEF Transfer, Places
  <2>. QED
    BY <2>1, <2>2, <1>0, <1>s DEF PlaceInv
<1>7. CASE TransferRequest
  <2>1. /\ op.step = "try" /\ op.call = "rw" /\ op.left \in 1 .. Sectors
        /\ moved = 1 .. Sectors - op.left /\ moved' = moved \cup {Sectors - op.left + 1}
        /\ UNCHANGED <<cap, calls, store, mode, mounted, faults>>
    BY <1>7 DEF TransferRequest, PlaceInv, env
  <2>2. moved' = 1 .. Sectors - (op.left - 1) /\ moved' \subseteq 1 .. Sectors
    BY <2>1, <1>0
  <2>3. CASE op.left = 1
    <3>1. op' = [op EXCEPT !.call = "idle", !.step = "idle"] /\ result' = "ok"
      BY <1>7, <2>3 DEF TransferRequest, Return
    <3>2. op'.call = "idle" /\ op' \in Places /\ op'.step = "idle"
      BY <1>0, <3>1, <1>n DEF Places
    <3>. QED
      BY <2>1, <2>2, <3>1, <3>2, <1>0, <1>s DEF PlaceInv
  <2>4. CASE op.left # 1
    <3>1. op' = [op EXCEPT !.left = op.left - 1, !.tries = 5] /\ result' = result
      BY <1>7, <2>4 DEF TransferRequest
    <3>2. /\ op'.call = "rw" /\ op' \in Places /\ op'.step = "try" /\ op'.left = op.left - 1
          /\ op'.first = op.first
      <4>1. op.left - 1 \in Nat /\ 5 \in Nat /\ op.call = "rw" /\ op.step = "try"
        BY <2>1, <2>4, <1>0
      <4>. QED
        BY ONLY <1>q, <3>1, <4>1, <1>n DEF Places
    <3>. QED
      BY <2>1, <2>2, <2>4, <3>1, <3>2, <1>0, <1>s DEF PlaceInv
  <2>. QED
    BY <2>3, <2>4
<1>8. CASE RequestFails
  <2>1. /\ op.step = "try" /\ op.call = "rw" /\ faults' \in {faults, faults + 1}
        /\ UNCHANGED <<cap, calls, store, mode, mounted, moved>>
    BY <1>8 DEF RequestFails, PlaceInv, env, Spend
  <2>2. CASE op' = [op EXCEPT !.tries = op.tries - 1] /\ op.tries > 1 /\ result' = result
    <3>1. /\ op'.call = "rw" /\ op' \in Places /\ op'.step = "try" /\ op'.left = op.left
          /\ op'.first = op.first
      BY <1>0, <1>p, <2>1, <2>2, <1>n DEF Places
    <3>. QED
      BY <2>1, <2>2, <3>1, <1>0, <1>s DEF PlaceInv
  <2>3. CASE op' = [op EXCEPT !.step = "reinit"] /\ cap.kind = "sd" /\ result' = result
    <3>1. op'.call = "rw" /\ op' \in Places /\ op'.step = "reinit" /\ op'.first = op.first
      BY <1>0, <2>1, <2>3, <1>n DEF Places
    <3>. QED
      BY <2>1, <2>3, <3>1, <1>0, <1>s DEF PlaceInv
  <2>4. CASE op' = [op EXCEPT !.call = "idle", !.step = "idle"] /\ result' = "failed"
    <3>1. op'.call = "idle" /\ op' \in Places /\ op'.step = "idle"
      BY <1>0, <2>4, <1>n DEF Places
    <3>. QED
      BY <2>1, <2>4, <3>1, <1>0, <1>s DEF PlaceInv
  <2>. QED
    BY <1>8, <2>2, <2>3, <2>4 DEF RequestFails, Return, Goto
<1>9. CASE ReinitFirst \/ ReinitAgain
  <2>1. /\ op.step = "reinit" /\ op.call = "rw" /\ cap.kind = "sd" /\ StorageEnd
        /\ UNCHANGED <<env, mounted, moved, result>>
    BY <1>9, <1>0 DEF ReinitFirst, ReinitAgain, PlaceInv
  <2>2. mode' \in 0 .. 3
    BY <1>9, <1>0 DEF ReinitFirst, ReinitAgain, PlaceInv
  <2>3. PICK r \in {"loop", "once"} :
           /\ op' = [op EXCEPT !.ret = r, !.step = IF mode' = 0 THEN "failed" ELSE "sdmmc_init"]
           /\ op.first <=> r = "loop"
    BY <1>9 DEF ReinitFirst, ReinitAgain
  <2>4. /\ op'.call = "rw" /\ op' \in Places /\ faults' \in Nat
        /\ op'.step = IF mode' = 0 THEN "failed" ELSE "sdmmc_init"
        /\ op'.first <=> op'.ret = "loop"
    <3>1. op' \in Places /\ op'.call = op.call /\ op'.first = op.first /\ op'.ret = r
      BY ONLY <1>q, <2>3, <1>n DEF Places
    <3>2. op'.step = IF mode' = 0 THEN "failed" ELSE "sdmmc_init"
      BY ONLY <1>q, <2>3, <1>n DEF Places
    <3>. QED
      BY <3>1, <3>2, <2>1, <2>3, <1>f
  <2>. QED
    BY <2>1, <2>2, <2>4, <1>0, <1>s, <1>9 DEF PlaceInv, env, PowerCycles
<1>10. CASE Deinit
  <2>1. /\ op.call = "idle" /\ op.step = "idle" /\ op' = op /\ mode' \in {mode, 3} /\ mounted' = FALSE /\ moved' = moved
        /\ result' = "gone" /\ UNCHANGED env
    BY <1>10 DEF Deinit, PlaceInv
  <2>2. faults' \in Nat
    BY <1>0, <1>10 DEF Deinit, StorageEnd, Spend
  <2>3. op'.call = "idle" /\ op'.step = "idle" /\ op' \in Places
    BY <2>1, <1>q
  <2>4. mode' \in 0 .. 3 /\ (cap.kind = "emmc" => op'.step # "reinit" /\ mode' = 3) /\ moved' \subseteq 1 .. Sectors
    BY <2>1, <2>3, <1>0 DEF PlaceInv
  <2>. QED
    BY <2>1, <2>2, <2>3, <2>4, <1>0, <1>s DEF PlaceInv, env
<1>. QED
  BY <1>1, <1>2, <1>3, <1>4, <1>5, <1>6, <1>7, <1>8, <1>9, <1>10
     DEF Others, PowerCycles, QuietOnes, Requests

(***************************************************************************)
(* The layers under a step of an initialisation.                           *)
(***************************************************************************)
\* A step only adds to the lapses, and only when the card has changed its level.
LEMMA WalkLapses ==
  ASSUME Walk
  PROVE  lapses' = lapses \/ lapses' = lapses \cup {"answer"}
<1>1. CASE CommonStep
  BY <1>1 DEF Walk, CommonStep, SdmmcInit, SdmmcStart, GoIdleState, GetCid, GetCsd, SelectCard,
      SetBlocklen, CheckStatus, CheckStatus2, CheckStatus3, TuningExecute,
      Done, Setting, Accepted, Failed, Command, DataCommand, Ask
<1>2. CASE SdStep
  BY <1>2 DEF SdStep, SendIfCond, SdGetOpCond, SwitchVoltage, EnableLowVoltage, GetRca,
      SetupDs12, ClrCardDetect, GetScr, SetBusWidth4, SwitchGet, SetCurrentLimit, SwitchCheck,
      SwitchSet, SetupUhs, SetupHs25, GetSsr,
      Done, Setting, Accepted, Failed, Command, DataCommand, Ask
<1>3. CASE MmcStep
  BY <1>3 DEF MmcStep, MmcGetOpCond, SetRelativeAddr, SetupLs26, SwitchBuswidth,
      GetExtCsd, EnableHS200, EnableHS, EnableHS400,
      Done, Setting, Accepted, Failed, Command, DataCommand, Ask
<1>. QED
  BY <1>1, <1>2, <1>3 DEF Walk

\* The steps of the voltage switch are those of two functions.
LEMMA SwitchSteps ==
  ASSUME Walk
  PROVE  /\ op.step = "switch_voltage" => SwitchVoltage
         /\ op.step \in {"lv_clock", "lv_rail"} => EnableLowVoltage
<1>1. CASE CommonStep
  BY <1>1 DEF Walk, CommonStep, SdmmcInit, SdmmcStart, GoIdleState, GetCid, GetCsd, SelectCard,
      SetBlocklen, CheckStatus, CheckStatus2, CheckStatus3, TuningExecute,
      Done, Setting, Accepted, Failed, Command, DataCommand, Ask
<1>2. CASE SdStep
  BY <1>2 DEF SdStep, SendIfCond, SdGetOpCond, GetRca,
      SetupDs12, ClrCardDetect, GetScr, SetBusWidth4, SwitchGet, SetCurrentLimit, SwitchCheck,
      SwitchSet, SetupUhs, SetupHs25, GetSsr, SwitchVoltage, EnableLowVoltage,
      Done, Setting, Accepted, Failed, Command, DataCommand, Ask
<1>3. CASE MmcStep
  BY <1>3 DEF MmcStep, MmcGetOpCond, SetRelativeAddr, SetupLs26, SwitchBuswidth,
      GetExtCsd, EnableHS200, EnableHS, EnableHS400,
      Done, Setting, Accepted, Failed, Command, DataCommand, Ask
<1>. QED
  BY <1>1, <1>2, <1>3 DEF Walk

\* An SD card is only talked to when its rail is up.
LEMMA SdPowered ==
  ASSUME SessionInv, Walk, cap.kind = "sd"
  PROVE  h.ldo \in {"1.8", "3.3"} /\ h.vdd
<1>1. op.step \in (CommonSteps \cup SdOnly) \ {"sdmmc_init", "ready"}
  BY Walks, StepsAre DEF SessionInv, HostInv
<1>2. SdHostAt(op.step) /\ h.ldo \in Levels
  BY HostFields DEF SessionInv, HostInv, ShapeInv
<1>3. h.ldo \in {"1.8", "3.3"}
  BY ONLY <1>1, <1>2 DEF CommonSteps, SdOnly, SdHostAt, Level, Levels, Identifying, Switching, Asking, Selected
<1>. QED
  BY <1>3, <1>2 DEF SessionInv, PowerInv, ShapeInv

\* Only the switch raises the card's level, and not without a trace when it goes wrong.
LEMMA SwitchKeeps ==
  ASSUME SessionInv, Walk, cap.kind = "sd"
  PROVE  LapseInv'
<1>. USE DEF SessionInv
<1>1. /\ cap' = cap /\ op'.call = op.call /\ op.call # "off" /\ op'.step # "sdmmc_init"
      /\ op \in Places /\ op.step \in Steps
  <2>1. /\ op \in Places /\ op' = [op EXCEPT !.step = op'.step] /\ cap' = cap /\ op.step \in Steps
    BY Walks DEF ShapeInv, env
  <2>2. op'.call = op.call
    BY <2>1 DEF Places
  <2>3. op.call # "off"
    BY <2>1, StepsAre DEF PlaceInv, CommonSteps, SdOnly, MmcOnly
  <2>4. op'.step # "sdmmc_init"
    BY SdSuccess DEF SdWay
  <2>. QED
    BY <2>1, <2>2, <2>3, <2>4
<1>. SUFFICES ASSUME card'.sig = "1.8", lapses' = {}
              PROVE  h'.ldo = "1.8" \/ op'.step \in {"lv_clock", "lv_rail"}
  BY <1>1 DEF LapseInv
<1>2. lapses = {} /\ card \in CardStates
  BY WalkLapses DEF ShapeInv
<1>3. SdHostAt(op.step) /\ (op'.step # "failed" => SdGoes(op.step) /\ op'.step = Following(op.step, store'))
  BY SdGoesOn, Walks DEF HostInv
<1>f. /\ store' \in Records /\ store \in Records /\ SdAfter(op.step, store')
  BY StoreChanges, SdFollowing, CardsAssumption, <1>1 DEF ShapeInv, Records
<1>4. CASE op.step = "switch_voltage"
  <2>1. card.sig # "1.8" /\ store.s18
    BY <1>2, <1>3, <1>4 DEF LapseInv, SdHostAt, Level, Switching, Identifying
  <2>2. op' = [op EXCEPT !.step = Following("switch_voltage", store)] /\ store' = store
    BY <2>1, <1>2, <1>4, SwitchSteps DEF SwitchVoltage, Accepted, Done, Failed
  <2>3. op'.step = "lv_clock"
    BY <2>1, <2>2, <1>1, <1>4, <1>f DEF SdAfter, Places
  <2>. QED
    BY <2>3
<1>5. CASE op.step \in {"lv_clock", "lv_rail"}
  <2>1. op'.step # "failed"
    <3>1. op' = [op EXCEPT !.step = Following(op.step, store)] /\ store' = store
      BY <1>5, SwitchSteps DEF EnableLowVoltage, Setting, Done, Failed
    <3>2. store.s18
      BY <1>3, <1>5 DEF SdHostAt, Switching
    <3>. QED
      BY <3>1, <3>2, <1>1, <1>5, <1>f DEF SdAfter, Places
  <2>2. store' = store /\ store.s18
    BY <2>1, <1>3, <1>5 DEF SdGoes, SdHostAt, Switching
  <2>3. CASE op.step = "lv_clock"
    BY <2>1, <2>2, <2>3, <1>3, <1>f DEF SdAfter
  <2>4. CASE op.step = "lv_rail"
    BY <2>1, <2>4, <1>3, LowerRailDoes DEF SdGoes, Level, ShapeInv
  <2>. QED
    BY <1>5, <2>3, <2>4
<1>6. CASE op.step \notin {"switch_voltage", "lv_clock", "lv_rail"}
  <2>1. card'.sig = card.sig
    BY <1>2, <1>6, CardChanges DEF CardStates, Idled
  <2>. QED
    BY <2>1, <1>2, <1>6, HostStays DEF LapseInv
<1>. QED
  BY <1>4, <1>5, <1>6

\* A card is only told what CardInv allows, whether it succeeds or not.
LEMMA CardKeeps ==
  ASSUME SessionInv, Walk
  PROVE  card' \in CardStates /\ CardInv'
<1>. USE DEF SessionInv
<1>0. card \in CardStates /\ CardInv /\ cap' = cap /\ swaps' = swaps /\ cap.kind \in {"sd", "emmc"}
  BY Walks, CardsAssumption DEF ShapeInv, env, CardShape, Ids
<1>1. CASE card' = card
  BY <1>0, <1>1 DEF CardInv
<1>2. CASE card' = Idled /\ Talks
  <2>1. /\ card' \in CardStates /\ card'.st = "idle" /\ card'.width = 1 /\ card'.mode = "DS"
        /\ card'.sig = card.sig /\ card'.ins = card.ins
    BY <1>0, <1>2 DEF Idled, CardStates, Widths, Modes
  <2>. QED
    BY <2>1, <1>0, <1>2 DEF CardInv, Talks
<1>3. CASE op.step = "get_op_cond" /\ Talks /\ card.st = "idle" /\ card' = [card EXCEPT !.st = "ready"]
  <2>1. /\ card' \in CardStates /\ card'.st = "ready" /\ card'.width = card.width /\ card'.mode = card.mode
        /\ card'.sig = card.sig /\ card'.ins = card.ins
    BY <1>0, <1>3 DEF CardStates
  <2>2. cap.kind = "sd" => card.sig = "3.3"
    BY <1>0, <1>3 DEF HostInv, SdHostAt, Identifying, Level, Talks
  <2>. QED
    BY <2>1, <2>2, <1>0, <1>3 DEF CardInv, Talks
<1>4. CASE /\ Talks
           /\ \/ card.st = "ready" /\ card' = [card EXCEPT !.st = "ident"]
              \/ card.st = "ident" /\ card' = [card EXCEPT !.st = "stby"]
              \/ card.st = "stby" /\ card' = [card EXCEPT !.st = "tran"]
  <2>1. PICK s \in {"ident", "stby", "tran"} : card' = [card EXCEPT !.st = s]
    BY <1>4
  <2>2. /\ card' \in CardStates /\ card'.st = s /\ card'.width = card.width /\ card'.mode = card.mode
        /\ card'.sig = card.sig /\ card'.ins = card.ins
    BY <1>0, <2>1 DEF CardStates
  <2>. QED
    BY <2>2, <1>0, <1>4 DEF CardInv, Talks
<1>5. CASE /\ op.step = "switch_voltage" /\ Talks /\ card.st = "ready"
           /\ card' = [card EXCEPT !.sig = "1.8", !.mode = "SDR12"]
  <2>1. /\ card' \in CardStates /\ card'.st = "ready" /\ card'.width = card.width /\ card'.mode = "SDR12"
        /\ card'.sig = "1.8" /\ card'.ins = card.ins
    BY <1>0, <1>5 DEF CardStates, Modes
  <2>2. cap.kind = "sd"
    BY <1>0, <1>5 DEF HostInv, SdOnly
  <2>. QED
    BY <2>1, <2>2, <1>0, <1>5 DEF CardInv, Talks
<1>6. CASE card.st = "tran" /\ \E w \in Widths : card' = [card EXCEPT !.width = w]
  <2>1. /\ card' \in CardStates /\ card'.st = "tran"
        /\ card'.sig = card.sig /\ card'.ins = card.ins
    BY <1>0, <1>6 DEF CardStates
  <2>. QED
    BY <2>1, <1>0, <1>6 DEF CardInv
<1>7. CASE card.st = "tran" /\ \E m \in Modes : card' = [card EXCEPT !.mode = m]
  <2>1. /\ card' \in CardStates /\ card'.st = "tran"
        /\ card'.sig = card.sig /\ card'.ins = card.ins
    BY <1>0, <1>7 DEF CardStates
  <2>. QED
    BY <2>1, <1>0, <1>7 DEF CardInv
<1>. QED
  BY CardChanges, <1>1, <1>2, <1>3, <1>4, <1>5, <1>6, <1>7

\* Every step of an initialisation keeps the invariant.
LEMMA WalkKeeps ==
  ASSUME SessionInv, Walk
  PROVE  SessionInv'
<1>. USE DEF SessionInv
<1>0. /\ op.step \in Steps \ {"sdmmc_init", "ready"} /\ UNCHANGED <<env, mode, mounted, moved, result>>
      /\ op \in Places /\ op' = [op EXCEPT !.step = op'.step] /\ faults' \in Nat
      /\ cap.kind \in {"sd", "emmc"} /\ h.id = cap.kind
  BY Walks, CardsAssumption DEF ShapeInv, CardShape, Ids
<1>1. op'.step = "failed" \/ op'.step \in Steps \ {"sdmmc_init", "start"}
  BY <1>0, SdSuccess, MmcSuccess, StepsAre DEF SdWay, MmcWay
<1>s. /\ \A s \in {"idle", "failed", "f_mount", "try", "reinit"} : s \notin Steps
  BY StepsAre DEF CommonSteps, SdOnly, MmcOnly
<1>2. /\ op' \in Places /\ op'.call = op.call /\ op'.left = op.left /\ op'.first = op.first
      /\ op'.ret = op.ret
  <2>1. op'.step \in StepNames
    BY <1>1 DEF StepNames
  <2>. QED
    BY <1>0, <2>1 DEF Places
<1>3. ShapeInv'
  BY <1>0, <1>2, HostStays, CardKeeps, StoreChanges DEF ShapeInv, env, Records
<1>4. PlaceInv'
  BY <1>0, <1>1, <1>2, <1>s, StoreChanges DEF PlaceInv, env
<1>5. PowerInv'
  <2>1. h'.id = "sd" => h'.vdd
    BY <1>0, SdPowered, HostStays
  <2>2. h'.en => ~h'.stopped
    <3>1. op.step = "start" => ~h.stopped
      BY <1>0 DEF HostInv, SdHostAt, MmcHostAt
    <3>. QED
      BY <3>1, HostStays DEF PowerInv
  <2>3. h'.pllOn <=> h'.pll # {}
    BY HostStays DEF PowerInv, Plls
  <2>4. h'.id = "emmc" => h'.vdd /\ h'.ldo = "1.8"
    BY <1>0, HostStays DEF PowerInv, HostInv, SdOnly
  <2>. QED
    BY <2>1, <2>2, <2>3, <2>4 DEF PowerInv
<1>6. HostInv'
  <2>1. op'.step = "failed" => HostInv'
    BY <1>0, StepsAre, <1>s DEF HostInv, SdHostAt, MmcHostAt, MmcOnly, SdOnly, Identifying, Switching, Asking, Selected
  <2>. QED
    BY <1>0, <2>1, SdSuccess, MmcSuccess
<1>7. CardInv'
  BY CardKeeps
<1>8. ToldInv'
  <2>1. ~store.init /\ ~store'.init
    BY <1>0, StepsAre, StoreChanges DEF ToldInv, CommonSteps, SdOnly, MmcOnly
  <2>2. swaps = 0 => IF cap.kind = "sd" THEN SdToldAt(op.step)' ELSE MmcToldAt(op.step)'
    <3>1. CASE op'.step = "failed"
      BY <3>1 DEF SdToldAt, MmcToldAt, Selected
    <3>2. CASE op'.step # "failed"
      BY <1>0, <3>2, SdTold, MmcSuccess
    <3>. QED
      BY <3>1, <3>2
  <2>. QED
    BY <2>1, <2>2, <1>0 DEF ToldInv, env
<1>9. LapseInv'
  <2>1. CASE cap.kind = "sd"
    BY <2>1, SwitchKeeps
  <2>2. CASE cap.kind # "sd"
    BY <2>2, <1>0 DEF LapseInv, env
  <2>. QED
    BY <2>1, <2>2
<1>. QED
  BY <1>3, <1>4, <1>5, <1>6, <1>7, <1>8, <1>9

(***************************************************************************)
(* The layers under the other steps.                                       *)
(***************************************************************************)
\* Away from an initialisation, or at its start, nothing is asked of the controller.
LEMMA AtRest ==
  ASSUME op'.step \in {"idle", "failed", "f_mount", "try", "reinit", "sdmmc_init"}
  PROVE  /\ HostInv'
         /\ SdToldAt(op.step)' /\ MmcToldAt(op.step)'
         /\ op'.step \notin Steps \ {"sdmmc_init"}
<1>1. op'.step \notin Steps \ {"sdmmc_init"}
  BY StepsAre DEF CommonSteps, SdOnly, MmcOnly
<1>2. op'.step \notin SdOnly \cup MmcOnly
  BY DEF SdOnly, MmcOnly
<1>3. SdHostAt(op.step)'
  BY DEF SdHostAt, Identifying, Switching, Asking, Selected
<1>4. MmcHostAt(op.step)'
  BY <1>1 DEF MmcHostAt
<1>5. SdToldAt(op.step)' /\ MmcToldAt(op.step)'
  BY DEF SdToldAt, MmcToldAt, Selected
<1>. QED
  BY <1>1, <1>2, <1>3, <1>4, <1>5 DEF HostInv

\* So does sdmmc_init.
LEMMA InitKeeps ==
  ASSUME SessionInv, SdmmcInit
  PROVE  SessionInv'
<1>. USE DEF SessionInv
<1>0. /\ op.step = "sdmmc_init" /\ op \in Places /\ card \in CardStates /\ store' \in Records /\ ~store'.init /\ ~store'.low
      /\ op' = [op EXCEPT !.step = IF card.ins THEN "start" ELSE "failed"]
      /\ UNCHANGED <<env, mode, mounted, moved, faults, result, lapses>>
      /\ h \in HostShape /\ h.id = cap.kind /\ cap.kind \in {"sd", "emmc"} /\ b01 \in BOOLEAN
      /\ card.ins \in BOOLEAN
  BY CardsAssumption, BoundsAssumption DEF ShapeInv, SdmmcInit, Records, CardShape, Ids, CardStates
<1>. DEFINE power == IF h.id = "sd" THEN "3.3" ELSE "1.8"
            t == IF h.id = "sd" THEN "SD_ID" ELSE "MMC_ID"
            w == InitWait(h)
<1>w. /\ w \in HostShape /\ w.dis
      /\ w.id = h.id /\ w.vdd = h.vdd /\ w.ldo = h.ldo /\ w.io = h.io /\ w.on = h.on
      /\ w.ck = h.ck /\ w.pll = h.pll /\ w.pllOn = h.pllOn
  BY <1>0, InitWaitDoes
<1>t. power \in Levels /\ t \in Timings
  BY DEF Levels, Timings
<1>i. h' = (IF card.ins THEN PowerOn(w, b01, power, t) ELSE NoCard(w, b01))
  BY DEF SdmmcInit
<1>c. card' = IF card.ins /\ card.st = "off" THEN [card EXCEPT !.st = "idle", !.sig = power] ELSE card
  BY DEF SdmmcInit
<1>p. power = (IF h.id = "sd" THEN "3.3" ELSE "1.8")
  OBVIOUS
<1>. HIDE DEF w, power, t
<1>1. CASE card.ins
  <2>1. /\ h' \in HostShape /\ h'.id = h.id /\ h'.vdd /\ h'.dis
        /\ h'.ldo = IF h.id = "sd" THEN "3.3" ELSE "1.8"
        /\ h'.cal = power /\ h'.ofs = power /\ ~h'.en /\ ~h'.stopped
        /\ Plls(h) => Plls(h')
    <3>1. h' = PowerOn(w, b01, power, t)
      BY <1>i, <1>1
    <3>2. /\ h' \in HostShape /\ h'.id = w.id /\ h'.vdd /\ h'.dis = w.dis
          /\ h'.ldo = IF w.id = "sd" THEN "3.3" ELSE "1.8"
          /\ h'.cal = power /\ h'.ofs = power /\ ~h'.en /\ ~h'.stopped
          /\ Plls(w) => Plls(h')
      <4>1. b01 \in BOOLEAN /\ w \in HostShape
        BY <1>0, <1>w
      <4>2. h' \in HostShape /\ h'.id = w.id /\ h'.vdd
        BY ONLY <3>1, <1>t, <4>1, PowerOnDoes
      <4>3. h'.dis = w.dis /\ h'.ldo = IF w.id = "sd" THEN "3.3" ELSE "1.8"
        BY ONLY <3>1, <1>t, <4>1, PowerOnDoes
      <4>4. h'.cal = power /\ h'.ofs = power /\ ~h'.en /\ ~h'.stopped
        BY ONLY <3>1, <1>t, <4>1, PowerOnDoes
      <4>5. Plls(w) => Plls(h')
        BY ONLY <3>1, <1>t, <4>1, PowerOnDoes
      <4>. QED
        BY ONLY <4>2, <4>3, <4>4, <4>5
    <3>. QED
      BY ONLY <3>2, <1>w DEF Plls
  <2>2. op'.step = "start" /\ op'.call = op.call /\ op' \in Places
    <3>1. "start" \in StepNames
      BY StepsAre DEF StepNames, CommonSteps
    <3>. QED
      BY <1>0, <1>1, <3>1 DEF Places
  <2>3. /\ card' \in CardStates /\ card'.ins /\ card'.width = card.width /\ card'.mode = card.mode
        /\ \/ card.st = "off" /\ card'.st = "idle" /\ card'.sig = power
           \/ card.st # "off" /\ card' = card
    <3>1. CASE card.st = "off"
      <4>1. card' = [card EXCEPT !.st = "idle", !.sig = power] /\ power \in {"1.8", "3.3"}
        BY <1>1, <1>c, <1>p, <3>1
      <4>. QED
        BY <1>0, <1>1, <3>1, <4>1 DEF CardStates
    <3>2. CASE card.st # "off"
      BY <1>0, <1>1, <1>c, <3>2
    <3>. QED
      BY <3>1, <3>2
  <2>4. ShapeInv'
    BY <1>0, <2>1, <2>2, <2>3 DEF ShapeInv, env, Records
  <2>5. PlaceInv'
    <3>1. "sdmmc_init" \in Steps /\ op.call \notin {"off", "idle"} /\ mode # SD_INIT_FAIL
      BY <1>0, StepsAre DEF CommonSteps, PlaceInv
    <3>. QED
      BY <1>0, <2>2, <3>1 DEF PlaceInv, env
  <2>6. PowerInv'
    BY <1>0, <2>1 DEF PowerInv, Plls
  <2>7. HostInv'
    <3>1. op'.step \notin SdOnly \cup MmcOnly
      BY <2>2 DEF SdOnly, MmcOnly
    <3>2. CASE cap.kind = "sd"
      <4>1. SdHostAt(op.step)'
        BY <1>0, <1>p, <2>1, <2>2, <3>2 DEF SdHostAt, Identifying, Switching, Asking, Selected
      <4>. QED
        BY <1>0, <3>1, <3>2, <4>1 DEF HostInv, env
    <3>3. CASE cap.kind = "emmc"
      <4>1. MmcHostAt(op.step)'
        BY <1>0, <1>p, <2>1, <2>2, <3>3 DEF MmcHostAt
      <4>. QED
        BY <1>0, <3>1, <3>3, <4>1 DEF HostInv, env
    <3>. QED
      BY <1>0, <3>2, <3>3
  <2>8. CardInv'
    BY <1>0, <1>p, <2>3 DEF CardInv, env
  <2>9. ToldInv'
    <3>1. SdToldAt(op.step)' /\ MmcToldAt(op.step)'
      BY <2>2 DEF SdToldAt, MmcToldAt, Selected
    <3>. QED
      BY <1>0, <3>1 DEF ToldInv, env
  <2>10. LapseInv'
    BY <1>0, <1>p, <2>2, <2>3 DEF LapseInv, PlaceInv, env
  <2>. QED
    BY <2>4, <2>5, <2>6, <2>7, <2>8, <2>9, <2>10
<1>2. CASE ~card.ins
  <2>1. /\ h' \in HostShape /\ ~h'.en /\ h'.id = h.id /\ h'.vdd = h.vdd /\ h'.ldo = h.ldo
        /\ h'.io = h.io /\ h'.on = h.on /\ h'.ck = h.ck /\ h'.pll = h.pll /\ h'.pllOn = h.pllOn
    <3>1. h' = NoCard(w, b01)
      BY <1>i, <1>2
    <3>. QED
      BY <3>1, <1>w, <1>0, NoCardDoes
  <2>2. op'.step = "failed" /\ op'.call = op.call /\ op' \in Places /\ card' = card
    <3>1. "failed" \in StepNames
      BY DEF StepNames
    <3>. QED
      BY <1>0, <1>2, <1>c, <3>1 DEF Places
  <2>4. ShapeInv'
    BY <1>0, <2>1, <2>2 DEF ShapeInv, env, Records
  <2>5. PlaceInv'
    <3>1. "sdmmc_init" \in Steps /\ "failed" \notin Steps /\ op.call \notin {"off", "idle"}
      BY <1>0, StepsAre DEF CommonSteps, SdOnly, MmcOnly, PlaceInv
    <3>. QED
      BY <1>0, <2>2, <3>1 DEF PlaceInv, env
  <2>6. PowerInv'
    BY <1>0, <2>1, <2>2 DEF PowerInv
  <2>7. HostInv' /\ SdToldAt(op.step)' /\ MmcToldAt(op.step)'
    BY <2>2, AtRest
  <2>8. CardInv'
    BY <1>0, <2>2 DEF CardInv, env
  <2>9. ToldInv'
    BY <1>0, <2>7 DEF ToldInv, env
  <2>10. LapseInv'
    BY <1>0, <2>1, <2>2 DEF LapseInv, PlaceInv, env
  <2>. QED
    BY <2>4, <2>5, <2>6, <2>7, <2>8, <2>9, <2>10
<1>. QED
  BY <1>1, <1>2

\* So do the steps around it: mounts, transfers, retries and the end.
LEMMA OthersKeep ==
  ASSUME SessionInv, Others
  PROVE  SessionInv'
<1>. USE DEF SessionInv
<1>0. /\ UNCHANGED <<cap, b01, swaps>>
      /\ op' \in Places /\ op'.step \in {"idle", "failed", "f_mount", "try", "reinit", "sdmmc_init"}
      /\ mode' \in SD_INIT_FAIL .. SD_UHS_SDR82 /\ mounted' \in BOOLEAN
      /\ calls' \in Nat /\ faults' \in Nat
      /\ op.step \in {"idle", "failed", "f_mount", "try", "reinit", "ready"}
      /\ op'.step = "sdmmc_init" => op.call = "off" \/ PowerCycles
      /\ op'.call = "off" => op.call = "off"
      /\ PlaceInv'
  BY OtherChanges, OtherPlaces
<1>h. HostInv' /\ SdToldAt(op.step)' /\ MmcToldAt(op.step)' /\ op'.step \notin Steps \ {"sdmmc_init"}
  BY <1>0, AtRest
<1>s. /\ h \in HostShape /\ card \in CardStates /\ store \in Records /\ h.id = cap.kind
      /\ cap.kind \in {"sd", "emmc"}
  BY CardsAssumption DEF ShapeInv, Records, CardShape, Ids
<1>r. \A r : r \in Records <=> r \in [init : BOOLEAN, low : BOOLEAN, s18 : BOOLEAN, sdsc : BOOLEAN]
  BY DEF Records
<1>1. CASE StorageEnd /\ PowerCycles
  <2>1. /\ h' \in HostShape /\ h'.id = h.id /\ (Plls(h) => Plls(h')) /\ store' \in Records
    BY <1>1, EndChanges
  <2>2. CASE /\ h.id = "sd" /\ ~h'.vdd /\ h'.ldo = "off" /\ h'.io = "off" /\ ~h'.on /\ ~h'.ck
             /\ ~h'.en /\ card' = Unpowered /\ lapses' = {} /\ ~store'.init
    <3>1. /\ card' \in CardStates /\ card'.st = "off" /\ card'.sig = "3.3" /\ card'.width = 1
          /\ card'.mode = "DS" /\ card'.ins = card.ins
      BY <1>s, <2>2 DEF Unpowered, CardStates, Widths, Modes
    <3>2. ShapeInv'
      BY <1>0, <1>s, <1>r, <2>1, <3>1 DEF ShapeInv
    <3>3. PowerInv'
      BY <1>s, <2>1, <2>2, <3>1 DEF PowerInv, Plls
    <3>4. CardInv'
      BY <1>0, <1>s, <2>2, <3>1 DEF CardInv
    <3>5. ToldInv' /\ LapseInv'
      BY <1>0, <1>h, <2>2, <3>1 DEF ToldInv, LapseInv
    <3>. QED
      BY <1>0, <1>h, <3>2, <3>3, <3>4, <3>5
  <2>3. CASE /\ h.id = "emmc" /\ h'.vdd /\ h'.ldo = h.ldo /\ ~h'.en
             /\ card' \in {card, Idled} /\ lapses' = lapses /\ ~store'.init
    <3>1. /\ card' \in CardStates /\ card'.sig = card.sig /\ card'.ins = card.ins
          /\ card' = card \/ (card'.st = "idle" /\ card'.width = 1 /\ card'.mode = "DS")
      BY <1>s, <2>3 DEF Idled, CardStates, Widths, Modes
    <3>2. ShapeInv'
      BY <1>0, <1>s, <1>r, <2>1, <3>1 DEF ShapeInv
    <3>3. PowerInv'
      BY <1>s, <2>1, <2>3, <3>1 DEF PowerInv, Plls
    <3>4. CardInv'
      BY <1>0, <1>s, <2>3, <3>1 DEF CardInv
    <3>5. ToldInv' /\ LapseInv'
      BY <1>0, <1>h, <1>s, <2>3 DEF ToldInv, LapseInv
    <3>. QED
      BY <1>0, <1>h, <3>2, <3>3, <3>4, <3>5
  <2>4. CASE /\ h' = h /\ store' = store
             /\ card' = card \/ (Talks /\ card' = Idled)
             /\ lapses' = IF h.vdd THEN lapses \cup {"end"} ELSE lapses
    <3>0. ~h.vdd => card' = card
      BY <1>s, <2>4 DEF Talks, PowerInv
    <3>1. /\ card' \in CardStates /\ card'.sig = card.sig /\ card'.ins = card.ins
          /\ card' = card \/ (card'.st = "idle" /\ card'.width = 1 /\ card'.mode = "DS" /\ card.ins)
      BY <1>s, <2>4 DEF Idled, CardStates, Widths, Modes, Talks
    <3>2. ShapeInv'
      BY <1>0, <1>s, <1>r, <2>1, <2>4, <3>1 DEF ShapeInv
    <3>3. PowerInv'
      BY <1>s, <2>4, <3>1 DEF PowerInv
    <3>4. CardInv'
      BY <1>0, <1>s, <2>4, <3>1 DEF CardInv
    <3>5. store'.init /\ swaps' = 0 /\ "end" \notin lapses' => Agreed'
      <4>. SUFFICES ASSUME store'.init, swaps' = 0, "end" \notin lapses' PROVE Agreed'
        OBVIOUS
      <4>1. card' = card /\ Agreed
        BY <1>0, <2>4, <3>0 DEF ToldInv
      <4>. QED
        BY <1>s, <2>4, <4>1, AgreedStays
    <3>6. ToldInv'
      BY <1>0, <1>h, <3>5 DEF ToldInv
    <3>7. LapseInv'
      BY <1>0, <1>s, <2>4, <3>1 DEF LapseInv, PowerInv
    <3>. QED
      BY <1>0, <1>h, <3>2, <3>3, <3>4, <3>6, <3>7
  <2>. QED
    BY <1>1, <2>2, <2>3, <2>4, EndChanges
<1>2. CASE QuietOnes /\ UNCHANGED <<h, card, store, lapses>>
  <2>1. ShapeInv' /\ PowerInv' /\ CardInv'
    BY <1>0, <1>2 DEF ShapeInv, PowerInv, CardInv
  <2>2. ToldInv'
    <3>1. Agreed => Agreed'
      BY <1>2, <1>s, AgreedStays
    <3>. QED
      BY <1>0, <1>h, <1>2, <3>1 DEF ToldInv
  <2>3. LapseInv'
    <3>1. op'.step = "sdmmc_init" => op.call = "off"
      <4>1. Mount => op.call = "off"
        BY DEF Mount
      <4>2. InitOnceFails \/ FatMount \/ Transfer \/ Deinit => op'.step # "sdmmc_init"
        BY <1>0 DEF InitOnceFails, FatMount, Transfer, Deinit, Return, ShapeInv, Places
      <4>. QED
        BY <1>2, <4>1, <4>2 DEF QuietOnes
    <3>. QED
      BY <1>0, <1>2, <3>1 DEF LapseInv
  <2>. QED
    BY <1>0, <1>h, <2>1, <2>2, <2>3
<1>3. CASE \/ (TransferRequest \/ RequestFails) /\ h' = R /\ UNCHANGED <<card, store, lapses>>
           \/ /\ Ready /\ h' = CardClockPowersave(h, TRUE) /\ store' = [store EXCEPT !.init = TRUE]
              /\ UNCHANGED <<card, lapses>>
  <2>1. h' \in HostShape /\ SameRails(h, h') /\ (h' = R => h'.ck = h.ck) /\ store' \in Records
    BY <1>3, <1>s, RecalibrateDoes, ClockDoes DEF R, Records
  <2>2. ShapeInv'
    BY <1>0, <1>s, <1>r, <1>3, <2>1 DEF ShapeInv, SameRails
  <2>3. PowerInv'
    <3>1. h.id = "sd" /\ ~h.vdd => h' = R
      <4>1. Ready /\ h.id = "sd" => h.ldo # "off"
        BY <1>s DEF Ready, HostInv, SdHostAt
      <4>. QED
        BY <1>3, <4>1 DEF PowerInv
    <3>. QED
      BY <1>3, <2>1, <3>1 DEF PowerInv, SameRails
  <2>4. CardInv'
    BY <1>0, <1>3 DEF CardInv
  <2>5. ToldInv'
    <3>1. store'.init /\ swaps = 0 /\ "end" \notin lapses => Agreed
      <4>1. Ready /\ swaps = 0 => Agreed
        BY <1>s DEF Ready, ToldInv, SdToldAt, MmcToldAt
      <4>. QED
        BY <1>3, <4>1 DEF ToldInv
    <3>2. Agreed => Agreed'
      BY <1>3, <1>s, AgreedStays
    <3>. QED
      BY <1>0, <1>h, <1>3, <3>1, <3>2 DEF ToldInv
  <2>6. LapseInv'
    <3>1. op'.step # "sdmmc_init" /\ op'.call # "off"
      <4>1. op.step \in {"ready", "try"} /\ op.call \notin {"off", "idle"}
        BY <1>3 DEF Ready, TransferRequest, RequestFails, PlaceInv
      <4>2. ~PowerCycles
        BY <4>1 DEF PowerCycles, InitLoop, InitGivesUp, ReinitFirst, ReinitAgain, Deinit
      <4>. QED
        BY <1>0, <4>1, <4>2
    <3>. QED
      BY <1>0, <1>3, <2>1, <3>1 DEF LapseInv, SameRails
  <2>. QED
    BY <1>0, <1>h, <2>2, <2>3, <2>4, <2>5, <2>6
<1>. QED
  BY <1>1, <1>2, <1>3, OtherChanges

(***************************************************************************)
(* The theorems.                                                           *)
(***************************************************************************)
\* Whatever the user or the wear of the card changes, the program has not noticed yet.
LEMMA UserKeeps ==
  ASSUME SessionInv, Remove \/ Insert \/ Weaken \/ UNCHANGED vars
  PROVE  SessionInv'
<1>. USE DEF SessionInv
<1>0. /\ UNCHANGED <<h, cap, b01, store, mode, mounted, op, moved, faults, result, lapses>>
      /\ card \in CardStates /\ swaps \in Nat
  BY DEF Remove, Insert, Weaken, vars, env, ShapeInv
<1>e. UhsMode' = UhsMode /\ UhsTiming' = UhsTiming /\ (Hs400' <=> Hs400) /\ cap' = cap
  BY <1>0 DEF UhsMode, UhsTiming, Hs400
<1>1. /\ PlaceInv' /\ HostInv'
  <2>1. PlaceInv'
    BY <1>0 DEF PlaceInv
  <2>2. HostInv'
    BY <1>0, <1>e DEF HostInv, SdHostAt, MmcHostAt
  <2>. QED
    BY <2>1, <2>2
<1>2. CASE Remove
  <2>1. swaps' # 0 /\ swaps' \in Nat /\ calls' = calls /\ cap.kind = "sd"
    BY <1>0, <1>2 DEF Remove
  <2>2. /\ card' \in CardStates /\ card'.sig = "3.3" /\ card'.st = "off" /\ card'.width = 1
        /\ card'.mode = "DS" /\ ~card'.ins
    BY <1>0, <1>2 DEF Remove, Out, CardStates, Widths, Modes
  <2>3. ShapeInv' /\ PowerInv'
    BY <1>0, <2>1, <2>2 DEF ShapeInv, PowerInv
  <2>4. CardInv' /\ ToldInv' /\ LapseInv'
    BY <1>0, <2>1, <2>2 DEF CardInv, ToldInv, LapseInv
  <2>. QED
    BY <1>1, <2>3, <2>4
<1>3. CASE Insert
  <2>1. swaps # 0 /\ swaps' = swaps /\ calls' = calls /\ ~card.ins
    BY <1>3 DEF Insert, CardInv, env
  <2>2. /\ card' \in CardStates /\ card'.sig = card.sig /\ card'.st \in {"off", "idle"}
        /\ card'.width = card.width /\ card'.mode = card.mode /\ card'.ins
    BY <1>0, <1>3 DEF Insert, CardStates
  <2>3. ShapeInv' /\ PowerInv'
    BY <1>0, <2>1, <2>2 DEF ShapeInv, PowerInv
  <2>4. CardInv' /\ ToldInv' /\ LapseInv'
    BY <1>0, <2>1, <2>2 DEF CardInv, ToldInv, LapseInv
  <2>. QED
    BY <1>1, <2>3, <2>4
<1>4. CASE Weaken \/ UNCHANGED vars
  <2>1. swaps' = swaps /\ calls' = calls
    BY <1>4 DEF Weaken, env, vars
  <2>2. /\ card' \in CardStates /\ card'.sig = card.sig /\ card'.st = card.st
        /\ card'.width = card.width /\ card'.mode = card.mode /\ card'.ins = card.ins
    BY <1>0, <1>4 DEF Weaken, CardStates, vars
  <2>3. ShapeInv' /\ PowerInv'
    BY <1>0, <2>1, <2>2 DEF ShapeInv, PowerInv
  <2>4. CardInv' /\ LapseInv'
    BY <1>0, <2>1, <2>2 DEF CardInv, LapseInv
  <2>5. (TimingAgrees' <=> TimingAgrees) /\ (TapAgrees' <=> TapAgrees) /\ CardRate(h)' = CardRate(h)
    BY <1>0, <2>2 DEF TimingAgrees, TapAgrees, CardRate
  <2>6. (DataAgrees' <=> DataAgrees) /\ (Agreed' <=> Agreed)
    BY <1>0, <2>2, <2>5 DEF Agreed, DataAgrees
  <2>7. \A m : Told(m)' <=> Told(m)
    BY <1>0, <2>2 DEF Told
  <2>8. SdToldAt(op.step)' <=> SdToldAt(op.step)
    BY <1>0, <1>e, <2>2, <2>5, <2>6 DEF SdToldAt, Told
  <2>9. MmcToldAt(op.step)' <=> MmcToldAt(op.step)
    BY <1>0, <2>2, <2>6 DEF MmcToldAt, Told
  <2>10. ToldInv'
    BY <1>0, <2>1, <2>6, <2>8, <2>9 DEF ToldInv
  <2>. QED
    BY <1>1, <2>3, <2>4, <2>10
<1>. QED
  BY <1>2, <1>3, <1>4

\* The invariant holds when the program starts.
LEMMA SessionStarts ==
  ASSUME Init
  PROVE  SessionInv
<1>1. cap.kind \in {"sd", "emmc"} /\ Sectors \in Nat \ {0}
  BY CardsAssumption, BoundsAssumption DEF Init, CardShape, Ids
<1>2. PICK others \in {{}, Ids \ {cap.kind}} : h = Cold(cap.kind, others)
  BY DEF Init
<1>3. others \in SUBSET Ids
  BY <1>2
<1>4. /\ h.id = cap.kind /\ (h.vdd <=> cap.kind = "emmc")
      /\ h.ldo = IF cap.kind = "emmc" THEN "1.8" ELSE "off"
      /\ h.io = "off" /\ ~h.on /\ ~h.ck /\ ~h.en /\ h.pll = others /\ (h.pllOn <=> others # {})
  BY <1>2 DEF Cold
<1>5. h \in HostShape
  <2>1. /\ cap.kind \in Ids /\ (cap.kind = "emmc") \in BOOLEAN /\ (others # {}) \in BOOLEAN
        /\ "off" \in Levels /\ "1.8" \in Levels /\ "3.3" \in Levels /\ 1 \in Widths /\ "none" \in UhsBits
        /\ 1 \in Divisors /\ "static" \in Taps /\ 0 \in Clocks
    BY <1>1 DEF Ids, Levels, Widths, UhsBits, Divisors, Taps, Clocks
  <2>. QED
    BY ONLY <1>2, <1>3, <2>1 DEF Cold, HostShape
<1>6. /\ card.st = "off" /\ card.width = 1 /\ card.mode = "DS" /\ card.ins
      /\ card.sig = (IF cap.kind = "emmc" THEN "1.8" ELSE "3.3") /\ card \in CardStates
  BY DEF Init, Out, CardStates, Widths, Modes
<1>7. /\ op.call = "off" /\ op.step = "idle" /\ op \in Places
  BY DEF Init, Places, CallNames, StepNames
<1>8. ~store.init /\ ~mounted /\ moved = {} /\ result = "none" /\ mode = SD_UHS_SDR82
  BY DEF Init
<1>s. op.step \notin Steps
  BY <1>7, StepsAre DEF CommonSteps, SdOnly, MmcOnly
<1>9. ShapeInv
  <2>1. cap \in Cards /\ b01 \in B01s /\ swaps \in Nat /\ faults \in Nat /\ calls \in Nat
    BY DEF Init
  <2>3. mode \in SD_INIT_FAIL .. SD_UHS_SDR82
    BY <1>8 DEF SD_INIT_FAIL, SD_UHS_SDR82
  <2>4. mounted \in BOOLEAN
    <3>1. mounted = FALSE
      BY DEF Init
    <3>. QED
      BY <3>1
  <2>2. store \in [init : BOOLEAN, low : BOOLEAN, s18 : BOOLEAN, sdsc : BOOLEAN]
    BY DEF Init
  <2>. QED
    BY <2>1, <2>2, <2>3, <2>4, <1>4, <1>5, <1>6, <1>7 DEF ShapeInv
<1>10. PlaceInv /\ PowerInv /\ CardInv
  BY <1>1, <1>4, <1>6, <1>7, <1>8, <1>s DEF PlaceInv, PowerInv, CardInv
<1>11. HostInv
  <2>1. SdHostAt(op.step)
    BY <1>7 DEF SdHostAt, Identifying, Switching, Asking, Selected
  <2>2. MmcHostAt(op.step) /\ op.step \notin SdOnly \cup MmcOnly
    BY <1>7, <1>s DEF MmcHostAt, SdOnly, MmcOnly
  <2>. QED
    BY <2>1, <2>2 DEF HostInv
<1>12. ToldInv /\ LapseInv
  BY <1>6, <1>7, <1>8, <1>s DEF ToldInv, SdToldAt, MmcToldAt, Selected, LapseInv
<1>. QED
  BY <1>9, <1>10, <1>11, <1>12 DEF SessionInv

\* A step of the program is one of an initialisation, the controller's own start, or
\* one of the steps around them.
LEMMA ProgramSteps == Program => Walk \/ SdmmcInit \/ Others
<1>1. CommonStep \/ SdStep \/ MmcStep => Walk \/ SdmmcInit
  <2>1. op.step = "sdmmc_init" /\ (CommonStep \/ SdStep \/ MmcStep) => SdmmcInit
    <3>1. op.step = "sdmmc_init" /\ CommonStep => SdmmcInit
      BY DEF CommonStep, SdmmcStart, GoIdleState, GetCid, GetCsd, SelectCard,
         SetBlocklen, CheckStatus, CheckStatus2, CheckStatus3, TuningExecute,
         Done, Setting, Accepted, Failed, Command, DataCommand, Ask
    <3>2. op.step = "sdmmc_init" => ~SdStep
      BY DEF SdStep, SendIfCond, SdGetOpCond, SwitchVoltage, EnableLowVoltage, GetRca,
         SetupDs12, ClrCardDetect, GetScr, SetBusWidth4, SwitchGet, SetCurrentLimit, SwitchCheck,
         SwitchSet, SetupUhs, SetupHs25, GetSsr,
         Done, Setting, Accepted, Failed, Command, DataCommand, Ask
    <3>3. op.step = "sdmmc_init" => ~MmcStep
      BY DEF MmcStep, MmcGetOpCond, SetRelativeAddr, SetupLs26, SwitchBuswidth,
         GetExtCsd, EnableHS200, EnableHS, EnableHS400,
         Done, Setting, Accepted, Failed, Command, DataCommand, Ask
    <3>. QED
      BY <3>1, <3>2, <3>3
  <2>. QED
    BY <2>1 DEF Walk
<1>. QED
  BY <1>1 DEF Program, Others, PowerCycles, QuietOnes, Requests

\* Every step keeps it.
LEMMA SessionKeeps ==
  ASSUME SessionInv, [Next]_vars
  PROVE  SessionInv'
<1>. QED
  BY ProgramSteps, WalkKeeps, InitKeeps, OthersKeep, UserKeeps DEF Next

\* SessionInv holds in every reachable state.
THEOREM SessionInvariantHolds == Spec => []SessionInv
<1>1. Init => SessionInv
  BY SessionStarts
<1>2. SessionInv /\ [Next]_vars => SessionInv'
  BY SessionKeeps
<1>. QED
  BY <1>1, <1>2, PTL DEF Spec

\* Type correctness of the session's state.
THEOREM SessionTypes == Spec => []TypeOK
<1>1. SessionInv => TypeOK
  <2>1. Clocks \subseteq Nat
    BY DEF Clocks, Timings, CardClockDiv
  <2>2. ASSUME SessionInv PROVE TypeOK
    <3>1. h.ldo \in Levels /\ h.io \in Levels /\ h.src \in Clocks
      BY <2>2, HostFields DEF SessionInv, ShapeInv, HostShape
    <3>2. op.step \in Steps \cup {"idle", "failed", "f_mount", "try", "reinit"}
      BY <2>2 DEF SessionInv, ShapeInv, Places, StepNames
    <3>. QED
      BY <2>1, <2>2, <3>1, <3>2 DEF SessionInv, ShapeInv, PlaceInv, TypeOK
  <2>. QED
    BY <2>2
<1>. QED
  BY <1>1, SessionInvariantHolds, PTL

\* A storage that is declared usable is one both sides agree about, for every card,
\* every SoC and any number of retries (sdmmc.c:1326-1447).
THEOREM ReadyAgreesHolds == Spec => []ReadyAgrees
<1>1. SessionInv => ReadyAgrees
  BY DEF SessionInv, ToldInv, Agreed, ReadyAgrees
<1>. QED
  BY <1>1, SessionInvariantHolds, PTL

\* The rail is never raised under a card that has been switched to 1.8 V, unless a power
\* cycle lapsed (sdmmc_driver.c:1420).
THEOREM VoltageSafeHolds == Spec => []VoltageSafe
<1>1. SessionInv => VoltageSafe
  BY DEF SessionInv, LapseInv, ShapeInv, VoltageSafe
<1>. QED
  BY <1>1, SessionInvariantHolds, PTL

\* PLLC4 is counted right: it runs as long as an enabled controller needs it.
THEOREM Pllc4Holds == Spec => []Pllc4Counted
<1>1. SessionInv => Pllc4Counted
  BY DEF SessionInv, PowerInv, Pllc4Counted
<1>. QED
  BY <1>1, SessionInvariantHolds, PTL

\* What a step that is not one of the program's own leaves alone.
LEMMA UserSteps ==
  ASSUME Remove \/ Insert \/ Weaken \/ UNCHANGED vars
  PROVE  UNCHANGED <<h, mode, op, moved, mounted, result>>
  BY DEF Remove, Insert, Weaken, vars

\* A call that goes on or ends: only a request that moved the last sector is a transfer's "ok".
LEMMA TransfersWhole ==
  ASSUME SessionInv, [Next]_vars, op.call = "rw", op'.call = "idle", result' = "ok"
  PROVE  moved' = 1 .. Sectors
<1>. USE DEF SessionInv
<1>0. op \in Places /\ Sectors \in Nat \ {0} /\ op.step # "f_mount" /\ op.call # "idle" /\ op.call # "off"
  BY BoundsAssumption DEF ShapeInv, PlaceInv
<1>1. CASE Walk \/ SdmmcInit
  <2>1. op' = [op EXCEPT !.step = op'.step]
    BY <1>0, <1>1, Walks DEF SdmmcInit, Places
  <2>2. op'.call = op.call
    BY ONLY <1>0, <2>1 DEF Places
  <2>. QED
    BY <2>2
<1>2. CASE TransferRequest
  <2>1. op.left \in 1 .. Sectors /\ moved = 1 .. Sectors - op.left /\ moved' = moved \cup {Sectors - op.left + 1}
    BY <1>2 DEF TransferRequest, PlaceInv
  <2>2. op.left = 1
    <3>1. CASE op.left # 1
      <4>1. op' = [op EXCEPT !.left = op.left - 1, !.tries = 5]
        BY <1>2, <3>1 DEF TransferRequest
      <4>2. op'.call = op.call
        BY ONLY <1>0, <4>1 DEF Places
      <4>. QED
        BY <4>2
    <3>. QED
      BY <3>1
  <2>. QED
    BY <2>1, <2>2, <1>0
<1>3. CASE Others /\ ~TransferRequest
  <2>1. ~(FatMount \/ Mount \/ Transfer \/ Deinit)
    BY <1>0 DEF FatMount, Mount, Transfer, Deinit
  <2>2. CASE InitGivesUp \/ InitOnceFails
    BY <2>2 DEF InitGivesUp, InitOnceFails, Return
  <2>3. CASE InitLoop \/ ReinitFirst \/ ReinitAgain
    <3>. DEFINE s == IF mode' = SD_INIT_FAIL THEN "failed" ELSE "sdmmc_init"
    <3>1. \/ op' = [op EXCEPT !.step = s]
          \/ op' = [op EXCEPT !.ret = "loop", !.step = s]
          \/ op' = [op EXCEPT !.ret = "once", !.step = s]
      BY <2>3 DEF InitLoop, ReinitFirst, ReinitAgain, PowerCycle, Goto
    <3>. HIDE DEF s
    <3>2. op'.call = op.call
      BY ONLY <1>0, <3>1 DEF Places
    <3>. QED
      BY <3>2
  <2>4. CASE Ready
    <3>1. \/ op' = [op EXCEPT !.step = "f_mount"]
          \/ op' = [op EXCEPT !.step = "try", !.tries = 3, !.first = FALSE, !.left = Sectors]
      BY <2>4 DEF Ready, Goto
    <3>2. op'.call = op.call
      BY ONLY <1>0, <3>1 DEF Places
    <3>. QED
      BY <3>2
  <2>5. CASE RequestFails
    <3>1. \/ op' = [op EXCEPT !.tries = op.tries - 1]
          \/ op' = [op EXCEPT !.step = "reinit"]
      BY <2>5 DEF RequestFails, Goto, Return
    <3>2. op'.call = op.call
      BY ONLY <1>0, <3>1 DEF Places
    <3>. QED
      BY <3>2
  <2>. QED
    BY <1>3, <2>1, <2>2, <2>3, <2>4, <2>5 DEF Others, PowerCycles, QuietOnes, Requests
<1>. QED
  BY <1>1, <1>2, <1>3, ProgramSteps, UserSteps DEF Next

\* Within a call the level is left alone or lowered, whoever lowers it.
LEMMA LevelsFall ==
  ASSUME SessionInv, [Next]_vars, op.call = "rw", op'.call = "rw"
  PROVE  mode' <= mode
<1>. USE DEF SessionInv
<1>0. op \in Places /\ mode \in Nat
  BY DEF ShapeInv, SD_INIT_FAIL, SD_UHS_SDR82
<1>1. CASE Walk \/ SdmmcInit
  BY <1>0, <1>1, Walks DEF SdmmcInit
<1>2. CASE Others
  <2>1. ~(Deinit \/ Mount \/ Transfer)
    BY DEF Deinit, Mount, Transfer
  <2>2. ~InitGivesUp
    <3>1. ASSUME InitGivesUp PROVE FALSE
      <4>1. op' = [op EXCEPT !.call = "idle", !.step = "idle"]
        BY <3>1 DEF InitGivesUp, Return
      <4>2. op'.call = "idle"
        BY ONLY <1>0, <4>1 DEF Places
      <4>. QED
        BY <4>2
    <3>. QED
      BY <3>1
  <2>3. CASE InitLoop \/ ReinitAgain
    <3>1. mode' = mode - 1
      BY <2>3 DEF InitLoop, ReinitAgain, PowerCycle
    <3>. QED
      BY <3>1, <1>0
  <2>4. CASE ReinitFirst \/ InitOnceFails \/ FatMount \/ Requests
    <3>1. mode' = mode
      BY <2>4 DEF ReinitFirst, InitOnceFails, FatMount, Requests, Ready, TransferRequest, RequestFails
    <3>. QED
      BY <3>1, <1>0
  <2>. QED
    BY <1>2, <2>1, <2>2, <2>3, <2>4 DEF Others, PowerCycles, QuietOnes
<1>3. CASE Remove \/ Insert \/ Weaken \/ UNCHANGED vars
  BY <1>0, <1>3, UserSteps
<1>. QED
  BY <1>1, <1>2, <1>3, ProgramSteps DEF Next

\* Only the start of an initialisation powers the slot, and it waits first.
LEMMA PowersDischarged ==
  ASSUME SessionInv, [Next]_vars, ~h.vdd, h'.vdd
  PROVE  h'.dis
<1>. USE DEF SessionInv
<1>0. /\ h \in HostShape /\ h.id = "sd" /\ h.id = cap.kind /\ card.ins \in BOOLEAN
  BY CardsAssumption DEF ShapeInv, PowerInv, CardShape, Ids, CardStates
<1>1. CASE Walk
  BY <1>1, HostStays
<1>2. CASE SdmmcInit
  <2>. DEFINE w == InitWait(h)
  <2>1. w \in HostShape /\ w.dis /\ ~w.vdd /\ w.id = "sd"
    BY <1>0, InitWaitDoes
  <2>2. h' = IF card.ins THEN PowerOn(w, b01, "3.3", "SD_ID") ELSE NoCard(w, b01)
    BY <1>0, <1>2 DEF SdmmcInit
  <2>3. "3.3" \in Levels /\ "SD_ID" \in Timings /\ b01 \in BOOLEAN
    BY BoundsAssumption DEF Levels, Timings, ShapeInv
  <2>. HIDE DEF w
  <2>4. CASE card.ins
    <3>1. h' = PowerOn(w, b01, "3.3", "SD_ID")
      BY <2>2, <2>4
    <3>. QED
      BY ONLY <3>1, <2>1, <2>3, PowerOnDoes
  <2>5. CASE ~card.ins
    <3>1. h' = NoCard(w, b01)
      BY <2>2, <2>5
    <3>2. h'.vdd = w.vdd
      BY ONLY <3>1, <2>1, <2>3, NoCardDoes
    <3>. QED
      BY <3>2, <2>1
  <2>. QED
    BY <2>4, <2>5
<1>3. CASE Others
  <2>1. CASE StorageEnd
    BY <2>1, <1>0, EndChanges
  <2>2. CASE h' = h
    BY <2>2
  <2>3. CASE h' = R
    BY <2>3, <1>0, RecalibrateDoes DEF R, SameRails
  <2>4. CASE h' = CardClockPowersave(h, TRUE)
    <3>1. h'.vdd = h.vdd
      BY ONLY <2>4, <1>0, ClockDoes DEF SameRails
    <3>. QED
      BY <3>1
  <2>. QED
    BY <1>3, <2>1, <2>2, <2>3, <2>4, OtherChanges
<1>4. CASE Remove \/ Insert \/ Weaken \/ UNCHANGED vars
  BY <1>4, UserSteps
<1>. QED
  BY <1>1, <1>2, <1>3, <1>4, ProgramSteps DEF Next

\* A mounted card's session ends with a power cycle that happened, or was not needed.
LEMMA EndsDark ==
  ASSUME SessionInv, [Next]_vars, h.id = "sd", mounted, result' = "gone", lapses' = {}
  PROVE  ~h'.vdd /\ h'.ldo = "off" /\ ~h'.on /\ ~h'.ck /\ h'.io = "off"
<1>. USE DEF SessionInv
<1>0. result # "gone" /\ h \in HostShape
  BY DEF PlaceInv, ShapeInv
<1>1. CASE Deinit
  <2>1. StorageEnd
    BY <1>1 DEF Deinit
  <2>2. CASE h' = h /\ lapses' = IF h.vdd THEN lapses \cup {"end"} ELSE lapses
    BY <2>2 DEF PowerInv
  <2>. QED
    BY <2>1, <2>2, EndChanges
<1>2. CASE (Walk \/ SdmmcInit \/ (Others /\ ~Deinit))
  <2>1. Walk \/ SdmmcInit => result' = result
    BY Walks DEF SdmmcInit
  <2>2. Others /\ ~Deinit => result' \in {result, "ok", "failed"}
    BY DEF Others, PowerCycles, QuietOnes, Requests, InitLoop, InitGivesUp, ReinitFirst, ReinitAgain,
       Mount, InitOnceFails, FatMount, Transfer, Ready, TransferRequest, RequestFails, Return
  <2>. QED
    BY <1>0, <1>2, <2>1, <2>2
<1>3. CASE Remove \/ Insert \/ Weaken \/ UNCHANGED vars
  BY <1>0, <1>3, UserSteps
<1>. QED
  BY <1>1, <1>2, <1>3, ProgramSteps DEF Next

\* A transfer that nx_sd reports done has moved every sector of the request, however
\* often it was tried again or the card was initialised anew in between.
THEOREM TransferCompleteHolds == Spec => TransferComplete
<1>1. SessionInv /\ [Next]_vars => [op.call = "rw" /\ op'.call = "idle" /\ result' = "ok" => moved' = 1 .. Sectors]_vars
  BY TransfersWhole
<1>. QED
  BY <1>1, SessionInvariantHolds, PTL DEF Spec, TransferComplete

\* Within a transfer the speed level of nx_sd.c only falls.
THEOREM SlowerOnlyHolds == Spec => SlowerOnly
<1>1. SessionInv /\ [Next]_vars => [op.call = "rw" /\ op'.call = "rw" => mode' <= mode]_vars
  BY LevelsFall
<1>. QED
  BY <1>1, SessionInvariantHolds, PTL DEF Spec, SlowerOnly

\* The slot is powered only once it has been dark for long enough (sdmmc.c:1318).
THEOREM PowerOnDischargedHolds == Spec => PowerOnDischarged
<1>1. SessionInv /\ [Next]_vars => [~h.vdd /\ h'.vdd => h'.dis]_vars
  BY PowersDischarged
<1>. QED
  BY <1>1, SessionInvariantHolds, PTL DEF Spec, PowerOnDischarged

\* The session ends with the slot dark and its controller stopped.
THEOREM PoweredDownAtEndHolds == Spec => PoweredDownAtEnd
<1>1. SessionInv /\ [Next]_vars => [h.id = "sd" /\ mounted /\ result' = "gone" /\ lapses' = {} =>
         ~h'.vdd /\ h'.ldo = "off" /\ ~h'.on /\ ~h'.ck /\ h'.io = "off"]_vars
  BY EndsDark
<1>. QED
  BY <1>1, SessionInvariantHolds, PTL DEF Spec, PoweredDownAtEnd

(***************************************************************************)
(* The session as a service.                                               *)
(***************************************************************************)
LEMMA StageIs ==
  ASSUME op \in Places
  PROVE  /\ op.call = "off" => Stage = "off"
         /\ op.call = "idle" => Stage = "idle"
         /\ op.call = "mount" => Stage = "mounting"
         /\ op.call = "rw" /\ op.step \in {"try", "reinit"} => Stage = "moving"
         /\ op.call = "rw" /\ op.step \notin {"try", "reinit"} => Stage = "recovering"
  BY DEF Stage
LEMMA StageWillBe ==
  ASSUME op' \in Places
  PROVE  /\ op'.call = "off" => Stage' = "off"
         /\ op'.call = "idle" => Stage' = "idle"
         /\ op'.call = "mount" => Stage' = "mounting"
         /\ op'.call = "rw" /\ op'.step \in {"try", "reinit"} => Stage' = "moving"
         /\ op'.call = "rw" /\ op'.step \notin {"try", "reinit"} => Stage' = "recovering"
  BY DEF Stage

\* The steps of an initialisation are none of the service's business.
LEMMA WalkServes ==
  ASSUME SessionInv, Walk \/ SdmmcInit
  PROVE  UNCHANGED <<Stage, mode, mounted, moved, op.first, result>>
<1>. USE DEF SessionInv
<1>1. /\ UNCHANGED <<mode, mounted, moved, result>>
      /\ op' = [op EXCEPT !.step = op'.step]
      /\ op.step \in Steps
    BY Walks, StepsAre DEF SdmmcInit, ShapeInv, Places, CommonSteps
<1>2. op \in Places
    BY DEF ShapeInv
<1>3. op'.step \in Steps \cup {"failed"}
  <2>2. CASE SdmmcInit
    BY <2>2, <1>2, StepsAre DEF SdmmcInit, Places, CommonSteps
  <2>3. CASE Walk
    BY <2>3, SdSuccess, MmcSuccess, StepsAre, CardsAssumption
       DEF ShapeInv, CardShape, Ids, SdWay, MmcWay, CommonSteps
  <2>. QED
    BY <2>2, <2>3
<1>4. op'.call = op.call /\ op'.first = op.first /\ op' \in Places
  <2>1. op'.step \in StepNames
    BY <1>3 DEF StepNames
  <2>. QED
    BY ONLY <1>1, <1>2, <2>1 DEF Places
<1>5. op.step \notin {"idle", "try", "reinit"} /\ op'.step \notin {"try", "reinit"}
  BY <1>1, <1>3, StepsAre DEF CommonSteps, SdOnly, MmcOnly
<1>. QED
  BY <1>1, <1>2, <1>4, <1>5, StageIs, StageWillBe DEF Places, CallNames

\* Each of the program's other steps is one of the service's, or none.
LEMMA OthersServe ==
  ASSUME SessionInv, Others
  PROVE  [Service!ServiceNext]_<<Stage, mode, mounted, moved, op.first, result>>
<1>. USE DEF SessionInv
<1>0. /\ op \in Places /\ op' \in Places /\ mode \in 0 .. 3 /\ Sectors \in Nat \ {0}
      /\ mounted \in BOOLEAN /\ cap.kind \in {"sd", "emmc"}
  BY OtherPlaces, BoundsAssumption, CardsAssumption
     DEF ShapeInv, SD_INIT_FAIL, SD_UHS_SDR82, CardShape, Ids
<1>. USE DEF SD_INIT_FAIL, SD_UHS_SDR82
<1>1. CASE Mount
  <2>. DEFINE s == IF mode = SD_INIT_FAIL THEN "failed" ELSE "sdmmc_init"
  <2>1. op.call = "off" /\ op' = [op EXCEPT !.call = "mount", !.ret = "loop", !.step = s]
    BY <1>1 DEF Mount
  <2>. HIDE DEF s
  <2>2. op'.call = "mount" /\ op'.first = op.first
    BY ONLY <2>1, <1>0 DEF Places
  <2>3. Service!Open
    BY <1>0, <1>1, <2>1, <2>2, StageIs, StageWillBe DEF Service!Open, Mount
  <2>. QED
    BY <2>3 DEF Service!ServiceNext
<1>2. CASE Ready /\ op.call = "mount"
  <2>1. op' = [op EXCEPT !.step = "f_mount"]
    BY <1>2 DEF Ready, Goto
  <2>2. op'.call = op.call /\ op'.first = op.first
    BY ONLY <2>1, <1>0 DEF Places
  <2>. QED
    BY <1>0, <1>2, <2>2, StageIs, StageWillBe DEF Ready
<1>3. CASE Ready /\ op.call # "mount"
  <2>1. /\ op' = [op EXCEPT !.step = "try", !.tries = 3, !.first = FALSE, !.left = Sectors]
        /\ op.step = "ready" /\ moved' = {} /\ UNCHANGED <<mode, mounted, result>>
    BY <1>3 DEF Ready
  <2>2. op.call = "rw" /\ mode # SD_INIT_FAIL
    BY <1>0, <1>3, <2>1, StepsAre DEF PlaceInv, Places, CallNames, CommonSteps
  <2>3. op'.call = "rw" /\ op'.step = "try" /\ ~op'.first
    BY ONLY <2>1, <2>2, <1>0 DEF Places
  <2>4. Service!Resume
    BY <1>0, <2>1, <2>2, <2>3, StageIs, StageWillBe DEF Service!Resume
  <2>. QED
    BY <2>4 DEF Service!ServiceNext
<1>4. CASE InitLoop
  <2>. DEFINE s == IF mode' = SD_INIT_FAIL THEN "failed" ELSE "sdmmc_init"
  <2>1. /\ op' = [op EXCEPT !.step = s] /\ op.step = "failed" /\ op.ret = "loop"
        /\ mode # SD_INIT_FAIL /\ mode' = mode - 1 /\ UNCHANGED <<mounted, moved, result>>
    BY <1>4 DEF InitLoop, PowerCycle, Goto
  <2>2. op.call = "mount" \/ (op.call = "rw" /\ op.first)
    BY <1>0, <2>1 DEF PlaceInv, Places, CallNames
  <2>3. s \notin {"try", "reinit"}
    OBVIOUS
  <2>. HIDE DEF s
  <2>4. op'.call = op.call /\ op'.first = op.first /\ op'.step = s
    BY ONLY <2>1, <1>0 DEF Places
  <2>5. Service!Slow
    BY <1>0, <2>1, <2>2, <2>3, <2>4, StageIs, StageWillBe DEF Service!Slow
  <2>. QED
    BY <2>5 DEF Service!ServiceNext
<1>5. CASE InitGivesUp \/ InitOnceFails
  <2>1. /\ op' = [op EXCEPT !.call = "idle", !.step = "idle"] /\ result' = "failed"
        /\ op.step = "failed" /\ UNCHANGED <<mounted, moved>>
    BY <1>5 DEF InitGivesUp, InitOnceFails, Return
  <2>2. op.call \in {"mount", "rw"}
    BY <1>0, <2>1 DEF PlaceInv, Places, CallNames
  <2>3. op'.call = "idle" /\ op'.first = op.first
    BY ONLY <2>1, <1>0 DEF Places
  <2>4. mode' \in {mode, SD_UHS_SDR82}
    BY <1>5 DEF InitGivesUp, InitOnceFails
  <2>5. op.call = "rw" /\ op.first => mode' = SD_UHS_SDR82 \/ mode = SD_INIT_FAIL
    <3>1. CASE InitGivesUp
      BY <3>1 DEF InitGivesUp
    <3>2. CASE InitOnceFails
      BY <3>2, <2>1, <1>0 DEF InitOnceFails, PlaceInv
    <3>. QED
      BY <1>5, <3>1, <3>2
  <2>6. Stage \in {"mounting", "recovering"} /\ (Stage = "recovering" => op.call = "rw") /\ Stage' = "idle"
    BY <1>0, <2>1, <2>2, <2>3, StageIs, StageWillBe
  <2>7. Service!GiveUp
    BY <1>0, <2>1, <2>3, <2>4, <2>5, <2>6 DEF Service!GiveUp
  <2>. QED
    BY <2>7 DEF Service!ServiceNext
<1>6. CASE FatMount
  <2>1. /\ op' = [op EXCEPT !.call = "idle", !.step = "idle"] /\ op.step = "f_mount"
        /\ UNCHANGED <<mode, moved>>
        /\ (mounted' = TRUE /\ result' = "ok") \/ (mounted' = mounted /\ result' = "failed")
    BY <1>6 DEF FatMount, Return
  <2>2. op.call = "mount"
    BY <2>1 DEF PlaceInv
  <2>3. op'.call = "idle" /\ op'.first = op.first
    BY ONLY <2>1, <1>0 DEF Places
  <2>4. Stage = "mounting" /\ Stage' = "idle"
    BY <1>0, <2>2, <2>3, StageIs, StageWillBe
  <2>5. Service!Opened \/ Service!GiveUp
    BY <1>0, <2>1, <2>3, <2>4 DEF Service!Opened, Service!GiveUp
  <2>. QED
    BY <2>5 DEF Service!ServiceNext
<1>7. CASE Transfer
  <2>1. /\ op' = [op EXCEPT !.call = "rw", !.step = "try", !.first = TRUE, !.tries = 5, !.left = Sectors]
        /\ op.call = "idle" /\ mounted /\ moved' = {} /\ UNCHANGED <<mode, mounted, result>>
    BY <1>7 DEF Transfer
  <2>2. op'.call = "rw" /\ op'.step = "try" /\ op'.first
    BY ONLY <2>1, <1>0 DEF Places
  <2>3. Service!Begin
    BY <1>0, <2>1, <2>2, StageIs, StageWillBe DEF Service!Begin
  <2>. QED
    BY <2>3 DEF Service!ServiceNext
<1>8. CASE TransferRequest
  <2>1. /\ op.step = "try" /\ op.call = "rw" /\ op.left \in 1 .. Sectors
        /\ moved = 1 .. Sectors - op.left /\ moved' = moved \cup {Sectors - op.left + 1}
        /\ UNCHANGED <<mode, mounted>>
    BY <1>8 DEF TransferRequest, PlaceInv
  <2>. DEFINE n == Sectors - op.left + 1
  <2>2. n \in 1 .. Sectors /\ moved = 1 .. n - 1 /\ moved' = 1 .. n /\ (n = Sectors <=> op.left = 1)
    BY <1>0, <2>1
  <2>. HIDE DEF n
  <2>3. CASE op.left = 1
    <3>1. op' = [op EXCEPT !.call = "idle", !.step = "idle"] /\ result' = "ok"
      BY <1>8, <2>3 DEF TransferRequest, Return
    <3>2. op'.call = "idle" /\ op'.first = op.first
      BY ONLY <3>1, <1>0 DEF Places
    <3>3. Service!Move
      BY <1>0, <2>1, <2>2, <2>3, <3>1, <3>2, StageIs, StageWillBe DEF Service!Move
    <3>. QED
      BY <3>3 DEF Service!ServiceNext
  <2>4. CASE op.left # 1
    <3>1. op' = [op EXCEPT !.left = op.left - 1, !.tries = 5] /\ result' = result
      BY <1>8, <2>4 DEF TransferRequest
    <3>2. op'.call = op.call /\ op'.first = op.first /\ op'.step = op.step
      BY ONLY <3>1, <1>0 DEF Places
    <3>3. Service!Move
      BY <1>0, <2>1, <2>2, <2>4, <3>1, <3>2, StageIs, StageWillBe DEF Service!Move
    <3>. QED
      BY <3>3 DEF Service!ServiceNext
  <2>. QED
    BY <2>3, <2>4
<1>9. CASE RequestFails
  <2>1. op.step = "try" /\ op.call = "rw" /\ UNCHANGED <<mode, mounted, moved>>
    BY <1>9 DEF RequestFails, PlaceInv
  <2>2. CASE op.tries > 1 \/ cap.kind = "sd"
    <3>1. /\ result' = result
          /\ \/ op' = [op EXCEPT !.tries = op.tries - 1]
             \/ op' = [op EXCEPT !.step = "reinit"]
      BY <1>9, <2>2 DEF RequestFails, Goto
    <3>2. op'.call = op.call /\ op'.first = op.first /\ op'.step \in {"try", "reinit"}
      BY ONLY <3>1, <2>1, <1>0 DEF Places
    <3>. QED
      BY <1>0, <2>1, <3>1, <3>2, StageIs, StageWillBe
  <2>3. CASE ~(op.tries > 1 \/ cap.kind = "sd")
    <3>1. op' = [op EXCEPT !.call = "idle", !.step = "idle"] /\ result' = "failed"
      BY <1>9, <2>3 DEF RequestFails, Return
    <3>2. op'.call = "idle" /\ op'.first = op.first
      BY ONLY <3>1, <1>0 DEF Places
    <3>3. Service!GiveUp
      BY <1>0, <2>1, <3>1, <3>2, StageIs, StageWillBe DEF Service!GiveUp
    <3>. QED
      BY <3>3 DEF Service!ServiceNext
  <2>. QED
    BY <2>2, <2>3
<1>10. CASE ReinitFirst \/ ReinitAgain
  <2>. DEFINE s == IF mode' = SD_INIT_FAIL THEN "failed" ELSE "sdmmc_init"
  <2>1. /\ op.step = "reinit" /\ UNCHANGED <<mounted, moved, result>>
        /\ op' = [op EXCEPT !.ret = "loop", !.step = s] \/ op' = [op EXCEPT !.ret = "once", !.step = s]
    BY <1>10 DEF ReinitFirst, ReinitAgain
  <2>2. op.call = "rw" /\ (~op.first => mode # SD_INIT_FAIL)
    BY <2>1 DEF PlaceInv
  <2>3. s \notin {"try", "reinit"}
    OBVIOUS
  <2>. HIDE DEF s
  <2>4. op'.call = op.call /\ op'.first = op.first /\ op'.step = s
    BY ONLY <2>1, <1>0 DEF Places
  <2>5. IF op.first THEN mode' = mode ELSE mode > 0 /\ mode' = mode - 1
    <3>1. CASE ReinitFirst
      BY <3>1 DEF ReinitFirst
    <3>2. CASE ReinitAgain
      BY <3>2, <1>0, <2>2 DEF ReinitAgain
    <3>. QED
      BY <1>10, <3>1, <3>2
  <2>6. Service!Recover
    BY <1>0, <2>1, <2>2, <2>3, <2>4, <2>5, StageIs, StageWillBe DEF Service!Recover
  <2>. QED
    BY <2>6 DEF Service!ServiceNext
<1>11. CASE Deinit
  <2>1. /\ op.call = "idle" /\ result # "gone" /\ op' = op /\ moved' = moved
        /\ mounted' = FALSE /\ result' = "gone" /\ mode' = IF mode = 0 THEN 3 ELSE mode
    BY <1>11 DEF Deinit
  <2>2. Service!Close
    BY <1>0, <2>1, StageIs, StageWillBe DEF Service!Close
  <2>. QED
    BY <2>2 DEF Service!ServiceNext
<1>. QED
  BY <1>1, <1>2, <1>3, <1>4, <1>5, <1>6, <1>7, <1>8, <1>9, <1>10, <1>11
     DEF Others, PowerCycles, QuietOnes, Requests

\* A session with a card is the service, for every card, SoC and size of a transfer.
THEOREM SessionIsService == Spec => KeepsService
<1>1. Init => Service!ServiceInit
  <2>1. ASSUME Init PROVE Service!ServiceInit
    <3>1. op.call = "off" /\ op.first = TRUE /\ mode = SD_UHS_SDR82 /\ ~mounted /\ moved = {} /\ result = "none"
      BY <2>1 DEF Init
    <3>2. Stage = "off"
      BY <3>1 DEF Stage
    <3>. QED
      BY <3>1, <3>2 DEF Service!ServiceInit
  <2>. QED
    BY <2>1
<1>2. SessionInv /\ [Next]_vars => [Service!ServiceNext]_<<Stage, mode, mounted, moved, op.first, result>>
  <2>1. CASE Remove \/ Insert \/ Weaken \/ UNCHANGED vars
    BY <2>1, UserSteps DEF Stage
  <2>. QED
    BY <2>1, WalkServes, OthersServe, ProgramSteps DEF Next
<1>. QED
  BY <1>1, <1>2, SessionInvariantHolds, PTL DEF Spec, KeepsService, Service!ServiceSpec, Service!serviceVars

\* The service keeps count by itself: while it moves, the sectors moved are the first
\* ones, and a transfer that has started over has a level left.
THEOREM ServiceCounts == Service!ServiceSpec => []Service!ServiceInv
<1>. USE BoundsAssumption DEF Service!ServiceInv
<1>1. Service!ServiceInit => Service!ServiceInv
  BY DEF Service!ServiceInit
<1>2. ASSUME Service!ServiceInv, [Service!ServiceNext]_<<Stage, mode, mounted, moved, op.first, result>>
      PROVE  Service!ServiceInv'
  <2>1. CASE Service!Begin \/ Service!Resume
    <3>1. moved' = 1 .. 0 /\ 0 \in 0 .. Sectors - 1
      BY <2>1 DEF Service!Begin, Service!Resume
    <3>2. (op.first)' \/ (mode > 0 /\ mode' = mode)
      BY <2>1 DEF Service!Begin, Service!Resume
    <3>. QED
      BY <3>1, <3>2
  <2>2. CASE Service!Move
    <3>1. PICK n \in 1 .. Sectors :
             /\ moved' = 1 .. n
             /\ IF n = Sectors THEN Stage' = "idle" ELSE UNCHANGED Stage
      BY <2>2 DEF Service!Move
    <3>2. (op.first)' = op.first /\ mode' = mode /\ Stage = "moving"
      BY <2>2 DEF Service!Move
    <3>. QED
      BY <1>2, <3>1, <3>2
  <2>3. CASE \/ Service!Open \/ Service!Opened \/ Service!Recover
             \/ Service!GiveUp \/ Service!Close
    <3>1. Stage' \in {"mounting", "idle", "recovering"}
      BY <2>3 DEF Service!Open, Service!Opened, Service!Recover, Service!GiveUp, Service!Close
    <3>. QED
      BY <3>1
  <2>4. CASE Service!Slow
    BY <2>4 DEF Service!Slow
  <2>5. CASE UNCHANGED <<Stage, mode, mounted, moved, op.first, result>>
    BY <1>2, <2>5
  <2>. QED
    BY <1>2, <2>1, <2>2, <2>3, <2>4, <2>5 DEF Service!ServiceNext
<1>. QED
  BY <1>1, <1>2, PTL DEF Service!ServiceSpec, Service!serviceVars

(***************************************************************************)
(* A card that answers.                                                    *)
(***************************************************************************)
\* The clock and the reset of the controller are as before.
RunsAs(g, r) == {"on", "rst"} \subseteq DOMAIN r /\ r.on = g.on /\ r.rst = g.rst

\* A clock set-up among them.
LEMMA SetupRuns ==
  ASSUME NEW g, {"on", "rst"} \subseteq DOMAIN g, NEW t
  PROVE  RunsAs(g, SetupClock(g, t))
<1>. DEFINE tapped == ConfigTap(g, t)
            bits == ModeBits(tapped, t)
            clocked == ConfigSource(bits, CardClockDiv(t)[1])
<1>1. RunsAs(g, tapped)
  BY DEF ConfigTap, RunsAs
<1>2. RunsAs(tapped, bits)
  BY <1>1 DEF ModeBits, RunsAs
<1>. HIDE DEF bits
<1>3. RunsAs(bits, clocked)
  BY <1>2 DEF ConfigSource, ConfigHost, RunsAs
<1>4. SetupClock(g, t) = [clocked EXCEPT !.div = CardClockDiv(t)[2]]
  BY DEF SetupClock, bits
<1>. HIDE DEF clocked, tapped
<1>5. RunsAs(clocked, SetupClock(g, t))
  BY <1>3, <1>4 DEF RunsAs
<1>. QED
  BY <1>1, <1>2, <1>3, <1>5 DEF RunsAs

\* sdmmc_init clocks the controller and takes it out of reset.
LEMMA PowerOnRuns ==
  ASSUME NEW g \in HostShape, NEW b, NEW power, NEW t
  PROVE  PowerOn(g, b, power, t).on /\ ~PowerOn(g, b, power, t).rst
<1>. DEFINE clean == [g EXCEPT !.en = FALSE, !.save = FALSE, !.saved = FALSE, !.b01 = b,
                              !.trim = g.b01, !.stopped = FALSE]
            powered == IF g.id = "sd" THEN ConfigSdmmc1(clean) ELSE ConfigEmmc(clean)
            sourced == ConfigHost(powered, CardClockDiv(t)[1])
            clocked == [sourced EXCEPT !.on = TRUE, !.rst = FALSE]
            reset == ResetAll(clocked)
<1>1. {"on", "rst"} \subseteq DOMAIN g
  BY DEF HostShape
<1>2. {"on", "rst"} \subseteq DOMAIN sourced
  <2>1. {"on", "rst"} \subseteq DOMAIN clean
    BY <1>1
  <2>. HIDE DEF clean
  <2>2. {"on", "rst"} \subseteq DOMAIN powered
    BY <2>1 DEF ConfigSdmmc1, ConfigEmmc
  <2>. HIDE DEF powered
  <2>. QED
    BY <2>2 DEF ConfigHost
<1>. HIDE DEF sourced
<1>3. {"on", "rst"} \subseteq DOMAIN clocked /\ clocked.on /\ ~clocked.rst
  BY <1>2
<1>4. PowerOn(g, b, power, t) = [[reset EXCEPT !.ofs = power] EXCEPT !.cal = power]
  BY DEF PowerOn, Autocal, AutocalConfigOffset, clocked, sourced, ClockEnable
<1>. HIDE DEF clocked
<1>5. {"on", "rst"} \subseteq DOMAIN reset /\ reset.on /\ ~reset.rst
  BY <1>3 DEF ResetAll
<1>. HIDE DEF reset
<1>. QED
  BY <1>4, <1>5

\* No step of an initialisation stops the controller again.
LEMMA WalkRuns ==
  ASSUME ShapeInv, Walk
  PROVE  h'.on = h.on /\ h'.rst = h.rst
<1>1. h \in HostShape /\ {"on", "rst"} \subseteq DOMAIN h
  BY DEF ShapeInv, HostShape
<1>2. RunsAs(h, R)
  BY <1>1 DEF R, Recalibrate, Autocal, RunsAs
<1>3. CASE \E t \in {"SD_ID", "MMC_ID"} : h' = Start(h, h.ldo, 1, t)
  <2>1. PICK t \in {"SD_ID", "MMC_ID"} : h' = Start(h, h.ldo, 1, t)
    BY <1>3
  <2>. DEFINE wide == SetIoPower(SetBusWidth(h, 1), h.ldo)
              timed == SetupClock(wide, t)
              saving == CardClockPowersave(timed, FALSE)
  <2>2. RunsAs(h, wide)
    BY <1>1 DEF SetIoPower, SetBusWidth, RunsAs
  <2>. HIDE DEF wide
  <2>3. RunsAs(wide, timed)
    BY <2>2, SetupRuns DEF RunsAs
  <2>. HIDE DEF timed
  <2>4. RunsAs(timed, saving)
    BY <2>3 DEF CardClockPowersave, RunsAs
  <2>5. h' = [saving EXCEPT !.en = TRUE, !.ck = TRUE]
    BY <2>1 DEF Start, saving, timed, wide
  <2>. HIDE DEF saving
  <2>6. RunsAs(saving, h')
    BY <2>4, <2>5 DEF RunsAs
  <2>. QED
    BY <2>2, <2>3, <2>4, <2>6 DEF RunsAs
<1>4. CASE \E t \in Timings : h' = SetupClock(h, t)
  BY <1>1, <1>4, SetupRuns DEF RunsAs
<1>5. CASE h' = LowerRail(h)
  BY <1>1, <1>5 DEF LowerRail, SetIoPower, Autocal, AutocalConfigOffset
<1>6. CASE h' = SetBusWidth(R, 4) \/ h' = SetBusWidth(h, 8)
  BY <1>1, <1>2, <1>6 DEF SetBusWidth, RunsAs
<1>7. CASE h' = Tuned(h) \/ h' = SaveTapValue(h) \/ h' = [h EXCEPT !.ck = TRUE]
  BY <1>1, <1>7 DEF Tuned, SaveTapValue
<1>. QED
  BY HostChanges, <1>2, <1>3, <1>4, <1>5, <1>6, <1>7 DEF RunsAs

\* What the card gets in each timing, against what a card in each mode can take.
LEMMA Rates ==
  ASSUME NEW g, NEW t \in Timings, TimedFor(g, t)
  PROVE  /\ CardRate(g) \in Nat
         /\ t \in {"SD_ID", "MMC_ID"} => CardRate(g) <= 400
         /\ t \in {"SD_DS12", "SDR12", "MMC_LS26"} => CardRate(g) <= 26000
         /\ t \in {"SD_HS25", "SDR25"} => CardRate(g) <= 50000
         /\ t = "MMC_HS52" => CardRate(g) <= 52000
         /\ t = "SDR50" => CardRate(g) <= 100000
         /\ CardRate(g) <= 208000
<1>1. g.src = CardClockDiv(t)[1] /\ g.div = CardClockDiv(t)[2]
  BY DEF TimedFor
<1>2. CASE t = "SD_ID"
  <2>1. CardClockDiv(t) = <<25000, 64>>
    BY ONLY <1>2 DEF CardClockDiv
  <2>2. CardRate(g) = RealClock(25000) \div 64
    BY ONLY <1>1, <2>1 DEF CardRate
  <2>. QED
    BY ONLY <1>2, <2>2 DEF RealClock
<1>3. CASE t = "MMC_ID"
  <2>1. CardClockDiv(t) = <<26000, 66>>
    BY ONLY <1>3 DEF CardClockDiv
  <2>2. CardRate(g) = RealClock(26000) \div 66
    BY ONLY <1>1, <2>1 DEF CardRate
  <2>. QED
    BY ONLY <1>3, <2>2 DEF RealClock
<1>4. CASE t = "SD_DS12" \/ t = "SDR12"
  <2>1. CardClockDiv(t) = <<25000, 1>>
    BY ONLY <1>4 DEF CardClockDiv
  <2>2. CardRate(g) = RealClock(25000) \div 1
    BY ONLY <1>1, <2>1 DEF CardRate
  <2>. QED
    BY ONLY <1>4, <2>2 DEF RealClock
<1>5. CASE t = "MMC_LS26"
  <2>1. CardClockDiv(t) = <<26000, 1>>
    BY ONLY <1>5 DEF CardClockDiv
  <2>2. CardRate(g) = RealClock(26000) \div 1
    BY ONLY <1>1, <2>1 DEF CardRate
  <2>. QED
    BY ONLY <1>5, <2>2 DEF RealClock
<1>6. CASE t = "SD_HS25" \/ t = "SDR25"
  <2>1. CardClockDiv(t) = <<50000, 1>>
    BY ONLY <1>6 DEF CardClockDiv
  <2>2. CardRate(g) = RealClock(50000) \div 1
    BY ONLY <1>1, <2>1 DEF CardRate
  <2>. QED
    BY ONLY <1>6, <2>2 DEF RealClock
<1>7. CASE t = "MMC_HS52"
  <2>1. CardClockDiv(t) = <<52000, 1>>
    BY ONLY <1>7 DEF CardClockDiv
  <2>2. CardRate(g) = RealClock(52000) \div 1
    BY ONLY <1>1, <2>1 DEF CardRate
  <2>. QED
    BY ONLY <1>7, <2>2 DEF RealClock
<1>8. CASE t = "SDR50"
  <2>1. CardClockDiv(t) = <<100000, 1>>
    BY ONLY <1>8 DEF CardClockDiv
  <2>2. CardRate(g) = RealClock(100000) \div 1
    BY ONLY <1>1, <2>1 DEF CardRate
  <2>. QED
    BY ONLY <1>8, <2>2 DEF RealClock
<1>9. CASE t = "SDR82"
  <2>1. CardClockDiv(t) = <<164000, 1>>
    BY ONLY <1>9 DEF CardClockDiv
  <2>2. CardRate(g) = RealClock(164000) \div 1
    BY ONLY <1>1, <2>1 DEF CardRate
  <2>. QED
    BY ONLY <1>9, <2>2 DEF RealClock
<1>10. CASE t = "SDR104" \/ t = "MMC_HS200" \/ t = "MMC_HS400"
  <2>1. CardClockDiv(t) = <<200000, 1>>
    BY ONLY <1>10 DEF CardClockDiv
  <2>2. CardRate(g) = RealClock(200000) \div 1
    BY ONLY <1>1, <2>1 DEF CardRate
  <2>. QED
    BY ONLY <1>10, <2>2 DEF RealClock
<1>. QED
  BY <1>2, <1>3, <1>4, <1>5, <1>6, <1>7, <1>8, <1>9, <1>10 DEF Timings

\* A controller that runs is answered, when level and clock are the card's.
Suits(t) ==
    \/ t \in {"SD_ID", "MMC_ID"}
    \/ t = "SDR12" /\ card.mode = "SDR12"
    \/ /\ card.st \in {"stby", "tran"}
       /\ \/ t \in {"SD_DS12", "SDR12", "MMC_LS26"}
          \/ t = "MMC_HS52" /\ card.mode = "HS52"
          \/ t = "SDR25" /\ card.mode = "SDR25"
          \/ t = "SDR50" /\ card.mode = "SDR50"
          \/ t \in {"SDR82", "MMC_HS200", "MMC_HS400"} /\ card.mode \in {"SDR104", "HS200", "HS400"}
\* Talks, then.
LEMMA TalksWhen ==
  ASSUME SessionInv, swaps = 0, h.en, h.on, ~h.rst, card.st # "off",
         h.ldo = card.sig, h.io = card.sig, NEW t \in Timings, TimedFor(h, t), Suits(t)
  PROVE  Talks
<1>1. card.ins
  BY DEF SessionInv, CardInv
<1>2. CardRate(h) <= IF card.st \in {"idle", "ready", "ident"} /\ card.mode # "SDR12"
                       THEN 400 ELSE Limit(card.mode)
  <2>1. /\ Limit("SDR12") = 26000 /\ Limit("HS52") = 52000 /\ Limit("SDR25") = 50000 /\ Limit("SDR50") = 100000
        /\ Limit("SDR104") = 208000 /\ Limit("HS200") = 208000 /\ Limit("HS400") = 208000
        /\ Limit(card.mode) \in Nat /\ Limit(card.mode) >= 26000
    BY DEF Limit
  <2>2. CASE t \in {"SD_ID", "MMC_ID"}
    BY <2>1, <2>2, Rates
  <2>3. CASE t = "SDR12" /\ card.mode = "SDR12"
    BY <2>1, <2>3, Rates
  <2>4. CASE card.st \in {"stby", "tran"} /\ t \in {"SD_DS12", "SDR12", "MMC_LS26"}
    BY <2>1, <2>4, Rates
  <2>5. CASE card.st \in {"stby", "tran"} /\ t \notin {"SD_ID", "MMC_ID", "SD_DS12", "SDR12", "MMC_LS26"}
    BY <2>1, <2>5, Rates DEF Suits
  <2>. QED
    BY <2>2, <2>3, <2>4, <2>5 DEF Suits
<1>. QED
  BY <1>1, <1>2 DEF Talks

\* The steps at which an SD card is spoken to.
SdCommands == {"go_idle", "send_if_cond", "get_op_cond", "switch_voltage", "get_cid", "get_rca",
               "get_csd", "select_card", "tuning", "check_status"} \cup Selected
\* It can answer there, with data once it is selected.
LEMMA SdTalks ==
  ASSUME SessionInv, Healthy, MountInv, cap.kind = "sd", op.step \in SdCommands
  PROVE  /\ Talks
         /\ op.step \in Selected => card.st = "tran" /\ DataAgrees /\ TapAgrees
         /\ op.step = "tuning" => card.st = "tran" /\ DataAgrees
         /\ op.step = "check_status" => card.st = "tran"
<1>. USE DEF SessionInv
<1>1. /\ h.en /\ h.on /\ ~h.rst /\ swaps = 0 /\ SdReadyFor(op.step) /\ SdHostAt(op.step) /\ SdToldAt(op.step)
      /\ store.low \in BOOLEAN /\ card \in CardStates /\ CardInv
  BY StepsAre DEF SdCommands, Selected, SdOnly, CommonSteps, MountInv, Healthy, HostInv, ToldInv, ShapeInv
<1>2. {"SD_ID", "SDR12", "SD_DS12", "SDR25", "SDR50", "SDR82"} \subseteq Timings
  BY DEF Timings
<1>3. CASE op.step \in {"go_idle", "send_if_cond", "get_op_cond", "switch_voltage"}
  <2>1. TimedFor(h, "SD_ID") /\ h.ldo = card.sig /\ h.io = card.sig /\ card.st # "off"
    BY <1>1, <1>3 DEF SdReadyFor, SdHostAt, Identifying, Switching, Level
  <2>2. Talks
    BY <1>1, <1>2, <2>1, TalksWhen DEF Suits
  <2>. QED
    BY <1>3, <2>2 DEF Selected
<1>4. CASE op.step \in {"get_cid", "get_rca", "get_csd"}
  <2>1. h.ldo = card.sig /\ h.io = card.sig /\ card.st \in {"ready", "ident", "stby"}
    BY <1>1, <1>4 DEF SdReadyFor, SdHostAt, Asking, Level
  <2>2. CASE store.low
    <3>1. TimedFor(h, "SDR12") /\ card.mode = "SDR12"
      BY <1>1, <1>4, <2>1, <2>2 DEF SdHostAt, Asking, Level, CardInv
    <3>. QED
      BY <1>1, <1>2, <1>4, <2>1, <3>1, TalksWhen DEF Suits, Selected
  <2>3. CASE ~store.low
    <3>1. TimedFor(h, "SD_ID")
      BY <1>1, <1>4, <2>3 DEF SdHostAt, Asking
    <3>. QED
      BY <1>1, <1>2, <1>4, <2>1, <3>1, TalksWhen DEF Suits, Selected
  <2>. QED
    BY <2>2, <2>3
<1>5. CASE op.step \in Selected \cup {"select_card"}
  <2>1. card.st \in {"stby", "tran"} /\ h.ldo = card.sig /\ h.io = card.sig
    BY <1>1, <1>5 DEF SdReadyFor, SdHostAt, SdToldAt, Told, Level, Asking
  <2>2. TimedFor(h, IF store.low THEN "SDR12" ELSE "SD_DS12")
    BY <1>1, <1>5 DEF SdHostAt
  <2>3. Talks
    BY <1>1, <1>2, <2>1, <2>2, TalksWhen DEF Suits
  <2>4. op.step \in Selected => card.st = "tran" /\ DataAgrees /\ TapAgrees
    <3>. SUFFICES ASSUME op.step \in Selected PROVE card.st = "tran" /\ DataAgrees /\ TapAgrees
      OBVIOUS
    <3>1. Told(IF store.low THEN "SDR12" ELSE "DS")
      BY <1>1 DEF SdToldAt
    <3>2. TimingAgrees
      BY <2>2, <3>1 DEF Told, TimedFor, TimingAgrees
    <3>. QED
      BY <3>1, <3>2 DEF Told, DataAgrees, TapAgrees
  <2>. QED
    BY <1>5, <2>3, <2>4 DEF Selected
<1>6. CASE op.step = "tuning"
  <2>1. Told(UhsMode) /\ TimedFor(h, UhsTiming) /\ Level(h, "1.8")
    BY <1>1, <1>6 DEF SdHostAt, SdToldAt
  <2>2. UhsTiming \in Timings /\ Suits(UhsTiming)
    BY <1>2, <2>1 DEF Suits, UhsTiming, UhsMode, Told
  <2>3. Talks
    BY <1>1, <2>1, <2>2, TalksWhen DEF Told, Level
  <2>4. TimingAgrees
    BY <2>1 DEF Told, TimedFor, TimingAgrees, UhsTiming, UhsMode
  <2>. QED
    BY <1>6, <2>1, <2>3, <2>4 DEF Told, DataAgrees, Selected
<1>7. CASE op.step = "check_status"
  <2>1. Told(IF store.low THEN UhsMode ELSE "HS") /\ Level(h, h.ldo)
    BY <1>1, <1>7 DEF SdHostAt, SdToldAt, Level
  <2>2. CASE store.low
    <3>1. TimedFor(h, UhsTiming)
      BY <1>1, <1>7, <2>2 DEF SdHostAt
    <3>2. UhsTiming \in Timings /\ Suits(UhsTiming)
      BY <1>2, <2>1, <2>2 DEF Suits, UhsTiming, UhsMode, Told
    <3>. QED
      BY <1>1, <1>7, <2>1, <3>1, <3>2, TalksWhen DEF Told, Level, Selected
  <2>3. CASE ~store.low
    <3>1. TimedFor(h, "SD_DS12")
      BY <1>1, <1>7, <2>3 DEF SdHostAt
    <3>. QED
      BY <1>1, <1>2, <1>7, <2>1, <3>1, TalksWhen DEF Told, Level, Suits, Selected
  <2>. QED
    BY <2>2, <2>3
<1>. QED
  BY <1>3, <1>4, <1>5, <1>6, <1>7 DEF SdCommands

\* There is a step after each.
LEMMA SdFollows ==
  ASSUME SessionInv, cap.kind = "sd", Walk
  PROVE  Following(op.step, store') # "failed"
<1>. USE DEF SessionInv
<1>1. op.step \in Steps \ {"sdmmc_init", "ready"} /\ op.step \notin MmcOnly /\ store' \in Records /\ SdHostAt(op.step)
  BY Walks, StoreChanges DEF HostInv
<1>2. SdAfter(op.step, store')
  BY <1>1, SdFollowing, CardsAssumption DEF ShapeInv
<1>3. op.step \in {"lv_clock", "lv_rail", "switch_get", "switch_check", "switch_set", "setup_uhs", "tuning"} =>
         store' = store
  <2>1. CommonStep /\ op.step \in {"lv_clock", "lv_rail", "switch_get", "switch_check", "switch_set", "setup_uhs", "tuning"} => store' = store
    BY DEF Walk, CommonStep, SdmmcInit, SdmmcStart, GoIdleState, GetCid, GetCsd, SelectCard,
      SetBlocklen, CheckStatus, CheckStatus2, CheckStatus3, TuningExecute,
      Done, Setting, Accepted, Failed, Command, DataCommand, Ask
  <2>2. MmcStep => store' = store
    BY DEF MmcStep, MmcGetOpCond, SetRelativeAddr, SetupLs26, SwitchBuswidth,
      GetExtCsd, EnableHS200, EnableHS, EnableHS400,
      Done, Setting, Accepted, Failed, Command, DataCommand, Ask
  <2>3. SdStep /\ op.step \in {"lv_clock", "lv_rail", "switch_get", "switch_check", "switch_set", "setup_uhs", "tuning"} => store' = store
    BY DEF SdStep, SendIfCond, SdGetOpCond, SwitchVoltage, EnableLowVoltage, GetRca,
      SetupDs12, ClrCardDetect, GetScr, SetBusWidth4, SwitchGet, SetCurrentLimit, SwitchCheck,
      SwitchSet, SetupUhs, SetupHs25, GetSsr,
      Done, Setting, Accepted, Failed, Command, DataCommand, Ask
  <2>. QED
    BY <2>1, <2>2, <2>3 DEF Walk
<1>4. /\ op.step \in {"lv_clock", "lv_rail"} => store.s18
      /\ op.step = "switch_get" => store.low \/ ~cap.v10
      /\ op.step \in {"switch_check", "switch_set"} => store.low \/ (~cap.v10 /\ cap.hs)
      /\ op.step \in {"setup_uhs", "tuning"} => store.low
  BY <1>1 DEF SdHostAt, Switching
<1>. QED
  BY <1>1, <1>2, <1>3, <1>4, StepsAre DEF SdAfter, CommonSteps, SdOnly

\* In a mount no command of an SD card fails but those that ask for a speed it does
\* not have.
LEMMA SdFails ==
  ASSUME SessionInv, Healthy, faults' = 0, MountInv, cap.kind = "sd", Walk, op'.step = "failed"
  PROVE  op.step \in {"switch_get", "switch_check"} /\ Fast /\ NeedsSlow
<1>. USE DEF SessionInv
<1>1. /\ op' = [op EXCEPT !.step = "failed"] /\ op \in Places /\ faults = 0 /\ Consistent
      /\ op.step \in Steps /\ SdReadyFor(op.step) /\ SdHostAt(op.step)
      /\ card \in CardStates /\ CardInv /\ swaps = 0 /\ store.low \in BOOLEAN /\ cap \in CardShape
  BY Walks, CardsAssumption DEF ShapeInv, Healthy, MountInv, HostInv
<1>2. /\ op.step \in SdCommands => Talks
      /\ op.step \in Selected => card.st = "tran" /\ DataAgrees /\ TapAgrees
      /\ op.step = "tuning" => card.st = "tran" /\ DataAgrees
      /\ op.step = "check_status" => card.st = "tran"
  BY SdTalks DEF SdCommands
<1>3. ASSUME NEW s, NEW x PROVE [op EXCEPT !.step = Following(s, x)] = op' => Following(s, x) = "failed"
  BY <1>1 DEF Places
<1>4. Following(op.step, store') # "failed"
  BY SdFollows
<1>5. /\ op.step = "get_op_cond" => card.st = "idle" /\ (store.sdsc => ~cap.v2)
      /\ op.step = "switch_voltage" => card.st = "ready"
      /\ op.step = "lv_check" => card.sig = "1.8"
      /\ op.step = "get_cid" => card.st = "ready"
      /\ op.step = "get_rca" => card.st = "ident"
      /\ op.step \in {"get_csd", "select_card"} => card.st = "stby"
      /\ op.step \in {"switch_get", "switch_check"} => (store.low <=> Fast)
      /\ op.step = "switch_get" /\ Fast /\ cap.wide => h.width = 4
      /\ op.step = "switch_check" /\ Fast => cap.wide
  BY <1>1 DEF SdReadyFor, Switching, Selected
<1>6. card.ins /\ (cap.hc => cap.v2) /\ (Fast => UhsMode \in cap.modes)
  BY <1>1 DEF CardInv, Consistent, Fast, UhsMode
<1>10. CASE SdmmcStart
  BY <1>1, <1>2, <1>3, <1>4, <1>10 DEF SdmmcStart, Setting, Done, Accepted, Failed, Command, DataCommand, Ask, Spend, SdCommands, Selected
<1>11. CASE GoIdleState
  BY <1>1, <1>2, <1>3, <1>4, <1>11 DEF GoIdleState, Setting, Done, Accepted, Failed, Command, DataCommand, Ask, Spend, SdCommands, Selected
<1>12. CASE GetCid
  BY <1>1, <1>2, <1>3, <1>4, <1>5, <1>6, <1>12 DEF GetCid, NeedsSlow, Setting, Done, Accepted, Failed, Command, DataCommand, Ask, Spend, SdCommands, Selected
<1>13. CASE GetCsd
  BY <1>1, <1>2, <1>3, <1>4, <1>5, <1>6, <1>13 DEF GetCsd, NeedsSlow, Setting, Done, Accepted, Failed, Command, DataCommand, Ask, Spend, SdCommands, Selected
<1>14. CASE SelectCard
  BY <1>1, <1>2, <1>3, <1>4, <1>5, <1>6, <1>14 DEF SelectCard, NeedsSlow, Setting, Done, Accepted, Failed, Command, DataCommand, Ask, Spend, SdCommands, Selected
<1>15. CASE SetBlocklen
  BY <1>1, <1>2, <1>3, <1>4, <1>15 DEF SetBlocklen, Setting, Done, Accepted, Failed, Command, DataCommand, Ask, Spend, SdCommands, Selected
<1>16. CASE CheckStatus
  BY <1>1, <1>2, <1>3, <1>4, <1>16 DEF CheckStatus, Setting, Done, Accepted, Failed, Command, DataCommand, Ask, Spend, SdCommands, Selected
<1>17. CASE TuningExecute
  BY <1>1, <1>2, <1>3, <1>4, <1>17 DEF TuningExecute, Setting, Done, Accepted, Failed, Command, DataCommand, Ask, Spend, SdCommands, Selected
<1>18. CASE SendIfCond
  <2>1. op.step = "send_if_cond" /\ Talks
    BY <1>2, <1>18 DEF SendIfCond, Done, Accepted, Failed, SdCommands
  <2>2. ~Accepted("send_if_cond", Talks /\ cap.v2, card, store)
    BY <2>1, <1>3, <1>4 DEF Accepted, Done
  <2>3. ~Failed("send_if_cond", Talks /\ cap.v2, card, [store EXCEPT !.sdsc = TRUE], TRUE)
    <3>. SUFFICES ASSUME Failed("send_if_cond", Talks /\ cap.v2, card, [store EXCEPT !.sdsc = TRUE], TRUE)
                  PROVE  FALSE
      OBVIOUS
    <3>1. store' = [store EXCEPT !.sdsc = TRUE]
          /\ op' = [op EXCEPT !.step = Following("send_if_cond", [store EXCEPT !.sdsc = TRUE])]
      BY DEF Failed
    <3>2. op' = [op EXCEPT !.step = Following(op.step, store')]
      BY ONLY <3>1, <2>1
    <3>. QED
      BY ONLY <3>2, <1>3, <1>4
  <2>4. ~(Talks /\ cap.v2 /\ Failed("send_if_cond", Talks /\ cap.v2, card, store, FALSE))
    BY <1>1 DEF Failed, Spend
  <2>. QED
    BY <1>18, <2>2, <2>3, <2>4 DEF SendIfCond
<1>19. CASE SdGetOpCond
  BY <1>1, <1>2, <1>3, <1>4, <1>5, <1>6, <1>19 DEF SdGetOpCond, NeedsSlow, Setting, Done, Accepted, Failed, Command, DataCommand, Ask, Spend, SdCommands, Selected
<1>20. CASE SwitchVoltage
  BY <1>1, <1>2, <1>3, <1>4, <1>5, <1>6, <1>20 DEF SwitchVoltage, NeedsSlow, Setting, Done, Accepted, Failed, Command, DataCommand, Ask, Spend, SdCommands, Selected
<1>21. CASE EnableLowVoltage
  <2>1. op.step \in {"lv_clock", "lv_rail", "lv_check"}
    BY <1>21 DEF EnableLowVoltage, Setting, Done, Failed
  <2>2. ~(Setting("lv_clock", SetupClock(h, "SDR12")) \/ Setting("lv_rail", LowerRail(h)))
    BY <1>3, <1>4 DEF Setting, Done
  <2>3. ~Done("lv_check", card.sig = "1.8" /\ card.ins, [h EXCEPT !.ck = TRUE], card, [store EXCEPT !.low = TRUE])
    <3>. SUFFICES ASSUME Done("lv_check", card.sig = "1.8" /\ card.ins, [h EXCEPT !.ck = TRUE], card,
                              [store EXCEPT !.low = TRUE])
                  PROVE  FALSE
      OBVIOUS
    <3>1. op.step = "lv_check" /\ store' = [store EXCEPT !.low = TRUE]
          /\ op' = [op EXCEPT !.step = Following("lv_check", [store EXCEPT !.low = TRUE])]
      BY DEF Done
    <3>2. op' = [op EXCEPT !.step = Following(op.step, store')]
      BY ONLY <3>1
    <3>. QED
      BY ONLY <3>2, <1>3, <1>4
  <2>4. ~Failed("lv_check", card.sig = "1.8" /\ card.ins, card, store, FALSE)
    BY <1>1, <1>5, <1>6 DEF Failed, Spend
  <2>. QED
    BY <1>21, <2>2, <2>3, <2>4 DEF EnableLowVoltage
<1>22. CASE GetRca
  BY <1>1, <1>2, <1>3, <1>4, <1>5, <1>6, <1>22 DEF GetRca, NeedsSlow, Setting, Done, Accepted, Failed, Command, DataCommand, Ask, Spend, SdCommands, Selected
<1>23. CASE SetupDs12
  BY <1>1, <1>2, <1>3, <1>4, <1>23 DEF SetupDs12, Setting, Done, Accepted, Failed, Command, DataCommand, Ask, Spend, SdCommands, Selected
<1>24. CASE ClrCardDetect
  BY <1>1, <1>2, <1>3, <1>4, <1>24 DEF ClrCardDetect, Setting, Done, Accepted, Failed, Command, DataCommand, Ask, Spend, SdCommands, Selected
<1>25. CASE GetScr
  BY <1>1, <1>2, <1>3, <1>4, <1>25 DEF GetScr, Setting, Done, Accepted, Failed, Command, DataCommand, Ask, Spend, SdCommands, Selected
<1>26. CASE SetBusWidth4
  BY <1>1, <1>2, <1>3, <1>4, <1>26 DEF SetBusWidth4, Setting, Done, Accepted, Failed, Command, DataCommand, Ask, Spend, SdCommands, Selected
<1>27. CASE SwitchGet
  <2>1. op.step = "switch_get"
    BY <1>27 DEF SwitchGet, Command, Accepted, Done, Failed
  <2>2. Talks /\ card.st = "tran" /\ DataAgrees /\ TapAgrees
    BY <2>1, <1>2 DEF SdCommands, Selected
  <2>3. ~(store.low => h.width = 4)
    BY <1>1, <1>3, <1>4, <1>27, <2>1, <2>2 DEF SwitchGet, Command, Accepted, Done, Failed, Spend
  <2>. QED
    BY <2>1, <2>3, <1>5 DEF NeedsSlow, Fast
<1>28. CASE SetCurrentLimit
  BY <1>1, <1>2, <1>3, <1>4, <1>28 DEF SetCurrentLimit, Setting, Done, Accepted, Failed, Command, DataCommand, Ask, Spend, SdCommands, Selected
<1>29. CASE SwitchCheck
  <2>1. op.step = "switch_check"
    BY <1>29 DEF SwitchCheck, Command, Accepted, Done, Failed
  <2>2. Talks /\ card.st = "tran" /\ DataAgrees /\ TapAgrees
    BY <2>1, <1>2 DEF SdCommands, Selected
  <2>3. ~(store.low => UhsMode \in cap.modes /\ ~cap.hungry)
    BY <1>1, <1>3, <1>4, <1>29, <2>1, <2>2 DEF SwitchCheck, Command, Accepted, Done, Failed, Spend
  <2>. QED
    BY <2>1, <2>3, <1>5, <1>6 DEF NeedsSlow, Fast
<1>30. CASE SwitchSet
  BY <1>1, <1>2, <1>3, <1>4, <1>30 DEF SwitchSet, Setting, Done, Accepted, Failed, Command, DataCommand, Ask, Spend, SdCommands, Selected
<1>31. CASE SetupUhs
  BY <1>1, <1>2, <1>3, <1>4, <1>31 DEF SetupUhs, Setting, Done, Accepted, Failed, Command, DataCommand, Ask, Spend, SdCommands, Selected
<1>32. CASE SetupHs25
  BY <1>1, <1>2, <1>3, <1>4, <1>32 DEF SetupHs25, Setting, Done, Accepted, Failed, Command, DataCommand, Ask, Spend, SdCommands, Selected
<1>33. CASE GetSsr
  BY <1>1, <1>2, <1>3, <1>4, <1>33 DEF GetSsr, Setting, Done, Accepted, Failed, Command, DataCommand, Ask, Spend, SdCommands, Selected
<1>34. CASE CheckStatus2 \/ CheckStatus3 \/ MmcStep
  BY <1>1, <1>34 DEF CheckStatus2, CheckStatus3, MmcStep, MmcGetOpCond, SetRelativeAddr, SetupLs26,
    SwitchBuswidth, GetExtCsd, EnableHS200, EnableHS, EnableHS400, HostInv, MmcOnly,
    Setting, Done, Accepted, Failed, Command, DataCommand, Ask
<1>. QED
  BY <1>34, <1>10, <1>11, <1>12, <1>13, <1>14, <1>15, <1>16, <1>17, <1>18, <1>19, <1>20, <1>21, <1>22, <1>23, <1>24, <1>25, <1>26, <1>27, <1>28, <1>29, <1>30, <1>31, <1>32, <1>33 DEF Walk, CommonStep, SdStep, SdmmcInit

\* What it answers when it does not fail.
LEMMA SdAnswers ==
  ASSUME SessionInv, Healthy, faults' = 0, MountInv, cap.kind = "sd", Walk, op'.step # "failed"
  PROVE  /\ op.step = "go_idle" => card' = Idled
         /\ op.step = "send_if_cond" => store' = store \/ ~cap.v2
         /\ op.step = "switch_voltage" => store' = store
         /\ op.step = "switch_get" /\ Fast => h.width = 4
         /\ op.step = "switch_check" /\ Fast => ~cap.hungry
<1>. USE DEF SessionInv
<1>1. /\ op \in Places /\ faults = 0 /\ SdReadyFor(op.step) /\ op' # [op EXCEPT !.step = "failed"]
  BY Walks DEF ShapeInv, Healthy, MountInv, Places
<1>2. op.step \in SdCommands => Talks
  BY SdTalks
<1>3. CASE op.step = "go_idle"
  <2>1. GoIdleState
    BY <1>3 DEF Walk, CommonStep, SdStep, MmcStep, SdmmcInit, SdmmcStart, GetCid, GetCsd, SelectCard,
      SetBlocklen, CheckStatus, CheckStatus2, CheckStatus3, TuningExecute,
      SendIfCond, SdGetOpCond, SwitchVoltage, EnableLowVoltage, GetRca,
      SetupDs12, ClrCardDetect, GetScr, SetBusWidth4, SwitchGet, SetCurrentLimit, SwitchCheck,
      SwitchSet, SetupUhs, SetupHs25, GetSsr, MmcGetOpCond, SetRelativeAddr, SetupLs26, SwitchBuswidth,
      GetExtCsd, EnableHS200, EnableHS, EnableHS400,
      Done, Setting, Accepted, Failed, Command, DataCommand, Ask
  <2>. QED
    BY <1>1, <1>2, <1>3, <2>1 DEF GoIdleState, Accepted, Done, Failed, Spend, SdCommands
<1>4. CASE op.step = "send_if_cond"
  <2>1. SendIfCond
    BY <1>4 DEF Walk, CommonStep, SdStep, MmcStep, SdmmcInit, SdmmcStart, GetCid, GetCsd, SelectCard,
      SetBlocklen, CheckStatus, CheckStatus2, CheckStatus3, TuningExecute, GoIdleState,
      SdGetOpCond, SwitchVoltage, EnableLowVoltage, GetRca,
      SetupDs12, ClrCardDetect, GetScr, SetBusWidth4, SwitchGet, SetCurrentLimit, SwitchCheck,
      SwitchSet, SetupUhs, SetupHs25, GetSsr, MmcGetOpCond, SetRelativeAddr, SetupLs26, SwitchBuswidth,
      GetExtCsd, EnableHS200, EnableHS, EnableHS400,
      Done, Setting, Accepted, Failed, Command, DataCommand, Ask
  <2>2. Talks
    BY <1>2, <1>4 DEF SdCommands
  <2>3. CASE Accepted("send_if_cond", Talks /\ cap.v2, card, store)
    BY <2>3, <1>4 DEF Accepted, Done
  <2>4. CASE Failed("send_if_cond", Talks /\ cap.v2, card, [store EXCEPT !.sdsc = TRUE], TRUE)
    <3>1. ~(Talks /\ cap.v2)
      BY <1>1, <2>4 DEF Failed, Spend
    <3>. QED
      BY <1>4, <2>2, <3>1
  <2>5. CASE Failed("send_if_cond", Talks /\ cap.v2, card, store, FALSE)
    BY <2>5, <1>4 DEF Failed
  <2>. QED
    BY <2>1, <2>3, <2>4, <2>5 DEF SendIfCond
<1>5. CASE op.step = "switch_voltage"
  <2>1. SwitchVoltage
    BY <1>5, SwitchSteps
  <2>2. Talks /\ card.st = "ready"
    BY <1>1, <1>2, <1>5 DEF SdCommands, SdReadyFor, Switching
  <2>3. Accepted("switch_voltage", Talks /\ card.st = "ready", [card EXCEPT !.sig = "1.8", !.mode = "SDR12"], store)
    BY <1>1, <2>1, <2>2 DEF SwitchVoltage, Failed, Spend
  <2>. QED
    BY <2>3, <1>5 DEF Accepted, Done
<1>6. CASE op.step = "switch_get" /\ Fast
  <2>1. SwitchGet
    BY <1>6 DEF Walk, CommonStep, SdStep, MmcStep, SdmmcInit, SdmmcStart, GetCid, GetCsd, SelectCard,
      SetBlocklen, CheckStatus, CheckStatus2, CheckStatus3, TuningExecute, GoIdleState, SendIfCond,
      SdGetOpCond, SwitchVoltage, EnableLowVoltage, GetRca,
      SetupDs12, ClrCardDetect, GetScr, SetBusWidth4, SetCurrentLimit, SwitchCheck,
      SwitchSet, SetupUhs, SetupHs25, GetSsr, MmcGetOpCond, SetRelativeAddr, SetupLs26, SwitchBuswidth,
      GetExtCsd, EnableHS200, EnableHS, EnableHS400,
      Done, Setting, Accepted, Failed, Command, DataCommand, Ask
  <2>2. store.low => h.width = 4
    BY <1>1, <2>1 DEF SwitchGet, Command, Accepted, Done, Failed
  <2>3. store.low
    BY <1>1, <1>6 DEF SdReadyFor, Selected
  <2>. QED
    BY <1>6, <2>2, <2>3
<1>7. CASE op.step = "switch_check" /\ Fast
  <2>1. SwitchCheck
    BY <1>7 DEF Walk, CommonStep, SdStep, MmcStep, SdmmcInit, SdmmcStart, GetCid, GetCsd, SelectCard,
      SetBlocklen, CheckStatus, CheckStatus2, CheckStatus3, TuningExecute, GoIdleState, SendIfCond,
      SdGetOpCond, SwitchVoltage, EnableLowVoltage, GetRca,
      SetupDs12, ClrCardDetect, GetScr, SetBusWidth4, SwitchGet, SetCurrentLimit,
      SwitchSet, SetupUhs, SetupHs25, GetSsr, MmcGetOpCond, SetRelativeAddr, SetupLs26, SwitchBuswidth,
      GetExtCsd, EnableHS200, EnableHS, EnableHS400,
      Done, Setting, Accepted, Failed, Command, DataCommand, Ask
  <2>2. store.low => ~cap.hungry
    BY <1>1, <2>1 DEF SwitchCheck, Command, Accepted, Done, Failed
  <2>3. store.low
    BY <1>1, <1>7 DEF SdReadyFor, Selected
  <2>. QED
    BY <1>7, <2>2, <2>3
<1>. QED
  BY <1>3, <1>4, <1>5, <1>6, <1>7

\* The bus of an SD card is widened exactly when the card said it can be.
LEMMA WidensWhen ==
  ASSUME cap.kind = "sd", NEW st
  PROVE  /\ Needed("set_bus_width", st) <=> BusWidth = 4 /\ cap.wide /\ ~cap.v10
         /\ Needed("set_bus_width", st) <=> Following("get_scr", st) = "set_bus_width"
<1>1. Order = SdOrder /\ Len(Order) = 28 /\ Order[17] = "get_scr" /\ Order[18] = "set_bus_width"
  BY SMTT(30) DEF Order, SdOrder
<1>2. Needed("set_bus_width", st) => Following("get_scr", st) = "set_bus_width"
  BY <1>1, FollowingIs
<1>3. ASSUME ~Needed("set_bus_width", st) PROVE Following("get_scr", st) # "set_bus_width"
  <2>1. CASE Needed("switch_get", st)
    <3>1. Order[19] = "switch_get"
      BY <1>1 DEF SdOrder
    <3>2. \A j \in 18 .. 18 : ~Needed(Order[j], st)
      BY <1>1, <1>3, SMTT(30)
    <3>3. Following(Order[17], st) = Order[19]
      BY <1>1, <2>1, <3>1, <3>2, FollowingIs
    <3>. QED
      BY <1>1, <3>1, <3>3
  <2>2. CASE ~Needed("switch_get", st)
    <3>1. /\ Order[19] = "switch_get" /\ Order[20] = "current_limit" /\ Order[21] = "switch_check"
          /\ Order[22] = "switch_set" /\ Order[23] = "setup_uhs" /\ Order[24] = "tuning"
          /\ Order[25] = "check_status" /\ Order[26] = "setup_hs25" /\ Order[27] = "get_ssr"
      BY <1>1 DEF SdOrder
    <3>2. \A s \in {"switch_get", "current_limit", "switch_check", "switch_set", "setup_uhs", "tuning",
                    "check_status", "setup_hs25"} : ~Needed(s, st)
      BY <2>2, SMTT(30) DEF Needed
    <3>3. \A j \in 18 .. 26 : ~Needed(Order[j], st)
      BY <1>1, <1>3, <3>1, <3>2
    <3>4. Needed("get_ssr", st)
  BY SMTT(30) DEF Needed
    <3>5. Following(Order[17], st) = Order[27]
      BY <1>1, <3>1, <3>3, <3>4, FollowingIs
    <3>. QED
      BY <1>1, <3>1, <3>5
  <2>. QED
    BY <2>1, <2>2
<1>4. Needed("set_bus_width", st) <=> BusWidth = 4 /\ cap.wide /\ ~cap.v10
  BY DEF Needed
<1>. QED
  BY <1>2, <1>3, <1>4

\* An SD card that answered is where the driver takes it to be.
LEMMA SdMounts ==
  ASSUME SessionInv, Healthy, faults' = 0, MountInv, cap.kind = "sd", Walk, op'.step # "failed"
  PROVE  SdReadyFor(op.step)'
<1>. USE DEF SessionInv
<1>1. /\ op.step \in Steps \ {"sdmmc_init", "ready"} /\ op.step \notin MmcOnly
      /\ mode' = mode /\ cap' = cap /\ op'.step = Following(op.step, store') /\ store' \in Records
      /\ SdGoes(op.step) /\ SdHostAt(op.step) /\ SdReadyFor(op.step) /\ SdToldAt(op.step)
      /\ card \in CardStates /\ store \in Records /\ cap \in CardShape /\ h \in HostShape /\ Consistent
  BY Walks, StoreChanges, SdGoesOn, CardsAssumption DEF ShapeInv, HostInv, ToldInv, MountInv, Healthy, env, Records
<1>2. SdAfter(op.step, store')
  BY <1>1, SdFollowing
<1>3. /\ op.step = "go_idle" => card' = Idled
      /\ op.step = "send_if_cond" => store' = store \/ ~cap.v2
      /\ op.step = "switch_voltage" => store' = store
      /\ op.step = "switch_get" /\ Fast => h.width = 4
      /\ op.step = "switch_check" /\ Fast => ~cap.hungry
  BY SdAnswers
<1>4. Fast' = Fast /\ NeedsSlow' = NeedsSlow
  BY <1>1 DEF Fast, NeedsSlow
<1>5. op.step # "lv_rail" => h'.ldo = h.ldo
  BY HostStays
<1>6. h' = R => h'.width = h.width
  BY <1>1, RKeeps
<1>10. CASE op.step = "start"
  <2>1. op'.step = "go_idle"
    BY <1>1, <1>2, <1>10 DEF SdGoes, SdAfter, Records
  <2>2. /\ card'.st = "idle" /\ card'.sig = "3.3" /\ (store'.sdsc => ~cap'.v2)
    BY <1>1, <1>3, <1>5, <1>6, <1>10 DEF SdGoes, SdHostAt, SdReadyFor, SdToldAt, Told, Identifying, Switching, Asking, Selected, SpeedSet, Records
  <2>. QED
    BY ONLY <1>4, <2>1, <2>2 DEF SdReadyFor, Switching, Asking, Selected, SpeedSet
<1>11. CASE op.step = "go_idle"
  <2>1. op'.step = "send_if_cond"
    BY <1>1, <1>2, <1>11 DEF SdAfter
  <2>2. store' = store /\ card.sig = "3.3" /\ (store.sdsc => ~cap.v2)
    BY <1>1, <1>11 DEF SdGoes, SdReadyFor
  <2>3. card'.st = "idle" /\ card'.sig = card.sig
    BY <1>1, <1>3, <1>11 DEF Idled, CardStates
  <2>. QED
    BY <1>1, <2>1, <2>2, <2>3 DEF SdReadyFor, Switching, Asking, Selected, SpeedSet
<1>12. CASE op.step = "send_if_cond"
  <2>1. op'.step = "get_op_cond"
    BY <1>1, <1>2, <1>12 DEF SdGoes, SdAfter, Records
  <2>2. /\ card'.st = "idle" /\ card'.sig = "3.3" /\ (store'.sdsc => ~cap'.v2)
    BY <1>1, <1>3, <1>5, <1>6, <1>12 DEF SdGoes, SdHostAt, SdReadyFor, SdToldAt, Told, Identifying, Switching, Asking, Selected, SpeedSet, Records
  <2>. QED
    BY ONLY <1>4, <2>1, <2>2 DEF SdReadyFor, Switching, Asking, Selected, SpeedSet
<1>13. CASE op.step = "get_op_cond"
  <2>1. /\ card' = [card EXCEPT !.st = "ready"] /\ card.sig = "3.3" /\ h.ldo = "3.3" /\ ~store.low
        /\ store' = [store EXCEPT !.s18 = UhsSupport /\ ~store.sdsc /\ cap.uhs /\ card.sig = "3.3"]
        /\ (store.sdsc => ~cap.v2)
    BY <1>1, <1>13 DEF SdGoes, SdHostAt, SdReadyFor, Identifying, Level
  <2>2. card'.st = "ready" /\ card'.sig = "3.3" /\ h'.ldo = "3.3" /\ ~store'.low
    BY <2>1, <1>1, <1>5, <1>13 DEF CardStates, Records
  <2>3. store'.s18 <=> Fast
    <3>1. UhsSupport /\ ~store.sdsc /\ cap.uhs /\ card.sig = "3.3" <=> Fast
      BY <2>1, <1>1 DEF UhsSupport, Fast, Consistent
    <3>. QED
      BY <2>1, <3>1, <1>1 DEF Records
  <2>4. op'.step = IF store'.s18 THEN "switch_voltage" ELSE "get_cid"
    BY <1>1, <1>2, <1>13 DEF SdAfter
  <2>. QED
    BY ONLY <1>4, <2>2, <2>3, <2>4 DEF SdReadyFor, Switching, Asking, Selected, SpeedSet
<1>14. CASE op.step = "switch_voltage"
  <2>1. store' = store /\ store.s18 /\ Fast /\ card.st = "ready"
    BY <1>1, <1>3, <1>14 DEF SdHostAt, SdReadyFor, Switching
  <2>2. card' = [card EXCEPT !.sig = "1.8", !.mode = "SDR12"]
    BY <1>1, <1>14, <2>1 DEF SdGoes, Records
  <2>3. card'.st = "ready" /\ card'.sig = "1.8"
    BY <1>1, <2>1, <2>2 DEF CardStates
  <2>4. op'.step = "lv_clock"
    BY <1>1, <1>2, <1>14, <2>1 DEF SdAfter
  <2>. QED
    BY ONLY <1>4, <2>1, <2>3, <2>4 DEF SdReadyFor, Switching, Asking, Selected, SpeedSet
<1>15. CASE op.step = "lv_clock"
  <2>1. op'.step = "lv_rail"
    BY <1>1, <1>2, <1>15 DEF SdGoes, SdAfter, Records, SdHostAt, Switching
  <2>2. /\ card'.st = "ready" /\ card'.sig = "1.8" /\ Fast
    BY <1>1, <1>3, <1>5, <1>6, <1>15 DEF SdGoes, SdHostAt, SdReadyFor, SdToldAt, Told, Identifying, Switching, Asking, Selected, SpeedSet, Records
  <2>. QED
    BY ONLY <1>4, <2>1, <2>2 DEF SdReadyFor, Switching, Asking, Selected, SpeedSet
<1>16. CASE op.step = "lv_rail"
  <2>1. op'.step = "lv_check"
    BY <1>1, <1>2, <1>16 DEF SdGoes, SdAfter, Records, SdHostAt, Switching
  <2>2. /\ card'.st = "ready" /\ card'.sig = "1.8" /\ Fast
    BY <1>1, <1>3, <1>5, <1>6, <1>16 DEF SdGoes, SdHostAt, SdReadyFor, SdToldAt, Told, Identifying, Switching, Asking, Selected, SpeedSet, Records
  <2>. QED
    BY ONLY <1>4, <2>1, <2>2 DEF SdReadyFor, Switching, Asking, Selected, SpeedSet
<1>17. CASE op.step = "lv_check"
  <2>1. op'.step = "get_cid"
    BY <1>1, <1>2, <1>17 DEF SdGoes, SdAfter, Records
  <2>2. /\ card'.st = "ready" /\ card'.sig = "1.8" /\ Fast
        /\ h'.ldo = "1.8" /\ store'.low
    BY <1>1, <1>3, <1>5, <1>6, <1>17 DEF SdGoes, SdHostAt, SdReadyFor, SdToldAt, Told, Identifying, Switching, Asking, Selected, SpeedSet, Records, Level
  <2>. QED
    BY ONLY <1>4, <2>1, <2>2 DEF SdReadyFor, Switching, Asking, Selected, SpeedSet
<1>18. CASE op.step = "get_cid"
  <2>1. op'.step = "get_rca"
    BY <1>1, <1>2, <1>18 DEF SdGoes, SdAfter, Records
  <2>2. /\ card'.st = "ident"
        /\ card'.sig = h'.ldo
        /\ (store'.low <=> Fast)
    BY <1>1, <1>3, <1>5, <1>6, <1>18 DEF SdGoes, SdHostAt, SdReadyFor, SdToldAt, Told, Identifying, Switching, Asking, Selected, SpeedSet, Records, CardStates
  <2>. QED
    BY ONLY <1>4, <2>1, <2>2 DEF SdReadyFor, Switching, Asking, Selected, SpeedSet
<1>19. CASE op.step = "get_rca"
  <2>1. op'.step = "get_csd"
    BY <1>1, <1>2, <1>19 DEF SdGoes, SdAfter, Records
  <2>2. /\ card'.st = "stby"
        /\ card'.sig = h'.ldo
        /\ (store'.low <=> Fast)
    BY <1>1, <1>3, <1>5, <1>6, <1>19 DEF SdGoes, SdHostAt, SdReadyFor, SdToldAt, Told, Identifying, Switching, Asking, Selected, SpeedSet, Records, CardStates
  <2>. QED
    BY ONLY <1>4, <2>1, <2>2 DEF SdReadyFor, Switching, Asking, Selected, SpeedSet
<1>20. CASE op.step = "get_csd"
  <2>1. op'.step \in {"select_card", "setup_ds12"}
    BY <1>1, <1>2, <1>20 DEF SdGoes, SdAfter, Records
  <2>2. /\ card'.st = "stby"
        /\ card'.sig = h'.ldo
        /\ (store'.low <=> Fast)
    BY <1>1, <1>3, <1>5, <1>6, <1>20 DEF SdGoes, SdHostAt, SdReadyFor, SdToldAt, Told, Identifying, Switching, Asking, Selected, SpeedSet, Records
  <2>. QED
    BY ONLY <1>4, <2>1, <2>2 DEF SdReadyFor, Switching, Asking, Selected, SpeedSet
<1>21. CASE op.step = "setup_ds12"
  <2>1. op'.step = "select_card"
    BY <1>1, <1>2, <1>21 DEF SdGoes, SdAfter, Records
  <2>2. /\ card'.st = "stby"
        /\ card'.sig = h'.ldo
        /\ (store'.low <=> Fast)
    BY <1>1, <1>3, <1>5, <1>6, <1>21 DEF SdGoes, SdHostAt, SdReadyFor, SdToldAt, Told, Identifying, Switching, Asking, Selected, SpeedSet, Records
  <2>. QED
    BY ONLY <1>4, <2>1, <2>2 DEF SdReadyFor, Switching, Asking, Selected, SpeedSet
<1>22. CASE op.step = "select_card"
  <2>1. op'.step = "set_blocklen"
    BY <1>1, <1>2, <1>22 DEF SdGoes, SdAfter, Records
  <2>2. /\ (store'.low <=> Fast)
        /\ (h'.width = 4 => cap'.wide)
    BY <1>1, <1>3, <1>5, <1>6, <1>22 DEF SdGoes, SdHostAt, SdReadyFor, SdToldAt, Told, Identifying, Switching, Asking, Selected, SpeedSet, Records
  <2>. QED
    BY ONLY <1>4, <2>1, <2>2 DEF SdReadyFor, Switching, Asking, Selected, SpeedSet
<1>23. CASE op.step = "set_blocklen"
  <2>1. op'.step = "clr_card_detect"
    BY <1>1, <1>2, <1>23 DEF SdGoes, SdAfter, Records
  <2>2. /\ (store'.low <=> Fast)
        /\ (h'.width = 4 => cap'.wide)
    BY <1>1, <1>3, <1>5, <1>6, <1>23 DEF SdGoes, SdHostAt, SdReadyFor, SdToldAt, Told, Identifying, Switching, Asking, Selected, SpeedSet, Records
  <2>. QED
    BY ONLY <1>4, <2>1, <2>2 DEF SdReadyFor, Switching, Asking, Selected, SpeedSet
<1>24. CASE op.step = "clr_card_detect"
  <2>1. op'.step = "get_scr"
    BY <1>1, <1>2, <1>24 DEF SdGoes, SdAfter, Records
  <2>2. /\ (store'.low <=> Fast)
        /\ (h'.width = 4 => cap'.wide)
    BY <1>1, <1>3, <1>5, <1>6, <1>24 DEF SdGoes, SdHostAt, SdReadyFor, SdToldAt, Told, Identifying, Switching, Asking, Selected, SpeedSet, Records
  <2>. QED
    BY ONLY <1>4, <2>1, <2>2 DEF SdReadyFor, Switching, Asking, Selected, SpeedSet
<1>25. CASE op.step = "get_scr"
  <2>1. \/ op'.step = "set_bus_width" /\ cap'.wide
        \/ op'.step = "switch_get" /\ ~(Fast /\ cap'.wide)
        \/ op'.step = "get_ssr" /\ ~store'.low
    <3>1. op'.step = "set_bus_width" <=> BusWidth = 4 /\ cap.wide /\ ~cap.v10
      BY <1>1, <1>25, WidensWhen
    <3>2. Fast => BusWidth = 4 /\ ~cap.v10
      BY <1>1 DEF Fast, BusWidth, Consistent, SD_UHS_SDR82, SD_1BIT_HS25
    <3>3. op'.step \in {"set_bus_width", "switch_get"} \/ (op'.step = "get_ssr" /\ ~store'.low)
      BY <1>1, <1>2, <1>25 DEF SdAfter
    <3>. QED
      BY <1>1, <3>1, <3>2, <3>3
  <2>2. (store'.low <=> Fast) /\ (h'.width = 4 => cap'.wide)
    BY <1>1, <1>6, <1>25 DEF SdGoes, SdReadyFor, Selected
  <2>. QED
    BY ONLY <1>4, <2>1, <2>2 DEF SdReadyFor, Switching, Asking, Selected, SpeedSet
<1>26. CASE op.step = "set_bus_width"
  <2>1. op'.step \in {"switch_get", "get_ssr"} /\ (op'.step = "get_ssr" => ~store'.low)
    BY <1>1, <1>2, <1>26 DEF SdAfter
  <2>2. (store'.low <=> Fast) /\ cap'.wide
    BY <1>1, <1>26 DEF SdGoes, SdReadyFor, Selected
  <2>3. h'.width = 4
    BY <1>1, <1>26, RecalibrateDoes, WidthDoes DEF SdGoes, R, Widths
  <2>. QED
    BY ONLY <1>4, <2>1, <2>2, <2>3 DEF SdReadyFor, Switching, Asking, Selected, SpeedSet
<1>27. CASE op.step = "switch_get"
  <2>1. op'.step = "current_limit"
    BY <1>1, <1>2, <1>27 DEF SdGoes, SdAfter, Records, SdHostAt
  <2>2. /\ (store'.low <=> Fast)
        /\ (h'.width = 4 => cap'.wide)
        /\ (Fast => cap'.wide)
    BY <1>1, <1>3, <1>5, <1>6, <1>27 DEF SdGoes, SdHostAt, SdReadyFor, SdToldAt, Told, Identifying, Switching, Asking, Selected, SpeedSet, Records
  <2>. QED
    BY ONLY <1>4, <2>1, <2>2 DEF SdReadyFor, Switching, Asking, Selected, SpeedSet
<1>28. CASE op.step = "current_limit"
  <2>1. op'.step = "switch_check" \/ (op'.step = "get_ssr" /\ ~store'.low)
    BY <1>1, <1>2, <1>28 DEF SdGoes, SdAfter, Records
  <2>2. /\ (store'.low <=> Fast)
        /\ (h'.width = 4 => cap'.wide)
        /\ (Fast => cap'.wide)
    BY <1>1, <1>3, <1>5, <1>6, <1>28 DEF SdGoes, SdHostAt, SdReadyFor, SdToldAt, Told, Identifying, Switching, Asking, Selected, SpeedSet, Records
  <2>. QED
    BY ONLY <1>4, <2>1, <2>2 DEF SdReadyFor, Switching, Asking, Selected, SpeedSet
<1>29. CASE op.step = "switch_check"
  <2>1. op'.step = "switch_set"
    BY <1>1, <1>2, <1>29 DEF SdGoes, SdAfter, Records, SdHostAt
  <2>2. /\ (store'.low <=> Fast)
        /\ (h'.width = 4 => cap'.wide)
        /\ (Fast => ~NeedsSlow)
    BY <1>1, <1>3, <1>5, <1>6, <1>29 DEF SdGoes, SdHostAt, SdReadyFor, SdToldAt, Told, Identifying, Switching, Asking, Selected, SpeedSet, Records, NeedsSlow
  <2>. QED
    BY ONLY <1>4, <2>1, <2>2 DEF SdReadyFor, Switching, Asking, Selected, SpeedSet
<1>30. CASE op.step = "switch_set"
  <2>1. op'.step \in {"setup_uhs", "check_status"}
    BY <1>1, <1>2, <1>30 DEF SdGoes, SdAfter, Records, SdHostAt
  <2>2. /\ (store'.low <=> Fast)
        /\ (Fast => ~NeedsSlow)
    BY <1>1, <1>3, <1>5, <1>6, <1>30 DEF SdGoes, SdHostAt, SdReadyFor, SdToldAt, Told, Identifying, Switching, Asking, Selected, SpeedSet, Records
  <2>. QED
    BY ONLY <1>4, <2>1, <2>2 DEF SdReadyFor, Switching, Asking, Selected, SpeedSet
<1>31. CASE op.step = "setup_uhs"
  <2>1. op'.step \in {"tuning", "check_status"}
    BY <1>1, <1>2, <1>31 DEF SdGoes, SdAfter, Records, SdHostAt
  <2>2. /\ (store'.low <=> Fast)
        /\ (Fast => ~NeedsSlow)
    BY <1>1, <1>3, <1>5, <1>6, <1>31 DEF SdGoes, SdHostAt, SdReadyFor, SdToldAt, Told, Identifying, Switching, Asking, Selected, SpeedSet, Records
  <2>. QED
    BY ONLY <1>4, <2>1, <2>2 DEF SdReadyFor, Switching, Asking, Selected, SpeedSet
<1>32. CASE op.step = "tuning"
  <2>1. op'.step = "check_status"
    BY <1>1, <1>2, <1>32 DEF SdGoes, SdAfter, Records, SdHostAt
  <2>2. /\ (store'.low <=> Fast)
        /\ (Fast => ~NeedsSlow)
    BY <1>1, <1>3, <1>5, <1>6, <1>32 DEF SdGoes, SdHostAt, SdReadyFor, SdToldAt, Told, Identifying, Switching, Asking, Selected, SpeedSet, Records
  <2>. QED
    BY ONLY <1>4, <2>1, <2>2 DEF SdReadyFor, Switching, Asking, Selected, SpeedSet
<1>33. CASE op.step = "check_status"
  <2>1. op'.step \in {"setup_hs25", "get_ssr"}
    BY <1>1, <1>2, <1>33 DEF SdGoes, SdAfter, Records
  <2>2. /\ (store'.low <=> Fast)
        /\ (Fast => ~NeedsSlow)
    BY <1>1, <1>3, <1>5, <1>6, <1>33 DEF SdGoes, SdHostAt, SdReadyFor, SdToldAt, Told, Identifying, Switching, Asking, Selected, SpeedSet, Records
  <2>. QED
    BY ONLY <1>4, <2>1, <2>2 DEF SdReadyFor, Switching, Asking, Selected, SpeedSet
<1>34. CASE op.step = "setup_hs25"
  <2>1. op'.step = "get_ssr"
    BY <1>1, <1>2, <1>34 DEF SdGoes, SdAfter, Records
  <2>2. /\ (store'.low <=> Fast)
        /\ (Fast => ~NeedsSlow)
    BY <1>1, <1>3, <1>5, <1>6, <1>34 DEF SdGoes, SdHostAt, SdReadyFor, SdToldAt, Told, Identifying, Switching, Asking, Selected, SpeedSet, Records
  <2>. QED
    BY ONLY <1>4, <2>1, <2>2 DEF SdReadyFor, Switching, Asking, Selected, SpeedSet
<1>35. CASE op.step = "get_ssr"
  <2>1. op'.step = "ready"
    BY <1>1, <1>2, <1>35 DEF SdGoes, SdAfter, Records
  <2>2. /\ (store'.low <=> Fast)
        /\ (Fast => ~NeedsSlow)
    BY <1>1, <1>3, <1>5, <1>6, <1>35 DEF SdGoes, SdHostAt, SdReadyFor, SdToldAt, Told, Identifying, Switching, Asking, Selected, SpeedSet, Records
  <2>. QED
    BY ONLY <1>4, <2>1, <2>2 DEF SdReadyFor, Switching, Asking, Selected, SpeedSet
<1>. QED
  BY <1>1, StepsAre, <1>10, <1>11, <1>12, <1>13, <1>14, <1>15, <1>16, <1>17, <1>18, <1>19, <1>20, <1>21, <1>22, <1>23, <1>24, <1>25, <1>26, <1>27, <1>28, <1>29, <1>30, <1>31, <1>32, <1>33, <1>34, <1>35 DEF CommonSteps, SdOnly

\* The steps at which the eMMC is spoken to.
MmcCommands == {"go_idle", "get_op_cond", "get_cid", "get_rca", "get_csd", "select_card", "set_blocklen",
                "switch_width8", "get_ext_csd", "switch_hs200", "tuning", "check_status", "switch_hs52",
                "check_status2", "switch_ddr8", "switch_hs400", "check_status3"}
\* It can answer there.
LEMMA MmcTalks ==
  ASSUME SessionInv, Healthy, MountInv, cap.kind = "emmc", op.step \in MmcCommands
  PROVE  /\ Talks
         /\ op.step \notin {"go_idle", "get_op_cond", "get_cid", "get_rca", "get_csd", "select_card"} =>
               card.st = "tran"
         /\ op.step \in {"get_ext_csd", "tuning"} => DataAgrees
         /\ op.step = "get_ext_csd" => TapAgrees
<1>. USE DEF SessionInv
<1>1. /\ h.en /\ h.on /\ ~h.rst /\ swaps = 0 /\ MmcReadyFor(op.step) /\ MmcHostAt(op.step) /\ MmcToldAt(op.step)
      /\ card \in CardStates /\ Level(h, "1.8") /\ card.sig = "1.8"
  BY StepsAre DEF MmcCommands, MmcOnly, CommonSteps, MountInv, Healthy, HostInv, ToldInv, ShapeInv, MmcHostAt, CardInv
<1>2. {"MMC_ID", "MMC_LS26", "MMC_HS52", "MMC_HS200", "MMC_HS400"} \subseteq Timings
  BY DEF Timings
<1>3. ASSUME NEW t \in Timings, TimedFor(h, t), Suits(t), card.st # "off"
      PROVE  Talks
  BY <1>1, <1>3, TalksWhen DEF Level
<1>4. CASE op.step \in {"go_idle", "get_op_cond", "get_cid", "get_rca", "get_csd"}
  <2>1. TimedFor(h, "MMC_ID") /\ card.st # "off"
    BY <1>1, <1>4 DEF MmcReadyFor, MmcHostAt
  <2>. QED
    BY <1>2, <1>3, <1>4, <2>1 DEF Suits
<1>5. CASE op.step = "select_card"
  <2>1. TimedFor(h, "MMC_LS26") /\ card.st = "stby"
    BY <1>1, <1>5 DEF MmcReadyFor, MmcHostAt
  <2>. QED
    BY <1>2, <1>3, <1>5, <2>1 DEF Suits
<1>6. CASE op.step \in {"set_blocklen", "switch_width8", "get_ext_csd", "switch_hs200"}
  <2>1. TimedFor(h, "MMC_LS26") /\ Told("DS")
    BY <1>1, <1>6 DEF MmcToldAt, MmcHostAt
  <2>2. Talks
    BY <1>2, <1>3, <2>1 DEF Suits, Told
  <2>3. DataAgrees /\ TapAgrees
    BY <2>1 DEF Told, TimedFor, DataAgrees, TimingAgrees, TapAgrees
  <2>. QED
    BY <2>1, <2>2, <2>3 DEF Told
<1>7. CASE op.step \in {"tuning", "check_status", "switch_hs52"}
  <2>1. TimedFor(h, "MMC_HS200") /\ Told("HS200")
    BY <1>1, <1>7 DEF MmcToldAt, MmcHostAt, MmcReadyFor
  <2>2. Talks
    BY <1>2, <1>3, <2>1 DEF Suits, Told
  <2>3. DataAgrees
    BY <2>1 DEF Told, TimedFor, DataAgrees, TimingAgrees
  <2>. QED
    BY <1>7, <2>1, <2>2, <2>3 DEF Told
<1>8. CASE op.step \in {"check_status2", "switch_ddr8", "switch_hs400"}
  <2>1. TimedFor(h, "MMC_HS52") /\ Told("HS52")
    BY <1>1, <1>8 DEF MmcToldAt, MmcReadyFor
  <2>. QED
    BY <1>2, <1>3, <1>8, <2>1 DEF Suits, Told
<1>9. CASE op.step = "check_status3"
  <2>1. TimedFor(h, "MMC_HS400") /\ Told("HS400")
    BY <1>1, <1>9 DEF MmcToldAt, MmcHostAt
  <2>. QED
    BY <1>2, <1>3, <1>9, <2>1 DEF Suits, Told
<1>. QED
  BY <1>4, <1>5, <1>6, <1>7, <1>8, <1>9 DEF MmcCommands

\* In a mount of the eMMC no command fails.
LEMMA MmcGoesOnAlways ==
  ASSUME SessionInv, Healthy, faults' = 0, MountInv, cap.kind = "emmc", Walk
  PROVE  op'.step # "failed"
<1>. USE DEF SessionInv
<1>1. /\ op.step \in Steps \ {"sdmmc_init", "ready"} /\ op.step \notin SdOnly /\ op \in Places /\ faults = 0
      /\ MmcReadyFor(op.step) /\ MmcHostAt(op.step) /\ store' \in Records /\ cap \in CardShape
  BY Walks, StoreChanges, CardsAssumption DEF ShapeInv, HostInv, MountInv, Healthy
<1>2. /\ op.step \in MmcCommands => Talks
      /\ op.step \in MmcCommands /\ op.step \notin {"go_idle", "get_op_cond", "get_cid", "get_rca", "get_csd", "select_card"} =>
               card.st = "tran"
      /\ op.step \in {"get_ext_csd", "tuning"} => DataAgrees
      /\ op.step = "get_ext_csd" => TapAgrees
  BY MmcTalks DEF MmcCommands
<1>3. Following(op.step, store') # "failed"
  <2>1. MmcAfter(op.step, store')
    BY <1>1, MmcFollowing
  <2>. QED
    BY <1>1, <2>1, StepsAre DEF MmcAfter, MmcHostAt, CommonSteps, MmcOnly
<1>4. ASSUME NEW s, NEW x PROVE [op EXCEPT !.step = Following(s, x)] = op' => Following(s, x) = op'.step
  BY <1>1 DEF Places
<1>5. /\ op.step = "get_op_cond" => card.st = "idle"
      /\ op.step = "get_cid" => card.st = "ready"
      /\ op.step = "get_rca" => card.st = "ident"
      /\ op.step \in {"get_csd", "select_card"} => card.st = "stby"
  BY <1>1 DEF MmcReadyFor
<1>10. CASE SdmmcStart
  BY <1>1, <1>2, <1>3, <1>4, <1>5, <1>10 DEF SdmmcStart, Setting, Done, Accepted, Failed, Command, DataCommand, Ask, Spend, MmcCommands
<1>11. CASE GoIdleState
  BY <1>1, <1>2, <1>3, <1>4, <1>5, <1>11 DEF GoIdleState, Setting, Done, Accepted, Failed, Command, DataCommand, Ask, Spend, MmcCommands
<1>12. CASE GetCid
  BY <1>1, <1>2, <1>3, <1>4, <1>5, <1>12 DEF GetCid, Setting, Done, Accepted, Failed, Command, DataCommand, Ask, Spend, MmcCommands
<1>13. CASE GetCsd
  BY <1>1, <1>2, <1>3, <1>4, <1>5, <1>13 DEF GetCsd, Setting, Done, Accepted, Failed, Command, DataCommand, Ask, Spend, MmcCommands
<1>14. CASE SelectCard
  BY <1>1, <1>2, <1>3, <1>4, <1>5, <1>14 DEF SelectCard, Setting, Done, Accepted, Failed, Command, DataCommand, Ask, Spend, MmcCommands
<1>15. CASE SetBlocklen
  BY <1>1, <1>2, <1>3, <1>4, <1>5, <1>15 DEF SetBlocklen, Setting, Done, Accepted, Failed, Command, DataCommand, Ask, Spend, MmcCommands
<1>16. CASE CheckStatus
  BY <1>1, <1>2, <1>3, <1>4, <1>5, <1>16 DEF CheckStatus, Setting, Done, Accepted, Failed, Command, DataCommand, Ask, Spend, MmcCommands
<1>17. CASE CheckStatus2
  BY <1>1, <1>2, <1>3, <1>4, <1>5, <1>17 DEF CheckStatus2, Setting, Done, Accepted, Failed, Command, DataCommand, Ask, Spend, MmcCommands
<1>18. CASE CheckStatus3
  BY <1>1, <1>2, <1>3, <1>4, <1>5, <1>18 DEF CheckStatus3, Setting, Done, Accepted, Failed, Command, DataCommand, Ask, Spend, MmcCommands
<1>19. CASE TuningExecute
  BY <1>1, <1>2, <1>3, <1>4, <1>5, <1>19 DEF TuningExecute, Setting, Done, Accepted, Failed, Command, DataCommand, Ask, Spend, MmcCommands
<1>20. CASE MmcGetOpCond
  BY <1>1, <1>2, <1>3, <1>4, <1>5, <1>20 DEF MmcGetOpCond, Setting, Done, Accepted, Failed, Command, DataCommand, Ask, Spend, MmcCommands
<1>21. CASE SetRelativeAddr
  BY <1>1, <1>2, <1>3, <1>4, <1>5, <1>21 DEF SetRelativeAddr, Setting, Done, Accepted, Failed, Command, DataCommand, Ask, Spend, MmcCommands
<1>22. CASE SetupLs26
  BY <1>1, <1>2, <1>3, <1>4, <1>5, <1>22 DEF SetupLs26, Setting, Done, Accepted, Failed, Command, DataCommand, Ask, Spend, MmcCommands
<1>23. CASE SwitchBuswidth
  BY <1>1, <1>2, <1>3, <1>4, <1>5, <1>23 DEF SwitchBuswidth, Setting, Done, Accepted, Failed, Command, DataCommand, Ask, Spend, MmcCommands
<1>24. CASE GetExtCsd
  BY <1>1, <1>2, <1>3, <1>4, <1>5, <1>24 DEF GetExtCsd, Setting, Done, Accepted, Failed, Command, DataCommand, Ask, Spend, MmcCommands
<1>25. CASE EnableHS200
  BY <1>1, <1>2, <1>3, <1>4, <1>5, <1>25 DEF EnableHS200, Setting, Done, Accepted, Failed, Command, DataCommand, Ask, Spend, MmcCommands
<1>26. CASE EnableHS
  BY <1>1, <1>2, <1>3, <1>4, <1>5, <1>26 DEF EnableHS, Setting, Done, Accepted, Failed, Command, DataCommand, Ask, Spend, MmcCommands
<1>27. CASE EnableHS400
  BY <1>1, <1>2, <1>3, <1>4, <1>5, <1>27 DEF EnableHS400, Setting, Done, Accepted, Failed, Command, DataCommand, Ask, Spend, MmcCommands
<1>28. CASE SdStep
  BY <1>1, <1>28 DEF SdStep, SendIfCond, SdGetOpCond, SwitchVoltage, EnableLowVoltage, GetRca,
    SetupDs12, ClrCardDetect, GetScr, SetBusWidth4, SwitchGet, SetCurrentLimit, SwitchCheck,
    SwitchSet, SetupUhs, SetupHs25, GetSsr, SdOnly,
    Setting, Done, Accepted, Failed, Command, DataCommand, Ask
<1>. QED
  BY <1>10, <1>11, <1>12, <1>13, <1>14, <1>15, <1>16, <1>17, <1>18, <1>19, <1>20, <1>21, <1>22, <1>23, <1>24, <1>25, <1>26, <1>27, <1>28 DEF Walk, CommonStep, MmcStep, SdmmcInit

\* It is where the driver takes it to be.
LEMMA MmcMounts ==
  ASSUME SessionInv, Healthy, faults' = 0, MountInv, cap.kind = "emmc", Walk
  PROVE  MmcReadyFor(op.step)'
<1>. USE DEF SessionInv
<1>0. op'.step # "failed"
  BY MmcGoesOnAlways
<1>1. /\ op.step \in Steps \ {"sdmmc_init", "ready"} /\ op.step \notin SdOnly
      /\ op'.step = Following(op.step, store') /\ store' \in Records /\ cap \in CardShape
      /\ MmcGoes(op.step) /\ MmcHostAt(op.step) /\ MmcReadyFor(op.step)
      /\ card \in CardStates /\ h \in HostShape
  BY <1>0, Walks, StoreChanges, MmcGoesOn, CardsAssumption DEF ShapeInv, HostInv, MountInv, Healthy, Records
<1>2. MmcAfter(op.step, store')
  BY <1>1, MmcFollowing
<1>3. op.step = "go_idle" => card' = Idled
  <2>. SUFFICES ASSUME op.step = "go_idle" PROVE card' = Idled
    OBVIOUS
  <2>1. GoIdleState
    BY DEF Walk, CommonStep, SdStep, MmcStep, SdmmcInit, SdmmcStart, GetCid, GetCsd, SelectCard,
      SetBlocklen, CheckStatus, CheckStatus2, CheckStatus3, TuningExecute,
      SendIfCond, SdGetOpCond, SwitchVoltage, EnableLowVoltage, GetRca,
      SetupDs12, ClrCardDetect, GetScr, SetBusWidth4, SwitchGet, SetCurrentLimit, SwitchCheck,
      SwitchSet, SetupUhs, SetupHs25, GetSsr, MmcGetOpCond, SetRelativeAddr, SetupLs26, SwitchBuswidth,
      GetExtCsd, EnableHS200, EnableHS, EnableHS400,
      Setting, Done, Accepted, Failed, Command, DataCommand, Ask
  <2>2. Talks
    BY MmcTalks DEF MmcCommands
  <2>3. op' # [op EXCEPT !.step = "failed"]
    BY <1>0 DEF ShapeInv, Places
  <2>. QED
    BY <2>1, <2>2, <2>3 DEF GoIdleState, Accepted, Done, Failed
<1>4. {"MMC_HS52"} \subseteq Timings
  BY DEF Timings
<1>10. CASE op.step = "start"
  <2>1. op'.step = "go_idle"
    BY <1>1, <1>2, <1>10 DEF MmcAfter, MmcHostAt
  <2>2. card'.st = "idle"
    BY <1>1, <1>10 DEF MmcGoes, MmcReadyFor, CardStates
  <2>. QED
    BY ONLY <2>1, <2>2 DEF MmcReadyFor
<1>11. CASE op.step = "go_idle"
  <2>1. op'.step = "get_op_cond"
    BY <1>1, <1>2, <1>11 DEF MmcAfter, MmcHostAt
  <2>2. card'.st = "idle"
    BY <1>1, <1>11, <1>3 DEF MmcGoes, MmcReadyFor, CardStates, Idled
  <2>. QED
    BY ONLY <2>1, <2>2 DEF MmcReadyFor
<1>12. CASE op.step = "get_op_cond"
  <2>1. op'.step = "get_cid"
    BY <1>1, <1>2, <1>12 DEF MmcAfter, MmcHostAt
  <2>2. card'.st = "ready"
    BY <1>1, <1>12 DEF MmcGoes, MmcReadyFor, CardStates
  <2>. QED
    BY ONLY <2>1, <2>2 DEF MmcReadyFor
<1>13. CASE op.step = "get_cid"
  <2>1. op'.step = "get_rca"
    BY <1>1, <1>2, <1>13 DEF MmcAfter, MmcHostAt
  <2>2. card'.st = "ident"
    BY <1>1, <1>13 DEF MmcGoes, MmcReadyFor, CardStates
  <2>. QED
    BY ONLY <2>1, <2>2 DEF MmcReadyFor
<1>14. CASE op.step = "get_rca"
  <2>1. op'.step = "get_csd"
    BY <1>1, <1>2, <1>14 DEF MmcAfter, MmcHostAt
  <2>2. card'.st = "stby"
    BY <1>1, <1>14 DEF MmcGoes, MmcReadyFor, CardStates
  <2>. QED
    BY ONLY <2>1, <2>2 DEF MmcReadyFor
<1>15. CASE op.step = "get_csd"
  <2>1. op'.step = "setup_ls26"
    BY <1>1, <1>2, <1>15 DEF MmcAfter, MmcHostAt
  <2>2. card'.st = "stby"
    BY <1>1, <1>15 DEF MmcGoes, MmcReadyFor, CardStates
  <2>. QED
    BY ONLY <2>1, <2>2 DEF MmcReadyFor
<1>16. CASE op.step = "setup_ls26"
  <2>1. op'.step = "select_card"
    BY <1>1, <1>2, <1>16 DEF MmcAfter, MmcHostAt
  <2>2. card'.st = "stby"
    BY <1>1, <1>16 DEF MmcGoes, MmcReadyFor, CardStates
  <2>. QED
    BY ONLY <2>1, <2>2 DEF MmcReadyFor
<1>17. CASE op.step = "select_card"
  <2>1. op'.step = "set_blocklen"
    BY <1>1, <1>2, <1>17 DEF MmcAfter, MmcHostAt
  <2>. QED
    BY ONLY <2>1 DEF MmcReadyFor
<1>18. CASE op.step = "set_blocklen"
  <2>1. op'.step = "switch_width8"
    BY <1>1, <1>2, <1>18 DEF MmcAfter, MmcHostAt
  <2>. QED
    BY ONLY <2>1 DEF MmcReadyFor
<1>19. CASE op.step = "switch_width8"
  <2>1. op'.step = "get_ext_csd"
    BY <1>1, <1>2, <1>19 DEF MmcAfter, MmcHostAt
  <2>. QED
    BY ONLY <2>1 DEF MmcReadyFor
<1>20. CASE op.step = "get_ext_csd"
  <2>1. op'.step = "switch_hs200"
    BY <1>1, <1>2, <1>20 DEF MmcAfter, MmcHostAt
  <2>. QED
    BY ONLY <2>1 DEF MmcReadyFor
<1>21. CASE op.step = "switch_hs200"
  <2>1. op'.step = "setup_hs200"
    BY <1>1, <1>2, <1>21 DEF MmcAfter, MmcHostAt
  <2>. QED
    BY ONLY <2>1 DEF MmcReadyFor
<1>22. CASE op.step = "setup_hs200"
  <2>1. op'.step = "tuning"
    BY <1>1, <1>2, <1>22 DEF MmcAfter, MmcHostAt
  <2>. QED
    BY ONLY <2>1 DEF MmcReadyFor
<1>23. CASE op.step = "tuning"
  <2>1. op'.step = "check_status"
    BY <1>1, <1>2, <1>23 DEF MmcAfter, MmcHostAt
  <2>. QED
    BY ONLY <2>1 DEF MmcReadyFor
<1>24. CASE op.step = "check_status"
  <2>1. op'.step \in {"save_tap", "ready"}
    BY <1>1, <1>2, <1>24 DEF MmcAfter, MmcHostAt
  <2>. QED
    BY ONLY <2>1 DEF MmcReadyFor
<1>25. CASE op.step = "save_tap"
  <2>1. op'.step = "switch_hs52"
    BY <1>1, <1>2, <1>25 DEF MmcAfter, MmcHostAt
  <2>2. TimedFor(h', "MMC_HS200")
    BY <1>1, <1>25, SaveTapDoes DEF MmcGoes, MmcReadyFor, CardStates, MmcHostAt, TimedFor, SameTiming
  <2>. QED
    BY ONLY <2>1, <2>2 DEF MmcReadyFor
<1>26. CASE op.step = "switch_hs52"
  <2>1. op'.step = "setup_hs52"
    BY <1>1, <1>2, <1>26 DEF MmcAfter, MmcHostAt
  <2>. QED
    BY ONLY <2>1 DEF MmcReadyFor
<1>27. CASE op.step = "setup_hs52"
  <2>1. op'.step = "check_status2"
    BY <1>1, <1>2, <1>27 DEF MmcAfter, MmcHostAt
  <2>2. TimedFor(h', "MMC_HS52")
    BY <1>1, <1>27, <1>4, ClockKeeps DEF MmcGoes, MmcReadyFor, CardStates
  <2>. QED
    BY ONLY <2>1, <2>2 DEF MmcReadyFor
<1>28. CASE op.step = "check_status2"
  <2>1. op'.step = "switch_ddr8"
    BY <1>1, <1>2, <1>28 DEF MmcAfter, MmcHostAt
  <2>2. TimedFor(h', "MMC_HS52")
    BY <1>1, <1>28, RKeeps DEF MmcGoes, MmcReadyFor, CardStates
  <2>. QED
    BY ONLY <2>1, <2>2 DEF MmcReadyFor
<1>29. CASE op.step = "switch_ddr8"
  <2>1. op'.step = "switch_hs400"
    BY <1>1, <1>2, <1>29 DEF MmcAfter, MmcHostAt
  <2>2. TimedFor(h', "MMC_HS52")
    BY <1>1, <1>29, RKeeps DEF MmcGoes, MmcReadyFor, CardStates
  <2>. QED
    BY ONLY <2>1, <2>2 DEF MmcReadyFor
<1>30. CASE op.step = "switch_hs400"
  <2>1. op'.step = "setup_hs400"
    BY <1>1, <1>2, <1>30 DEF MmcAfter, MmcHostAt
  <2>. QED
    BY ONLY <2>1 DEF MmcReadyFor
<1>31. CASE op.step = "setup_hs400"
  <2>1. op'.step = "check_status3"
    BY <1>1, <1>2, <1>31 DEF MmcAfter, MmcHostAt
  <2>. QED
    BY ONLY <2>1 DEF MmcReadyFor
<1>32. CASE op.step = "check_status3"
  <2>1. op'.step = "ready"
    BY <1>1, <1>2, <1>32 DEF MmcAfter, MmcHostAt
  <2>. QED
    BY ONLY <2>1 DEF MmcReadyFor
<1>. QED
  BY <1>1, StepsAre, <1>10, <1>11, <1>12, <1>13, <1>14, <1>15, <1>16, <1>17, <1>18, <1>19, <1>20, <1>21, <1>22, <1>23, <1>24, <1>25, <1>26, <1>27, <1>28, <1>29, <1>30, <1>31, <1>32 DEF CommonSteps, MmcOnly

\* A command that fails though it should not is counted, and so is a card pulled out.
LEMMA FaultsCounted ==
  ASSUME ShapeInv, [Next]_vars, faults' = 0, swaps' = 0
  PROVE  faults = 0 /\ swaps = 0 /\ cap' = cap
<1>1. faults \in Nat /\ swaps \in Nat
  BY DEF ShapeInv
<1>e. StorageEnd => faults' = faults \/ faults' = faults + 1
  BY DEF StorageEnd, Spend
<1>2. CASE CommonStep
  BY <1>1, <1>2 DEF CommonStep, SdmmcInit, SdmmcStart, GoIdleState, GetCid, GetCsd, SelectCard,
      SetBlocklen, CheckStatus, CheckStatus2, CheckStatus3, TuningExecute,
      Done, Setting, Accepted, Failed, Command, DataCommand, Ask, Spend, env
<1>3. CASE SdStep
  <2>1. UNCHANGED env
    BY <1>3 DEF SdStep, SendIfCond, SdGetOpCond, SwitchVoltage, EnableLowVoltage, GetRca,
      SetupDs12, ClrCardDetect, GetScr, SetBusWidth4, SwitchGet, SetCurrentLimit, SwitchCheck,
      SwitchSet, SetupUhs, SetupHs25, GetSsr,
      Done, Setting, Accepted, Failed, Command, DataCommand, Ask
  <2>2. faults' = faults \/ faults' = faults + 1
    BY <1>3 DEF SdStep, SendIfCond, SdGetOpCond, SwitchVoltage, EnableLowVoltage, GetRca,
      SetupDs12, ClrCardDetect, GetScr, SetBusWidth4, SwitchGet, SetCurrentLimit, SwitchCheck,
      SwitchSet, SetupUhs, SetupHs25, GetSsr,
      Done, Setting, Accepted, Failed, Command, DataCommand, Ask, Spend
  <2>. QED
    BY <1>1, <2>1, <2>2 DEF env
<1>4. CASE MmcStep
  BY <1>1, <1>4 DEF MmcStep, MmcGetOpCond, SetRelativeAddr, SetupLs26, SwitchBuswidth,
      GetExtCsd, EnableHS200, EnableHS, EnableHS400,
      Done, Setting, Accepted, Failed, Command, DataCommand, Ask, Spend, env
<1>5. CASE Mount \/ Ready \/ InitLoop \/ InitGivesUp \/ InitOnceFails
  <2>1. CASE Mount \/ Ready
    BY <1>1, <2>1 DEF Mount, Ready, env
  <2>2. CASE InitLoop
    BY <1>1, <1>e, <2>2 DEF InitLoop, PowerCycle, env
  <2>3. CASE InitGivesUp \/ InitOnceFails
    BY <1>1, <1>e, <2>3 DEF InitGivesUp, InitOnceFails, env
  <2>. QED
    BY <1>5, <2>1, <2>2, <2>3
<1>6. CASE FatMount \/ Transfer \/ TransferRequest \/ RequestFails \/ ReinitFirst \/ ReinitAgain \/ Deinit
  BY <1>1, <1>e, <1>6 DEF FatMount, Transfer, TransferRequest, RequestFails, ReinitFirst, ReinitAgain, Deinit,
    Spend, env
<1>7. CASE Remove \/ Insert \/ Weaken \/ UNCHANGED vars
  BY <1>1, <1>7 DEF Remove, Insert, Weaken, vars, env
<1>. QED
  BY <1>2, <1>3, <1>4, <1>5, <1>6, <1>7 DEF Next, Program

\* Each command of a mount leaves the two sides ready for the next.
LEMMA WalkMounts ==
  ASSUME SessionInv, Healthy, faults' = 0, MountInv, Walk
  PROVE  MountInv'
<1>. USE DEF SessionInv
<1>1. /\ op.step \in Steps \ {"sdmmc_init", "ready"} /\ mode' = mode /\ cap' = cap
      /\ op' = [op EXCEPT !.step = op'.step] /\ op \in Places /\ h \in HostShape
      /\ cap.kind \in {"sd", "emmc"} /\ h.on /\ ~h.rst
  BY Walks, CardsAssumption DEF ShapeInv, env, MountInv, CardShape, Ids
<1>2. Fast' = Fast /\ NeedsSlow' = NeedsSlow /\ op'.ret = op.ret
  BY <1>1 DEF Fast, NeedsSlow, Places
<1>3. h'.on /\ ~h'.rst
  BY <1>1, WalkRuns
<1>4. op'.step # "failed" =>
         /\ op'.step \in Steps \ {"sdmmc_init"} /\ op'.step # "f_mount"
         /\ IF cap.kind = "sd" THEN SdReadyFor(op.step)' ELSE MmcReadyFor(op.step)'
  <2>1. "f_mount" \notin Steps
    BY StepsAre DEF CommonSteps, SdOnly, MmcOnly
  <2>2. SdWay \subseteq Steps \ {"sdmmc_init"} /\ MmcWay \subseteq Steps \ {"sdmmc_init"}
    BY StepsAre DEF SdWay, MmcWay, SdOnly, MmcOnly
  <2>3. CASE cap.kind = "sd"
    BY <2>1, <2>2, <2>3, SdSuccess, SdMounts
  <2>4. CASE cap.kind = "emmc"
    BY <2>1, <2>2, <2>4, MmcSuccess, MmcMounts
  <2>. QED
    BY <1>1, <2>3, <2>4
<1>5. op'.step = "failed" => mode = SD_UHS_SDR82 /\ NeedsSlow /\ op.step # "start"
  BY <1>1, SdFails, MmcGoesOnAlways DEF Fast
<1>6. h'.en
  <2>1. CASE op.step = "start"
    <3>1. \E t \in {"SD_ID", "MMC_ID"} : h' = Start(h, h.ldo, 1, t)
      BY <1>1, <1>5, <2>1, SdGoesOn, MmcGoesOn DEF SdGoes, MmcGoes
    <3>2. h.ldo \in Levels /\ {"SD_ID", "MMC_ID"} \subseteq Timings \ {"MMC_HS400"}
      BY <1>1, HostFields DEF Timings
    <3>. QED
      BY <1>1, <3>1, <3>2, StartDoes
  <2>2. CASE op.step # "start"
    BY <1>1, <2>2, HostStays DEF MountInv
  <2>. QED
    BY <2>1, <2>2
<1>7. "failed" \notin Steps
  BY StepsAre DEF CommonSteps, SdOnly, MmcOnly
<1>8. mode = SD_UHS_SDR82 \/ (mode = SD_4BIT_HS25 /\ NeedsSlow)
  BY DEF MountInv
<1>9. op.ret = "loop"
  BY DEF MountInv
<1>. QED
  BY <1>1, <1>2, <1>3, <1>4, <1>5, <1>6, <1>7, <1>8, <1>9 DEF MountInv

\* So does sdmmc_init, which finds the slot dark.
LEMMA InitMounts ==
  ASSUME SessionInv, Healthy, MountInv, SdmmcInit
  PROVE  MountInv'
<1>. USE DEF SessionInv
<1>. DEFINE power == IF h.id = "sd" THEN "3.3" ELSE "1.8"
<1>1. /\ card.ins /\ h \in HostShape /\ card \in CardStates /\ op \in Places /\ h.id = cap.kind
      /\ op.step = "sdmmc_init" /\ mode' = mode /\ cap' = cap /\ card.st = "off"
      /\ cap.kind \in {"sd", "emmc"}
  BY CardsAssumption DEF Healthy, CardInv, ShapeInv, MountInv, SdmmcInit, env, CardShape, Ids, Steps
<1>2. /\ op' = [op EXCEPT !.step = "start"]
      /\ card' = [card EXCEPT !.st = "idle", !.sig = power]
      /\ h' = PowerOn(InitWait(h), b01, power, IF h.id = "sd" THEN "SD_ID" ELSE "MMC_ID")
      /\ ~store'.sdsc
  BY <1>1 DEF SdmmcInit
<1>3. h'.on /\ ~h'.rst
  BY <1>1, <1>2, InitWaitDoes, PowerOnRuns
<1>4. op'.step = "start" /\ op'.ret = op.ret /\ card'.st = "idle" /\ card'.sig = power
  BY <1>1, <1>2 DEF Places, CardStates
<1>5. SdReadyFor(op.step)' \/ cap.kind # "sd"
  BY ONLY <1>1, <1>2, <1>4 DEF SdReadyFor, Switching, Asking, Selected, SpeedSet
<1>6. MmcReadyFor(op.step)'
  BY ONLY <1>4 DEF MmcReadyFor
<1>7. NeedsSlow' = NeedsSlow
  BY <1>1 DEF NeedsSlow
<1>8. /\ mode = SD_UHS_SDR82 \/ (mode = SD_4BIT_HS25 /\ NeedsSlow)
      /\ op.ret = "loop"
  BY DEF MountInv
<1>. QED
  BY ONLY <1>1, <1>3, <1>4, <1>5, <1>6, <1>7, <1>8 DEF MountInv

\* Nothing fails that should not: the slot is dark after sdmmc_storage_end.
LEMMA EndsHealthy ==
  ASSUME SessionInv, Healthy, faults' = 0, h.en, cap.kind = "sd", StorageEnd
  PROVE  card'.st = "off" /\ card'.sig = "3.3"
<1>. USE DEF SessionInv
<1>1. /\ h \in HostShape /\ h.id = "sd" /\ ~h.stopped /\ faults = 0 /\ card \in CardStates
  BY DEF ShapeInv, PowerInv, Healthy
<1>2. h' = SdmmcEnd(h) /\ card' = IF h'.vdd THEN (IF Talks THEN Idled ELSE card) ELSE Unpowered
  BY <1>1 DEF StorageEnd, Spend
<1>3. ~h'.vdd
  BY <1>1, <1>2, EndDoes
<1>. QED
  BY <1>1, <1>2, <1>3 DEF Unpowered, CardStates

\* The steps around the initialisations: a card that is slow is found one level down.
LEMMA OthersHealthy ==
  ASSUME SessionInv, HealthyInv, Healthy, faults' = 0, Others
  PROVE  HealthyInv'
<1>. USE DEF SessionInv
<1>1. /\ cap' = cap /\ op \in Places /\ cap.kind \in {"sd", "emmc"} /\ card.ins /\ h \in HostShape
      /\ mode \in 0 .. 3 /\ calls \in Nat
  BY OtherChanges, CardsAssumption
     DEF ShapeInv, CardShape, Ids, Healthy, CardInv, SD_INIT_FAIL, SD_UHS_SDR82
<1>2. NeedsSlow' = NeedsSlow /\ (cap.kind = "emmc" => ~cap.uhs) /\ (NeedsSlow => cap.uhs)
  BY <1>1 DEF NeedsSlow, Healthy, Consistent
<1>3. /\ op.call = "mount" => MountInv
      /\ op.call = "rw" => mounted /\ calls > 0
      /\ op.call = "idle" => mounted \/ result = "gone"
      /\ op.call = "idle" /\ mounted /\ calls = 0 =>
            mode = IF NeedsSlow THEN SD_4BIT_HS25 ELSE SD_UHS_SDR82
      /\ op.call = "off" => /\ mode = SD_UHS_SDR82 /\ card.st = "off"
                            /\ card.sig = IF cap.kind = "sd" THEN "3.3" ELSE "1.8"
  BY DEF HealthyInv
<1>4. /\ op.step \in Steps \cup {"failed", "f_mount", "try", "reinit"} => op.call \in {"mount", "rw"}
      /\ op.step = "f_mount" => op.call = "mount"
      /\ op.step \in {"try", "reinit"} => op.call = "rw"
  BY StepsAre DEF PlaceInv, ShapeInv, Places, CallNames, CommonSteps, SdOnly, MmcOnly
<1>5. \A s \in {"failed", "f_mount", "try", "reinit", "idle"} : s \notin Steps
  BY StepsAre DEF CommonSteps, SdOnly, MmcOnly
<1>m. op'.call = "mount" /\ MountInv' => HealthyInv'
  BY DEF HealthyInv
<1>t. op'.call = "rw" /\ mounted' /\ calls' > 0 => HealthyInv'
  BY DEF HealthyInv
<1>i. op'.call = "idle" /\ mounted' /\ calls' > 0 /\ calls' \in Nat => HealthyInv'
  BY DEF HealthyInv
<1>6. CASE Mount
  <2>1. op.call = "off" /\ mode = 3 /\ mode' = mode /\ card' = card
    BY <1>3, <1>6 DEF Mount, SD_UHS_SDR82
  <2>2. op' = [op EXCEPT !.call = "mount", !.ret = "loop", !.step = "sdmmc_init"]
    BY <1>6, <2>1 DEF Mount, SD_INIT_FAIL
  <2>3. op'.call = "mount" /\ op'.ret = "loop" /\ op'.step = "sdmmc_init"
    BY ONLY <2>2, <1>1 DEF Places
  <2>4. SdReadyFor(op.step)' /\ MmcReadyFor(op.step)'
    BY ONLY <2>3 DEF SdReadyFor, MmcReadyFor, Switching, Asking, Selected, SpeedSet
  <2>5. MountInv'
    BY <1>1, <1>3, <2>1, <2>3, <2>4 DEF MountInv, SD_UHS_SDR82
  <2>. QED
    BY <1>m, <2>3, <2>5
<1>7. CASE Ready
  <2>1. /\ op.step = "ready" /\ h' = CardClockPowersave(h, TRUE) /\ UNCHANGED <<card, env, mode, mounted>>
        /\ IF op.call = "mount" THEN op' = [op EXCEPT !.step = "f_mount"]
           ELSE op' = [op EXCEPT !.step = "try", !.tries = 3, !.first = FALSE, !.left = Sectors]
    BY <1>7 DEF Ready, Goto
  <2>2. op.call \in {"mount", "rw"}
    BY <1>4, <2>1, StepsAre DEF CommonSteps
  <2>3. CASE op.call = "rw"
    <3>1. op'.call = "rw"
      BY ONLY <2>1, <2>3, <1>1 DEF Places
    <3>. QED
      BY <1>3, <1>t, <2>1, <2>3, <3>1 DEF env
  <2>4. CASE op.call = "mount"
    <3>1. op'.call = "mount" /\ op'.step = "f_mount" /\ op'.ret = op.ret
      BY <2>1, <2>4, <1>1 DEF Places
    <3>2. MountInv /\ op.step \in Steps
      BY <1>3, <2>1, <2>4, StepsAre DEF CommonSteps
    <3>3. Fast => ~NeedsSlow
      BY <1>1, <1>2, <2>1, <3>2 DEF MountInv, SdReadyFor, SpeedSet, Fast
    <3>4. Agreed
      BY <2>1 DEF Healthy, ToldInv, SdToldAt, MmcToldAt
    <3>5. Agreed'
      BY <1>1, <2>1, <3>4, AgreedStays
    <3>6. h'.on = h.on /\ h'.rst = h.rst /\ h'.en = h.en
      BY ONLY <2>1, <1>1 DEF CardClockPowersave, HostShape
    <3>7. h.on /\ ~h.rst /\ h.en
      BY <2>1, <3>2 DEF MountInv
    <3>8. (Fast => ~NeedsSlow)'
      BY <1>1, <1>2, <2>1, <3>3 DEF Fast
    <3>9. MountInv'
      BY <1>1, <1>2, <1>5, <2>1, <3>1, <3>2, <3>5, <3>6, <3>7, <3>8 DEF MountInv
    <3>. QED
      BY <1>m, <3>1, <3>9
  <2>. QED
    BY <2>2, <2>3, <2>4
<1>8. CASE InitLoop
  <2>1. /\ op.step = "failed" /\ cap.kind = "sd" /\ StorageEnd /\ mode' = mode - 1
        /\ op' = [op EXCEPT !.step = IF mode' = SD_INIT_FAIL THEN "failed" ELSE "sdmmc_init"]
        /\ mounted' = mounted /\ calls' = calls
    BY <1>8 DEF InitLoop, PowerCycle, Goto, env
  <2>2. op'.call = op.call /\ op'.ret = op.ret
    BY <2>1, <1>1 DEF Places
  <2>3. CASE op.call = "rw"
    BY <1>3, <1>t, <2>1, <2>2, <2>3
  <2>4. CASE op.call = "mount"
    <3>1. mode = 3 /\ NeedsSlow /\ h.en /\ op.ret = "loop"
      BY <1>3, <2>1, <2>4 DEF MountInv, SD_UHS_SDR82
    <3>2. mode' = 2 /\ op'.step = "sdmmc_init"
      BY <1>1, <2>1, <3>1 DEF SD_INIT_FAIL, Places
    <3>3. card'.st = "off" /\ card'.sig = "3.3"
      BY <2>1, <3>1, EndsHealthy
    <3>4. SdReadyFor(op.step)'
      BY ONLY <3>2 DEF SdReadyFor, Switching, Asking, Selected, SpeedSet
    <3>5. MountInv'
      BY <1>1, <1>2, <2>1, <2>2, <3>1, <3>2, <3>3, <3>4 DEF MountInv, SD_4BIT_HS25
    <3>. QED
      BY <1>m, <2>2, <2>4, <3>5
  <2>. QED
    BY <1>4, <2>1, <2>3, <2>4
<1>9. CASE InitGivesUp \/ InitOnceFails
  <2>1. /\ op.step = "failed" /\ mounted' = mounted /\ calls' = calls
        /\ op' = [op EXCEPT !.call = "idle", !.step = "idle"]
        /\ \/ op.ret = "loop" /\ mode = SD_INIT_FAIL
           \/ op.ret = "once" \/ cap.kind = "emmc"
    BY <1>1, <1>9 DEF InitGivesUp, InitOnceFails, Return, env
  <2>2. op'.call = "idle"
    BY ONLY <2>1, <1>1 DEF Places
  <2>3. op.call # "mount"
    BY <1>2, <1>3, <2>1 DEF MountInv, SD_UHS_SDR82, SD_INIT_FAIL
  <2>. QED
    BY <1>1, <1>3, <1>4, <1>i, <2>1, <2>2, <2>3
<1>10. CASE FatMount
  <2>1. /\ op.step = "f_mount" /\ MountInv /\ mode' = mode /\ faults = 0
    BY <1>3, <1>4, <1>10 DEF FatMount, Healthy
  <2>2. Agreed /\ (Fast => ~NeedsSlow) /\ h.on /\ ~h.rst /\ h.en
    BY <2>1 DEF MountInv
  <2>3. Talks
    BY <1>1, <2>2 DEF Talks, Agreed
  <2>4. mounted' = TRUE /\ op' = [op EXCEPT !.call = "idle", !.step = "idle"] /\ result' = "ok"
    BY <1>10, <2>1, <2>3 DEF FatMount, Return, Spend
  <2>5. op'.call = "idle"
    BY <1>1, <2>4 DEF Places
  <2>6. mode = IF NeedsSlow THEN SD_4BIT_HS25 ELSE SD_UHS_SDR82
    BY <1>2, <2>1, <2>2 DEF MountInv, Fast
  <2>. QED
    BY <1>2, <2>1, <2>4, <2>5, <2>6 DEF HealthyInv
<1>11. CASE Transfer
  <2>1. mounted' /\ calls' = calls + 1 /\ op'.call = "rw"
    <3>1. mounted /\ mounted' = mounted /\ calls' = calls + 1
          /\ op' = [op EXCEPT !.call = "rw", !.step = "try", !.first = TRUE, !.tries = 5, !.left = Sectors]
      BY <1>11 DEF Transfer
    <3>2. op'.call = "rw"
      BY ONLY <3>1, <1>1 DEF Places
    <3>. QED
      BY <3>1, <3>2
  <2>. QED
    BY <1>1, <1>t, <2>1
<1>12. CASE TransferRequest \/ RequestFails
  <2>1. op.step = "try" /\ mounted' = mounted /\ calls' = calls
    BY <1>12 DEF TransferRequest, RequestFails, env
  <2>2. op'.call \in {"rw", "idle"}
    <3>1. CASE TransferRequest
      <4>1. \/ op' = [op EXCEPT !.call = "idle", !.step = "idle"]
            \/ op' = [op EXCEPT !.left = op.left - 1, !.tries = 5]
        BY <3>1 DEF TransferRequest, Return
      <4>. QED
        BY ONLY <4>1, <1>1, <1>4, <2>1 DEF Places
    <3>2. CASE RequestFails
      <4>1. \/ op' = [op EXCEPT !.tries = op.tries - 1]
            \/ op' = [op EXCEPT !.step = "reinit"]
            \/ op' = [op EXCEPT !.call = "idle", !.step = "idle"]
        BY <3>2 DEF RequestFails, Goto, Return
      <4>. QED
        BY ONLY <4>1, <1>1, <1>4, <2>1 DEF Places
    <3>. QED
      BY <1>12, <3>1, <3>2
  <2>. QED
    BY <1>1, <1>3, <1>4, <1>t, <1>i, <2>1, <2>2
<1>13. CASE ReinitFirst \/ ReinitAgain
  <2>1. /\ op.step = "reinit" /\ mounted' = mounted /\ calls' = calls
        /\ \E r, s : op' = [op EXCEPT !.ret = r, !.step = s]
    BY <1>13 DEF ReinitFirst, ReinitAgain, env
  <2>2. op'.call = op.call
    BY ONLY <2>1, <1>1 DEF Places
  <2>. QED
    BY <1>3, <1>4, <1>t, <2>1, <2>2
<1>14. CASE Deinit
  <2>1. op' = op /\ op.call = "idle" /\ mounted' = FALSE /\ result' = "gone"
    BY <1>14 DEF Deinit
  <2>. QED
    BY <2>1 DEF HealthyInv
<1>. QED
  BY <1>6, <1>7, <1>8, <1>9, <1>10, <1>11, <1>12, <1>13, <1>14 DEF Others, PowerCycles, QuietOnes, Requests

\* A card that is left in only wears out, which a mount does not notice.
LEMMA WearHealthy ==
  ASSUME SessionInv, HealthyInv, Healthy, swaps' = 0, Remove \/ Insert \/ Weaken \/ UNCHANGED vars
  PROVE  HealthyInv'
<1>. USE DEF SessionInv
<1>1. card.ins /\ card \in CardStates /\ swaps = 0
  BY DEF Healthy, CardInv, ShapeInv
<1>2. Weaken \/ UNCHANGED vars
  BY <1>1 DEF Remove, Insert
<1>3. /\ UNCHANGED <<h, cap, calls, store, mode, mounted, op, result>>
      /\ card'.st = card.st /\ card'.sig = card.sig /\ card'.width = card.width /\ card'.mode = card.mode
  BY <1>1, <1>2 DEF Weaken, env, vars, CardStates
<1>4. Agreed => Agreed'
  BY <1>3 DEF Agreed, DataAgrees, TimingAgrees, TapAgrees
<1>5. SdReadyFor(op.step)' <=> SdReadyFor(op.step)
  BY <1>3 DEF SdReadyFor, Fast, NeedsSlow
<1>6. MmcReadyFor(op.step)' <=> MmcReadyFor(op.step)
  BY <1>3 DEF MmcReadyFor, TimedFor
<1>7. Fast' = Fast /\ NeedsSlow' = NeedsSlow
  BY <1>3 DEF Fast, NeedsSlow
<1>8. MountInv => MountInv'
  BY <1>3, <1>4, <1>5, <1>6, <1>7 DEF MountInv
<1>. QED
  BY <1>3, <1>7, <1>8 DEF HealthyInv

\* Every step keeps HealthyInv.
LEMMA HealthyKeeps ==
  ASSUME SessionInv, HealthyInv, [Next]_vars
  PROVE  HealthyInv'
<1>. SUFFICES ASSUME Healthy' PROVE HealthyInv'
  BY DEF HealthyInv
<1>1. Healthy /\ faults' = 0 /\ swaps' = 0
  BY FaultsCounted DEF SessionInv, Healthy, Consistent
<1>2. CASE Walk \/ SdmmcInit
  <2>1. /\ op'.call = op.call /\ calls' = calls /\ mounted' = mounted /\ mode' = mode /\ cap' = cap
        /\ result' = result /\ op.step \in Steps
    BY <1>2, Walks, StepsAre DEF SessionInv, ShapeInv, Places, SdmmcInit, env, CommonSteps
  <2>2. op.call \in {"mount", "rw"}
    BY <2>1, StepsAre DEF SessionInv, PlaceInv, ShapeInv, Places, CallNames, CommonSteps, SdOnly, MmcOnly
  <2>3. op.call = "mount" => MountInv'
    BY <1>1, <1>2, WalkMounts, InitMounts DEF HealthyInv
  <2>. QED
    BY <1>1, <2>1, <2>2, <2>3 DEF HealthyInv
<1>3. CASE Others
  BY <1>1, <1>3, OthersHealthy
<1>4. CASE Remove \/ Insert \/ Weaken \/ UNCHANGED vars
  BY <1>1, <1>4, WearHealthy
<1>. QED
  BY <1>2, <1>3, <1>4, ProgramSteps DEF Next

\* A card that is left in and answers is mounted, at the level it can do: no command
\* between the controller's and the card's idea of voltage, width and speed is lost on
\* the way, and one level down is found when the fastest fails (nx_sd.c:71-125).
THEOREM HealthyCardIsMounted == Spec => []HealthyCardMounts
<1>1. Init => HealthyInv
  <2>. SUFFICES ASSUME Init PROVE HealthyInv
    OBVIOUS
  <2>1. /\ op = [call |-> "off", step |-> "idle", ret |-> "loop", first |-> TRUE, tries |-> 0, left |-> 0]
        /\ card = [Out EXCEPT !.ins = TRUE, !.sig = IF cap.kind = "emmc" THEN "1.8" ELSE "3.3"]
        /\ mode = SD_UHS_SDR82 /\ result = "none" /\ cap \in CardShape
    BY CardsAssumption DEF Init
  <2>2. op.call = "off" /\ card.st = "off" /\ card.sig = IF cap.kind = "sd" THEN "3.3" ELSE "1.8"
    BY <2>1 DEF Out, CardShape, Ids
  <2>. QED
    BY <2>1, <2>2 DEF HealthyInv
<1>2. HealthyInv => HealthyCardMounts
  BY DEF HealthyInv, Healthy, HealthyCardMounts
<1>. QED
  BY SessionInvariantHolds, <1>1, <1>2, HealthyKeeps, PTL DEF Spec
==============================================================================
