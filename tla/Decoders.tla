------------------------------ MODULE Decoders ------------------------------
(***************************************************************************)
(* The calculations that turn registers, fuses and counters into values:   *)
(* dates (max77620-rtc.c), the registers of SD and MMC cards (sdmmc.c),    *)
(* the code that corrects fuses (fuse.c), the charger (bq24193.c), the     *)
(* fuel gauge (max17050.c), the light sensor (als.c), the touch panel and  *)
(* the place of the payload that is started (main.c).  A register is the   *)
(* set of its bits that are one.                                           *)
(***************************************************************************)
EXTENDS Integers, Sequences, FiniteSets

VARIABLE calc    \* [what: the calculation, in: what it is given, out: its result]

Bits(n) == {i \in 0..15 : (n \div 2^i) % 2 = 1}
RECURSIVE Value(_)
Value(bits) == IF bits = {} THEN 0 ELSE LET b == CHOOSE b \in bits : TRUE IN 2^b + Value(bits \ {b})
Field(word, first, last) == Value({b - first : b \in word \cap (first..last)})
Odd(s) == Cardinality(s) % 2 = 1
Flip(s, t) == (s \ t) \cup (t \ s)    \* exclusive or
-----------------------------------------------------------------------------
\* Days since 1970: the seconds of the day are split off by division.
max77620_rtc_epoch_to_date_julian(days) ==    \* mutant: every hundredth year is a leap year
    LET tmp == days + 2442125
        year == (20 * tmp - 2442) \div 7305
        edays == tmp - 365 * year - year \div 4
        month == (edays * 1000) \div 30601
        day == edays - month * 30 - (month * 601) \div 1000
    IN IF month < 14 THEN [year |-> year - 4716, month |-> month - 1, day |-> day]
       ELSE [year |-> year - 4715, month |-> month - 13, day |-> day]
max77620_rtc_epoch_to_date(days) ==
    LET centuries == (4 * days + 102032) \div 146097 + 15
        tmp == days + 2442113 + centuries - centuries \div 4
        year == (20 * tmp - 2442) \div 7305
        edays == tmp - 365 * year - year \div 4
        month == (edays * 1000) \div 30601
        day == edays - month * 30 - (month * 601) \div 1000
    IN IF month < 14 THEN [year |-> year - 4716, month |-> month - 1, day |-> day]
       ELSE [year |-> year - 4715, month |-> month - 13, day |-> day]
max77620_rtc_date_to_epoch(d) ==
    LET month == IF d.month < 3 THEN d.month + 12 ELSE d.month
        year == IF d.month < 3 THEN d.year - 1 ELSE d.year
    IN 365 * year + year \div 4 - year \div 100 + year \div 400
           + 30 * month + (3 * (month + 1)) \div 5 + d.day - 719561
\* The hour register and the mode; the first set bit of the weekday register counts.
max77620_rtc_get_time(reg, full_day, weekday) ==
    [hour |-> IF ~full_day /\ 6 \in reg THEN Field(reg, 0, 3) + 12 ELSE Field(reg, 0, 4),
     weekday |-> IF weekday \cap (0..7) = {} THEN 8
                 ELSE 1 + CHOOSE b \in weekday \cap (0..7) : \A c \in weekday \cap (0..7) : b <= c]

IsLeap(y) == y % 4 = 0 /\ (y % 100 # 0 \/ y % 400 = 0)
DaysIn(y, m) ==
    CASE m \in {4, 6, 9, 11} -> 30 [] m = 2 -> IF IsLeap(y) THEN 29 ELSE 28 [] OTHER -> 31
NextDay(d) ==
    IF d.day < DaysIn(d.year, d.month) THEN [d EXCEPT !.day = @ + 1]
    ELSE IF d.month < 12 THEN [d EXCEPT !.day = 1, !.month = @ + 1]
    ELSE [year |-> d.year + 1, month |-> 1, day |-> 1]
-----------------------------------------------------------------------------
\* A 128 bit register as the card sends it: word 3 holds bits 0 to 31.
WordOf(reg, off) == {b - 32 * (3 - off) : b \in reg \cap (32 * (3 - off)..32 * (3 - off) + 31)}
unstuff_bits_one_word(reg, start, size) ==    \* mutant: a field ends with its word
    {b - (start % 32) : b \in {c \in WordOf(reg, 3 - start \div 32) : c >= start % 32}} \cap (0..size - 1)
unstuff_bits(reg, start, size) ==
    LET off == 3 - start \div 32
        shft == start % 32
        low == {b - shft : b \in {c \in WordOf(reg, off) : c >= shft}}
        high == IF size + shft > 32 THEN {b + ((32 - shft) % 32) : b \in WordOf(reg, off - 1)} ELSE {}
    IN (low \cup high) \cap (0..(IF size < 32 THEN size ELSE 32) - 1)

\* The fields the parsers read: <<first bit, number of bits>>.
_sd_storage_parse_cid ==
    {<<120, 8>>, <<104, 16>>, <<96, 8>>, <<88, 8>>, <<80, 8>>, <<72, 8>>, <<64, 8>>, <<60, 4>>,
     <<56, 4>>, <<24, 32>>, <<12, 8>>, <<8, 4>>}
_mmc_storage_parse_cid(vsn) ==
    {<<96, 8>>, <<88, 8>>, <<80, 8>>, <<72, 8>>, <<64, 8>>, <<56, 8>>, <<12, 4>>, <<8, 4>>}
        \cup (CASE vsn \in 0..1 -> {<<48, 8>>, <<104, 24>>, <<44, 4>>, <<40, 4>>, <<16, 24>>}
                [] vsn \in 2..4 -> {<<120, 8>>, <<104, 8>>, <<48, 8>>, <<16, 32>>}
                [] OTHER -> {})
_mmc_storage_parse_csd == {<<122, 4>>, <<126, 2>>, <<84, 12>>, <<80, 4>>, <<62, 12>>, <<47, 3>>}
_sd_storage_parse_csd(structure) ==
    {<<126, 2>>, <<84, 12>>, <<80, 4>>, <<12, 2>>}
        \cup (IF structure = 0 THEN {<<62, 12>>, <<47, 3>>} ELSE {<<48, 22>>})
_sd_storage_parse_scr == {<<56, 4>>, <<48, 4>>, <<47, 1>>, <<32, 2>>}
_sd_storage_parse_ssr == {<<126, 2>>, <<64, 32>>, <<56, 8>>, <<12, 4>>, <<0, 8>>, <<44, 4>>, <<8, 4>>}
Registers ==
    {_sd_storage_parse_cid, _mmc_storage_parse_csd, _sd_storage_parse_scr, _sd_storage_parse_ssr}
        \cup {_mmc_storage_parse_cid(vsn) : vsn \in {0, 4, 5}} \cup {_sd_storage_parse_csd(s) : s \in {0, 1}}

sd_storage_get_ssr_au(uhs_au_size, size) ==    \* in KiB
    LET au == IF uhs_au_size = 0 THEN size ELSE uhs_au_size
    IN CASE au = 0 -> 0
         [] au \in 1..10 -> 8 * 2^au
         [] au = 11 -> 12288 [] au = 12 -> 16384 [] au = 13 -> 24576
         [] au = 14 -> 32768 [] au = 15 -> 65536
-----------------------------------------------------------------------------
\* Bits 20 to 31 of a fuse word, here 0 to 11: seven bits of data, four of hash, one of parity.
hash_vals == <<1, 2, 4, 8, 0, 3, 5, 6, 7, 9, 10, 11>>
Hash(w) == {j \in 0..3 : Odd({i \in w : j \in Bits(hash_vals[i + 1])})}
_patch_hash_one_no_parity(w) ==    \* mutant: two wrong bits are taken for one
    LET hash == Hash(w)
        hits == {i \in 0..11 : Bits(hash_vals[i + 1]) = hash}
    IN CASE hash = {} -> [ret |-> 0, word |-> w]
         [] hash # {} /\ hits # {} -> [ret |-> 1, word |-> Flip(w, hits)]
         [] OTHER -> [ret |-> 2, word |-> w]
_patch_hash_one(w) ==
    LET hash == Hash(w)
        parity == Odd(w)
        hits == {i \in 0..11 : Bits(hash_vals[i + 1]) = hash}
    IN CASE hash = {} /\ ~parity -> [ret |-> 0, word |-> w]
         [] hash = {} /\ parity -> [ret |-> 1, word |-> Flip(w, {4})]
         [] hash # {} /\ ~parity -> [ret |-> 3, word |-> w]
         [] hash # {} /\ parity /\ hits # {} -> [ret |-> 1, word |-> Flip(w, hits)]
         [] OTHER -> [ret |-> 2, word |-> w]

\* A record of Count fuse words; bit b of word i is 32 i + b.  Bits 0 to 14 are the hash
\* of bits 16 to 19 and of the words after the first, bit 15 is the parity of them all.
Count == 2
Hashed(w) == {b \in w : b \in 16..19 \/ b >= 32}
_parity32_even(w) == Odd(w)
HashOf(w) == {j \in 0..14 : Odd({b \in w : j \in Bits(16384 + b)})}
_patch_hash_multi(w) ==
    LET hash == Flip(HashOf(Hashed(w)), w \cap (0..14))
        kept == Hashed(w) \cup (w \cap (0..15))    \* bits 20 to 31 of the first word are cleared
        parity == _parity32_even(w)
        at == Value(hash) - 16384
    IN CASE hash = {} /\ ~parity -> [ret |-> 0, word |-> kept]
         [] hash = {} /\ parity -> [ret |-> 1, word |-> Flip(kept, {15})]
         [] hash # {} /\ ~parity -> [ret |-> 3, word |-> kept]
         [] hash # {} /\ parity /\ at \in 16..32 * Count - 1 -> [ret |-> 1, word |-> Flip(kept, {at})]
         [] OTHER -> IF Cardinality(hash) = 1 THEN [ret |-> 1, word |-> Flip(kept, hash)]
                     ELSE [ret |-> 2, word |-> kept]
\* Words as they were burned: with their hash and parity.
Burned(data) ==
    LET hashed == data \cup HashOf(Hashed(data)) IN IF Odd(hashed) THEN hashed \cup {15} ELSE hashed
BurnedOne(data) ==
    LET hashed == data \cup Hash(data) IN IF Odd(hashed) THEN hashed \cup {4} ELSE hashed

fuse_read_hw_state(odm4) == IF {0, 1} \subseteq odm4 THEN "dev" ELSE "prod"
fuse_read_hw_type(chip, odm4) ==
    CASE chip = "t210" -> "icosa"
      [] chip = "t210b01" /\ Field(odm4, 16, 19) = 2 -> "hoag"
      [] chip = "t210b01" /\ Field(odm4, 16, 19) = 4 -> "aula"
      [] OTHER -> "iowa"
-----------------------------------------------------------------------------
\* The bits of its register that a property of the charger is about (bq24193.h).
OwnBits(prop) ==
    CASE prop = "InputVoltageLimit" -> 3..6       [] prop = "InputCurrentLimit" -> 0..2
      [] prop = "SystemMinimumVoltage" -> 1..3    [] prop = "FastChargeCurrentLimit" -> {0} \cup 2..7
      [] prop = "ChargeVoltageLimit" -> 2..7      [] prop = "ThermalRegulation" -> 0..1
      [] prop = "RechargeThreshold" -> 0..0       [] prop = "ChargeStatus" -> 4..5
      [] prop = "TempStatus" -> 0..2              [] prop = "ProductNumber" -> 3..5
      [] prop = "DevID" -> 0..1
bq24193_get_property(prop, reg) ==
    CASE prop = "InputVoltageLimit" -> 3880 + 80 * Field(reg, 3, 6)
      [] prop = "InputCurrentLimit" -> <<100, 150, 500, 900, 1200, 1500, 2000, 3000>>[Field(reg, 0, 2) + 1]
      [] prop = "SystemMinimumVoltage" -> 3000 + 100 * Field(reg, 1, 3)
      [] prop = "FastChargeCurrentLimit" ->
           ((512 + 64 * Field(reg, 2, 7)) * (IF 0 \in reg THEN 20 ELSE 100)) \div 100
      [] prop = "ChargeVoltageLimit" -> 3504 + 16 * Field(reg, 2, 7)
      [] prop = "RechargeThreshold" -> IF reg \cap {0, 1} # {} THEN 300 ELSE 100
      [] prop = "ThermalRegulation" -> 60 + 20 * Field(reg, 0, 1)
      [] prop = "ChargeStatus" -> Field(reg, 4, 5)
      [] prop = "TempStatus" -> Field(reg, 0, 2)
      [] prop = "ProductNumber" -> Field(reg, 3, 5)
      [] prop = "DevID" -> Field(reg, 0, 1)
ChargerProps ==
    {"InputVoltageLimit", "InputCurrentLimit", "SystemMinimumVoltage", "FastChargeCurrentLimit",
     "ChargeVoltageLimit", "ThermalRegulation", "RechargeThreshold", "ChargeStatus", "TempStatus",
     "ProductNumber", "DevID"}

\* C divides towards zero.
Quotient(a, b) == IF a < 0 THEN -((-a) \div b) ELSE a \div b
Signed16(data) == IF data >= 32768 THEN data - 65536 ELSE data
Voltages == {"VCELL", "AvgVCELL", "OCVInternal"}
Currents == {"Current", "AvgCurrent"}
Capacities == {"DesignCap", "FullCAP", "RepCap"}
max17050_get_property(prop, data) ==
    CASE prop \in Voltages -> ((data \div 8) * 625) \div 1000
      [] prop = "TEMP" -> Quotient(Signed16(data) * 10, 256)
      [] prop \in Currents -> Signed16(data) * 156
      [] prop = "MinVolt" -> (data % 256) * 20
      [] prop = "MaxVolt" -> (data \div 256) * 20
      [] prop \in Capacities -> data \div 2
      [] prop = "V_empty" -> (data \div 128) * 10
      [] prop = "Age" -> data \div 256
      [] OTHER -> data    \* Cycles, RepSOC
\* What the gauge's register stands for, in parts of the unit: <<numerator, denominator>>.
Exact(prop, data) ==
    CASE prop \in Voltages -> <<(data \div 8) * 5, 8>> [] prop = "TEMP" -> <<Signed16(data) * 5, 128>>
      [] prop \in Currents -> <<Signed16(data) * 625, 4>> [] prop = "MinVolt" -> <<(data % 256) * 20, 1>>
      [] prop = "MaxVolt" -> <<(data \div 256) * 20, 1>> [] prop \in Capacities -> <<data, 2>>
      [] prop = "V_empty" -> <<(data \div 128) * 10, 1>> [] prop = "Age" -> <<data, 256>>
      [] OTHER -> <<data, 1>>

\* The weighted light before it is scaled; negative values wrap around 64 bits.
opt_win_cal_default ==
    <<<<500, 5002, 7502>>, <<754, 2250, 2000>>, <<1029, 1999, 1667>>, <<1373, 884, 583>>, <<1879, 309, 165>>>>
Most == 2147483647
get_als_lux(visible, ir) ==
    LET fits == {i \in 1..5 : visible # 0 /\ (1000 * ir) \div visible < opt_win_cal_default[i][1]}
        c == opt_win_cal_default[CHOOSE i \in fits : \A j \in fits : i <= j]
        light == c[2] * visible - c[3] * ir
    IN IF fits = {} THEN 0 ELSE IF light < 0 THEN Most ELSE light

\* X_REAL_MAX 1264, Y_REAL_MAX 704, EDGE_OFFSET 15
Compensated(raw, real_max, size) ==
    LET high == IF raw < 15 THEN 15 ELSE raw
        in == (IF high > real_max THEN real_max ELSE high) - 15
    IN (in * ((size * 1000) \div (real_max - 15))) \div 1000
_touch_compensate_limits(x, y) == <<Compensated(x, 1264, 1280), Compensated(y, 704, 720)>>
PalmRest == 255
_touch_parse_event(last, type, z, motion) ==
    CASE type \in {"enter", "motion"} /\ z < PalmRest -> [touch |-> TRUE, type |-> type]
      [] type \in {"enter", "motion"} /\ z >= PalmRest -> [touch |-> FALSE, type |-> "leave"]
      [] type = "leave" -> [touch |-> FALSE, type |-> "leave"]
      [] type = "none" -> [touch |-> last, type |-> IF last THEN "motion" ELSE "none"]
      [] OTHER -> [touch |-> last, type |-> IF last /\ motion THEN "motion" ELSE "leave"]
-----------------------------------------------------------------------------
\* main.c, launch_payload: addresses are counted from the start of the DRAM.
RelocatorSize == 160          \* ALIGN(PATCHED_RELOC_SZ, 0x10)
EXT_PAYLOAD_ADDR == 1073741824
RCM_PAYLOAD_ADDR == EXT_PAYLOAD_ADDR + RelocatorSize
COREBOOT_END_ADDR == 1342177280
IplHeap == 67108864..(67108864 + 536870912 - 1)
Aligned(size) == ((size + 15) \div 16) * 16
\* The image that the relocator copies to its place: where its bytes come from.
reloc_patcher(size, coreboot_addr) ==
    [end |-> RCM_PAYLOAD_ADDR + size,
     from |-> IF size = 28672 THEN coreboot_addr ELSE RCM_PAYLOAD_ADDR, length |-> size]
launch_payload_unaligned(size) ==    \* mutant: the end of the payload is cut off
    IF size < 196608
    THEN [buf |-> RCM_PAYLOAD_ADDR, image |-> reloc_patcher((size \div 16) * 16, 0),
          magic |-> RCM_PAYLOAD_ADDR + size - 4]
    ELSE [buf |-> COREBOOT_END_ADDR - size, image |-> reloc_patcher(28672, COREBOOT_END_ADDR - size),
          magic |-> COREBOOT_END_ADDR - size]
launch_payload(size) ==
    IF size < 196608
    THEN [buf |-> RCM_PAYLOAD_ADDR, image |-> reloc_patcher(Aligned(size), 0),
          magic |-> RCM_PAYLOAD_ADDR + size - 4]
    ELSE [buf |-> COREBOOT_END_ADDR - size, image |-> reloc_patcher(28672, COREBOOT_END_ADDR - size),
          magic |-> COREBOOT_END_ADDR - size]
-----------------------------------------------------------------------------
\* Leap years, the ends of centuries and the end of a 32 bit epoch.
Days == 0..1500 \cup 10900..11200 \cup 24800..25000 \cup 47400..49709
FuseData == {{}, {17}, {32, 47, 63}, {16, 19, 40, 41}}
OneData == {{}, {5, 11}, {6, 7, 8}}
Upto2(s) == {{}} \cup {{a, b} : a \in s, b \in s}

PayloadSizes ==
    {4, 16, 17, 28656, 28657, 28672, 28673, 65536, 196592, 196607, 196608, 196609, 1048576, 268406624}

Given(what) ==
    CASE what = "date" -> Days
      [] what = "hour" -> {[reg |-> Bits(h) \cup p, full |-> f] : h \in 1..11, p \in {{}, {6}}, f \in {FALSE}}
                              \cup {[reg |-> Bits(h), full |-> TRUE] : h \in 0..23}
      [] what = "field" -> {<<b, f>> : b \in 0..127, f \in UNION Registers}
      [] what = "au" -> (0..15) \X (0..15)
      [] what = "fuse" -> FuseData \X Upto2(0..(32 * Count - 1))
      [] what = "count" -> OneData \X Upto2(0..11)
      [] what = "charger" -> ChargerProps \X SUBSET (0..7)
      [] what = "gauge" -> (Voltages \cup Currents \cup Capacities
                                \cup {"TEMP", "MinVolt", "MaxVolt", "V_empty", "Age", "Cycles", "RepSOC"})
                               \X {0, 1, 7, 8, 255, 256, 4095, 32767, 32768, 32769, 65280, 65535}
      [] what = "payload" -> PayloadSizes
      [] what = "light" -> {0, 1, 3, 50, 1000, 30000, 65535} \X {0, 1, 2, 5, 94, 754, 1029, 1500, 1872, 1880, 65535}
      [] what = "touch" -> {0, 14, 15, 16, 700, 1263, 1264, 1265, 4095} \X {0, 14, 15, 400, 703, 704, 705, 4095}
Calculations == {"payload", "date", "hour", "field", "au", "fuse", "count", "charger", "gauge", "light", "touch"}
Result(what, in) ==
    CASE what = "date" -> <<max77620_rtc_epoch_to_date(in), max77620_rtc_epoch_to_date(in + 1)>>
      [] what = "hour" -> max77620_rtc_get_time(in.reg, in.full, {})
      [] what = "field" -> unstuff_bits({in[1]}, in[2][1], in[2][2])
      [] what = "au" -> sd_storage_get_ssr_au(in[1], in[2])
      [] what = "fuse" -> _patch_hash_multi(Flip(Burned(in[1]), in[2]))
      [] what = "count" -> _patch_hash_one(Flip(BurnedOne(in[1]), in[2]))
      [] what = "charger" -> bq24193_get_property(in[1], in[2])
      [] what = "gauge" -> max17050_get_property(in[1], in[2])
      [] what = "payload" -> launch_payload(in)
      [] what = "light" -> get_als_lux(in[1], in[2])
      [] what = "touch" -> _touch_compensate_limits(in[1], in[2])

DecodeInit == calc \in {[what |-> w, in |-> <<>>, out |-> <<>>] : w \in Calculations}
Decode ==
    /\ calc.in = <<>>
    /\ \E in \in Given(calc.what) :
          calc' = [calc EXCEPT !.in = <<in>>, !.out = <<Result(calc.what, in)>>]
DecodeSpec == DecodeInit /\ [][Decode]_calc
-----------------------------------------------------------------------------
Done(what) == calc.what = what /\ calc.out # <<>>
In == calc.in[1]
Out == calc.out[1]

\* Dates follow each other in the calendar and lead back to their day, up to 2106; a
\* clock in 12-hour mode gives the hour of the day (12 apart, which comes out as 24).
DatesRight ==
    /\ Done("date") => /\ Out[2] = NextDay(Out[1])
                       /\ max77620_rtc_date_to_epoch(Out[1]) = In
                       /\ In = 0 => Out[1] = [year |-> 1970, month |-> 1, day |-> 1]
    /\ Done("hour") => Out.hour = Field(In.reg, 0, 4) + (IF 6 \in In.reg THEN 12 ELSE 0)
\* A bit of a register shows in exactly the fields that hold it, at its place there,
\* over the words of the register (sdmmc.c:33); fields of one register do not share
\* bits; larger numbers stand for larger allocation units.
FieldsRight ==
    /\ Done("field") =>
          LET start == In[2][1]
              held == In[1] \in start..(start + In[2][2] - 1)
          IN Out = IF held THEN {In[1] - start} ELSE {}
    /\ Done("field") => \A r \in Registers : Cardinality({f \in r : In[1] \in f[1]..(f[1] + f[2] - 1)}) <= 1
    /\ Done("au") => \A n \in 1..15 :
          n > (IF In[1] = 0 THEN In[2] ELSE In[1]) => sd_storage_get_ssr_au(n, 0) > Out
\* One wrong fuse is corrected, two are never taken for a correct record: what is used
\* is what was burned (fuse.c:206, :242).
FusesRight ==
    /\ Done("fuse") =>
          /\ Cardinality(In[2]) <= 1 => Out.ret < 2
          /\ Out.ret < 2 => Hashed(Out.word) = In[1]
    /\ Done("count") =>
          /\ Cardinality(In[2]) <= 1 => Out.ret < 2
          /\ Out.ret < 2 => Out.word \ 0..4 = In[1]
\* A setting of the charger depends on its own bits alone and grows with them (the
\* recharge threshold apart, bq24193.c:98, which takes the mask of another register);
\* the gauge's values are within one unit of what its registers stand for; infrared
\* only takes light away (from a ratio of 1.873 on it wraps, als.c:121).
SensorsRight ==
    /\ Done("charger") /\ In[1] # "RechargeThreshold" =>
          /\ Out = bq24193_get_property(In[1], In[2] \cap OwnBits(In[1]))
          /\ \A b \in OwnBits(In[1]) \ In[2] :
                (In[1] # "FastChargeCurrentLimit" \/ b # 0) => bq24193_get_property(In[1], In[2] \cup {b}) > Out
    /\ Done("gauge") =>
          LET e == Exact(In[1], In[2])
              off == Out * e[2] - e[1]
          IN IF In[1] \in Currents THEN Out >= 0 <=> e[1] >= 0 ELSE off < e[2] /\ -off < e[2]
    /\ Done("light") /\ 1000 * In[2] < 1872 * In[1] => Out <= get_als_lux(In[1], 0)
    /\ Done("touch") => Out[1] \in 0..1279 /\ Out[2] \in 0..719
\* What runs is what was read: the image starts at the buffer, a small payload is whole,
\* and the buffer lies apart from the relocator, the heap and the copy of its own
\* beginning.  Only sizes from 0x6FF1 to 0x7000, which round up to 0x7000, take the copy
\* that is meant for large payloads, from no buffer (main.c:125).  Sizes below 4 are left
\* out: their last word lies before the buffer (main.c:161).
PayloadRuns ==
    Done("payload") =>
        /\ Out.image.from = Out.buf <=> In \notin 28657..28672
        /\ In < 196608 => Out.image.length >= In
        /\ Out.buf >= RCM_PAYLOAD_ADDR /\ Out.magic >= Out.buf
        /\ Out.buf \notin IplHeap
        /\ Out.buf > RCM_PAYLOAD_ADDR => Out.image.end <= Out.buf
DecodersRight == PayloadRuns /\ DatesRight /\ FieldsRight /\ FusesRight /\ SensorsRight
=============================================================================
