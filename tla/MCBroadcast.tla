---------------------------- MODULE MCBroadcast ----------------------------
(***************************************************************************)
(* Broadcasts for TLC: for every family a few cycles with a change of      *)
(* upload, most of them across the change of the GPS week.                 *)
(***************************************************************************)
EXTENDS BroadcastFeed

Sunday == 2361 * WeekSeconds
Plain == [fam |-> "", src |-> "a", sv |-> "s", type |-> 0, t |-> None, up |-> 1,
          head |-> TRUE, pass |-> TRUE, sat |-> TRUE, own |-> TRUE, alert |-> FALSE,
          good |-> TRUE, healthy |-> TRUE, bad |-> FALSE, q |-> FALSE, l2 |-> FALSE,
          id |-> 0, iss |-> None, iode |-> None, sar |-> None, ids |-> <<>>, fit |-> FALSE,
          toe |-> None, toc |-> None, top |-> None, week |-> None, tow |-> None, ref |-> 0,
          sow |-> None, status |-> 1, size |-> 2, pid |-> 1, mid |-> 0, msg |-> None]

\* The frame that a family's satellite sends at time t.
SystemTime(fam, t) == IF fam \in {"BDS_D1", "BDS_D2", "BDS_BCNAV1", "BDS_BCNAV2", "BDS_BCNAV3"} THEN t - BdtOffset ELSE t
WeekOf(fam, t) ==
    LET w == Week(SystemTime(fam, t)) IN
      CASE fam \in {"GPS_LNAV", "QZS_LNAV"} -> w % 1024
        [] fam = "QZS_CNAV" -> w % 8192
        [] fam \in {"GAL_INAV", "GAL_FNAV", "GAL_CNAV"} -> (w - 1024) % 4096
        [] OTHER -> (w - 1356) % 8192
Frame(fam, type, t, more) ==
    more @@ [Plain EXCEPT !.fam = fam, !.type = type, !.t = t, !.week = WeekOf(fam, t),
                          !.tow = SystemTime(fam, t) % WeekSeconds, !.sow = SystemTime(fam, t) % WeekSeconds]

\* Frames of the types in turn, `step` seconds apart.
Cycle(fam, start, step, types, more) ==
    [i \in DOMAIN types |-> Frame(fam, types[i], start + (i - 1) * step, more)]

\* An upload: all that its messages say, with its reference time of the week.
Upload(n, toe) == [up |-> n, iss |-> 10 + n, iode |-> 10 + n, toe |-> toe, toc |-> toe, top |-> toe]

Broadcast(every, may, frames) == [interval |-> every, breaks |-> may, frames |-> frames]

----------------------------------------------------------------------------
Lnav ==
    LET cycle(start, u) == Cycle("GPS_LNAV", start, 6, <<1, 2, 3>>, u) IN
      Broadcast(30, {2, 7},
          Cycle("GPS_LNAV", Sunday - 66, 6, <<1, 2>>, Upload(1, 0))
          \o Cycle("GPS_LNAV", Sunday - 54, 6, <<3>>, Upload(2, 7200))
          \o cycle(Sunday - 36, Upload(2, 7200)) \o cycle(Sunday - 6, Upload(2, 7200))
          \o cycle(Sunday + 24, Upload(3, 7200)))

\* Across the change of the 10-bit week.
Rollover ==
    LET zero == 2048 * WeekSeconds IN
      Broadcast(30, {}, Cycle("GPS_LNAV", zero - 12, 6, <<1, 2, 3, 1, 2, 3>>, Upload(1, 0)))

Cnav ==
    LET cycle(start, u) == Cycle("QZS_CNAV", start, 12, <<10, 11, 30>>, u @@ [l2 |-> TRUE])
        start == Sunday + 3600
    IN  Broadcast(30, {4},
          Cycle("QZS_CNAV", start - 24, 12, <<10, 11>>, Upload(1, 3600) @@ [l2 |-> TRUE])
          \o cycle(start, Upload(2, 5400)) \o cycle(start + 36, Upload(2, 5400)))

\* Received from the second orbit message on, of an upload with the same
\* reference time as the next.
CnavLoose ==
    LET start == Sunday + 3600 IN
      Broadcast(30, {1}, Cycle("QZS_CNAV", start, 12, <<11>>, Upload(1, 5400) @@ [l2 |-> TRUE])
          \o Cycle("QZS_CNAV", start + 12, 12, <<10, 30, 10, 11, 30>>, [top |-> 5100] @@ Upload(2, 5400) @@ [l2 |-> TRUE]))

\* The same across the change of the week.
CnavSunday ==
    Broadcast(3600, {}, Cycle("QZS_CNAV", Sunday - 54, 12, <<10, 11, 30, 10, 11, 30>>, Upload(1, 3600) @@ [l2 |-> TRUE]))

\* The earth's orientation, dated by UTC messages that may disagree.
CnavDates ==
    LET at(t, type, more) == Frame("QZS_CNAV", type, Sunday + t, more @@ [top |-> 100, toc |-> 4200, ref |-> 4096]) IN
      Broadcast(10, {}, <<at(4090, 32, [up |-> 1]), at(4093, 33, [up |-> 1]), at(4101, 33, [up |-> 2, week |-> 2360]),
                          at(4105, 35, [up |-> 1, id |-> 2]), at(4108, 12, [up |-> 1, id |-> 3]),
                          at(4109, 60, [up |-> 1]), at(4112, 10, [up |-> 1, alert |-> TRUE, toe |-> 4096]),
                          at(4123, 33, [up |-> 3, alert |-> TRUE])>>)

\* The same, looked at once a day.
CnavDays ==
    LET at(t, type, more) == Frame("QZS_CNAV", type, Sunday + t, more @@ [top |-> 100, toc |-> 4200, ref |-> 4096]) IN
      Broadcast(86400, {}, <<at(86390, 32, [up |-> 1]), at(86393, 33, [up |-> 1]), at(86396, 35, [up |-> 1, id |-> 2]),
                             at(263400, 33, [up |-> 3, alert |-> TRUE]), at(266000, 33, [up |-> 3])>>)

\* Almanac pages of one toa, dated by page 51; a week later all is pruned.
LnavPages ==
    LET at(t, sf, id, more) == Frame("GPS_LNAV", sf, Sunday + t, more @@ [id |-> id, toe |-> 405504]) IN
      Broadcast(40000, {},
         <<at(10, 5, 3, [up |-> 1]), at(40, 5, 51, [up |-> 1, week |-> 2361 % 256]),
           at(70, 4, 56, [up |-> 1]), at(80, 4, 63, [up |-> 1]), at(90, 4, 55, [up |-> 1]), at(95, 4, 57, [up |-> 1]),
           at(40100, 5, 51, [up |-> 2, week |-> 2360 % 256]), at(80100, 5, 3, [up |-> 1]),
           at(620000, 5, 4, [up |-> 1])>>)

QzsLnav ==
    Broadcast(1800, {}, Cycle("QZS_LNAV", Sunday + 5340, 30, <<1, 2, 3>>, Upload(1, 7200) @@ [q |-> TRUE])
                        \o <<Frame("QZS_LNAV", 3, Sunday + 5402, Upload(1, 7200) @@ [q |-> TRUE, src |-> "b"])>>
                        \o <<Frame("QZS_LNAV", 5, Sunday + 5500, [q |-> TRUE, id |-> 2, toe |-> 8192]),
                             Frame("QZS_LNAV", 5, Sunday + 9300, [q |-> TRUE, id |-> 60])>>)

----------------------------------------------------------------------------
Fragment(n, start) == [sar |-> [start |-> start, long |-> FALSE, up |-> n]]
Inav ==
    LET word(t, type, u, sar) == Frame("GAL_INAV", type, Sunday + t, u @@ Fragment(sar, type = 2)) IN
      Broadcast(7, {3},
         <<word(-14, 2, Upload(1, 600), 1), word(-12, 4, Upload(1, 600), 1), word(-10, 1, Upload(2, 1200), 1),
           word(-8, 3, Upload(2, 1200), 1), word(-6, 5, Upload(2, 1200), 2),
           word(-4, 2, Upload(2, 1200), 2), word(-2, 4, Upload(2, 1200), 2), word(0, 1, Upload(2, 1200), 2),
           word(2, 3, Upload(2, 1200), 2), word(4, 5, Upload(2, 1200), 2)>>)

\* Received from the last word of an upload on; the next is sent three times.
InavLoose ==
    LET cycle(start) == Cycle("GAL_INAV", start, 2, <<2, 4, 1, 3, 5>>, Upload(2, 1200)) IN
      Broadcast(15, {1}, Cycle("GAL_INAV", Sunday + 1190, 2, <<5>>, Upload(1, 600))
                         \o cycle(Sunday + 1192) \o cycle(Sunday + 1202) \o cycle(Sunday + 1212))

Group(n, ids) == [up |-> n, iss |-> 3, ids |-> ids, ref |-> 1200, week |-> (2361 - 1024) % 4]
InavAlmanac ==
    LET word(t, type, g) ==
            Frame("GAL_INAV", type, Sunday + t, g)
        a == Group(1, <<1, 2, 3>>)  b == Group(2, <<4, 0, 37>>)
    IN  Broadcast(50, {}, <<word(0, 7, a), word(2, 8, a), word(30, 9, a), word(32, 10, a),
                            word(60, 7, b), word(62, 8, b), word(90, 9, b), word(92, 10, b)>>)

Fnav ==
    LET page(start, types, u) == Cycle("GAL_FNAV", start, 10, types, u) IN
      Broadcast(20, {6},
         page(Sunday - 60, <<1, 2>>, Upload(1, 600)) \o page(Sunday - 40, <<3, 4>>, Upload(2, 1200))
         \o <<Frame("GAL_FNAV", 5, Sunday - 20, Group(2, <<1, 2, 3>>))>>
         \o page(Sunday - 10, <<1, 2, 3, 4>>, Upload(2, 1200))
         \o <<Frame("GAL_FNAV", 6, Sunday + 30, Group(2, <<1, 2, 3>>))>>)

\* Two families of one satellite, of which one calls it unhealthy for a while.
TwoFamilies ==
    LET i(start, u) == Cycle("GAL_INAV", start, 2, <<2, 4, 1, 3, 5>>, u @@ [src |-> "a"])
        f(start, u) == Cycle("GAL_FNAV", start, 10, <<1, 2, 3, 4>>, u @@ [src |-> "b"])
        sick == [healthy |-> FALSE]
    IN  Broadcast(600, {}, i(Sunday + 600, Upload(1, 600)) \o f(Sunday + 620, sick @@ Upload(2, 600))
                           \o f(Sunday + 670, Upload(2, 600)) \o i(Sunday + 720, sick @@ Upload(3, 600)))

LnavHealth ==
    LET cycle(start, u) == Cycle("GPS_LNAV", start, 6, <<1, 2, 3>>, u) IN
      Broadcast(600, {}, cycle(Sunday + 600, Upload(1, 7200)) \o cycle(Sunday + 630, [healthy |-> FALSE] @@ Upload(1, 7200))
                         \o cycle(Sunday + 660, Upload(2, 7200)))

----------------------------------------------------------------------------
\* HAS messages in two pages.
Has(mask, more) ==
    more @@ [toh |-> 5, maskid |-> 1, iod |-> 1, mask |-> mask, orbit |-> None, until |-> 5, clock |-> None,
             subset |-> None, code |-> None, phase |-> None, bad |-> None]
HasPages(t, n, h) ==
    [i \in 1..2 |-> Frame("GAL_CNAV", 0, Sunday + t + i - 1, [up |-> n, mid |-> n % 32, pid |-> i, msg |-> h, q |-> TRUE])]
HasService ==
    Broadcast(30, {},
       HasPages(10, 1, Has(7, [orbit |-> 70]))
       \o HasPages(20, 2, Has(8, [orbit |-> 80, clock |-> 3, bad |-> "entries"]))
       \o HasPages(40, 3, Has(None, [clock |-> 5, phase |-> 15]))
       \o HasPages(50, 4, Has(8, [clock |-> 5, toh |-> 3590]))
       \o HasPages(60, 5, Has(None, [orbit |-> 90, subset |-> 6, code |-> 6]))
       \o <<Frame("GAL_CNAV", 0, Sunday + 95, [status |-> 3])>>
       \o HasPages(100, 6, Has(None, [clock |-> 5])))

\* A mask is forgotten after half an hour, before the orbits given under it;
\* a page may come twice or not fit.
HasLifetimes ==
    LET page(t, n, i, h) == Frame("GAL_CNAV", 0, Sunday + t, [up |-> n, mid |-> 1, pid |-> i, msg |-> h, q |-> TRUE]) IN
      Broadcast(900, {},
         <<page(0, 1, 1, Has(7, [orbit |-> 70])), page(1, 1, 1, Has(7, [orbit |-> 70])), page(2, 1, 33, Has(7, [orbit |-> 70])),
           page(900, 2, 1, Has(None, [clock |-> 8, toh |-> 895])), page(901, 2, 2, Has(None, [clock |-> 8, toh |-> 895])),
           page(1100, 3, 1, Has(None, [orbit |-> 71, toh |-> 1090])),
           page(1300, 4, 2, Has(None, [orbit |-> 72])), page(1301, 4, 1, Has(None, [orbit |-> 72])),
           page(1802, 5, 1, Has(None, [clock |-> 9])), page(1803, 5, 2, Has(None, [clock |-> 9]))>>
         \o HasPages(1805, 6, Has(8, [clock |-> 9])))

----------------------------------------------------------------------------
Bds(fam, start, step, types, u) == Cycle(fam, start, step, types, u)
BeidouD1 ==
    LET cycle(start, u) == Bds("BDS_D1", start, 6, <<1, 2, 3>>, u)
        s == Sunday + BdtOffset
    IN  Broadcast(30, {4}, cycle(s - 66, Upload(1, 3600)) \o Bds("BDS_D1", s - 36, 6, <<1, 2>>, Upload(1, 3600))
                           \o Bds("BDS_D1", s - 24, 6, <<3>>, Upload(2, 3000))
                           \o cycle(s - 6, Upload(2, 3000)) \o cycle(s + 12, Upload(2, 3000))
                           \o cycle(s + 30, Upload(2, 3000)) \o Bds("BDS_D1", s + 48, 6, <<1>>, Upload(2, 3000)))

BeidouD2 ==
    LET page(start, ids, u) == [i \in DOMAIN ids |-> Frame("BDS_D2", 1, start + 3 * (ids[i] - 1), u @@ [id |-> ids[i]])] IN
      Broadcast(30, {}, page(Sunday, <<9, 10>>, Upload(1, 3600)) \o page(Sunday + 30, <<1, 2, 3, 4, 5, 6, 7, 8, 9, 10>>, Upload(2, 3600))
                        \o page(Sunday + 60, <<1, 3, 4, 5, 6, 7, 8, 9, 10>>, Upload(2, 3600))
                        \o page(Sunday + 90, <<1>>, Upload(2, 3600)))

BeidouAlmanac ==
    LET page(t, sf, id, more) ==
            Frame("BDS_D1", sf, Sunday + t, more @@ [id |-> id, ref |-> 4096, iss |-> 3, week |-> (2361 - 1356) % 256]) IN
      Broadcast(1200, {}, <<page(14, 5, 11, [up |-> 1]), page(20, 4, 5, [up |-> 1]), page(50, 5, 8, [up |-> 1]), page(80, 4, 5, [up |-> 1]),
                            page(110, 5, 11, [up |-> 2, iss |-> 1]), page(2310, 4, 6, [up |-> 3]), page(2340, 5, 12, [up |-> 4, iss |-> 3]),
                            page(2370, 5, 10, [up |-> 1])>>)

Bcnav2 ==
    LET cycle(start, u) == Bds("BDS_BCNAV2", start, 3, <<10, 11, 30>>, u) IN
      Broadcast(12, {4}, Bds("BDS_BCNAV2", Sunday - 6, 3, <<10, 11>>, Upload(1, 3600))
                        \o cycle(Sunday + 9, Upload(2, 7200)) \o cycle(Sunday + 18, Upload(2, 7200))
                        \o Bds("BDS_BCNAV2", Sunday + 27, 3, <<33, 40>>, Upload(2, 7200) @@ [id |-> 5, ref |-> 4096]))

Bcnav3 ==
    LET cycle(start, u) == Bds("BDS_BCNAV3", start, 2, <<10, 30>>, u) IN
      Broadcast(6, {2}, cycle(Sunday - 4, Upload(1, 3600)) \o <<Frame("BDS_BCNAV3", 10, Sunday + 12, Upload(1, 3600))>>
                        \o <<Frame("BDS_BCNAV3", 30, Sunday + 15, Upload(2, 7200))>> \o cycle(Sunday + 17, Upload(2, 7200))
                        \o cycle(Sunday + 21, Upload(2, 7200)))

\* Two uploads with one reference time.
Bcnav3Loose ==
    LET cycle(start, u) == Bds("BDS_BCNAV3", start, 2, <<10, 30>>, u) IN
      Broadcast(6, {1}, cycle(Sunday + 3600, Upload(1, 7200)) \o cycle(Sunday + 3604, Upload(2, 7200))
                        \o cycle(Sunday + 3608, Upload(2, 7200)))

Bcnav1 ==
    LET at(t, type, more) == Frame("BDS_BCNAV1", type, Sunday + t, more @@ [ref |-> 4096, week |-> 2361 - 1356]) IN
      Broadcast(1800, {}, <<at(3594, 1, [top |-> 3600] @@ Upload(1, 3600)), at(3612, 2, [top |-> 3600, id |-> 4] @@ Upload(1, 3600)),
                            at(7190, 3, [top |-> 7200, id |-> 7, good |-> FALSE, iode |-> 3] @@ Upload(2, 7200)),
                            at(7208, 4, [top |-> 7200] @@ Upload(2, 7200)), at(11000, 1, [top |-> 10800, pass |-> FALSE] @@ Upload(3, 10800))>>)

Ppp ==
    LET at(t, type, n, more) ==
            Frame("BDS_PPP_B2B", type, Sunday + t,
                  more @@ [up |-> n, ref |-> (t - 20 - BdtOffset) % 86400, ids |-> {"clock_mask", "orbit"}]) IN
      Broadcast(30, {}, <<at(10, 1, 1, <<>>), at(12, 2, 1, <<>>), at(20, 6, 1, <<>>), at(40, 4, 2, [bad |-> TRUE]),
                          at(50, 2, 1, <<>>), at(85, 63, 3, [good |-> FALSE]), at(95, 4, 4, <<>>),
                          Frame("SBAS_L1", 0, Sunday + 100, [up |-> 1]),
                          [t |-> None] @@ Frame("BDS_PPP_B2B", 1, Sunday + 110, [up |-> 2, good |-> FALSE]), at(130, 3, 5, <<>>)>>)

\* After a break the recording may go back; without one the decoder fails.
Back == Broadcast(30, {3}, Cycle("GPS_LNAV", Sunday + 7200, 6, <<1, 2, 3>>, Upload(1, 7200))
                           \o Cycle("GPS_LNAV", Sunday + 7120, 20, <<2, 3, 1, 2, 3>>, Upload(1, 7200)))

MCBroadcasts == <<Lnav, Rollover, Cnav, CnavLoose, CnavDates, CnavDays, LnavPages, QzsLnav, Inav, InavLoose, InavAlmanac, Fnav,
                 TwoFamilies, LnavHealth,
                 HasService, HasLifetimes, BeidouD1, BeidouD2, BeidouAlmanac, Bcnav1, Bcnav2, Bcnav3, Bcnav3Loose,
                 Ppp, Back>>
SundayBroadcasts == <<CnavSunday, Lnav>>
=============================================================================
