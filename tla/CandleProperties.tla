---------------------------- MODULE CandleProperties ----------------------------
(***************************************************************************)
(* What the candle pipeline promises to the strategies and to the readers  *)
(* of the database.                                                        *)
(***************************************************************************)
EXTENDS CandlePipeline

Increasing(s) == \A i, j \in DOMAIN s : i < j => s[i].minute < s[j].minute
Told(s) == {s[i] : i \in DOMAIN s}

\* A stored minute that claims full coverage was not touched by an outage: the
\* feed was healthy through all of it, however far the worker lags behind the
\* websocket, and whichever process built it.
NoFalseCoverage == \A c \in rows1 : c.full => c.minute \notin gaps

\* A stored bucket is the roll-up of the stored minutes it spans, whatever was
\* restarted, refused, conflicting or written twice in between.
BucketsMatchMinutes ==
  \A b \in rows5 : b = Aggregate({c \in rows1 : BucketOf(c.minute) = b.minute})

\* A strategy is told of a candle only after it is stored, as it is stored,
\* once, and in the order of time.
ToldOnceAfterStore ==
  /\ Told(seen1) \subseteq rows1 /\ Increasing(seen1)
  /\ Told(seen5) \subseteq rows5 /\ Increasing(seen5)

\* Nothing traded is counted twice or dropped between candles: while the
\* exchange's counter runs, a process's candles add up to what it has counted.
VolumeAddsUp == zero = 0 => vol.reliable /\ sum = vol.base - vol.first
=============================================================================
