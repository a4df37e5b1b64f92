---------------------------- MODULE MCAnalytics ----------------------------
(***************************************************************************)
(* The indicators over every short series of a few candles, and the equity *)
(* figures over every short history of trades.  The two do not interact: a *)
(* behaviour grows the one or the other.                                   *)
(***************************************************************************)
EXTENDS Indicators, Equity

CONSTANTS
  Top,          \* above all prices: a mirrored price is what is left to it
  Shapes,       \* the kinds of candles a series has
  MaxCandles    \* bound on the series

\* Candles with their close between low and high, all prices above zero.
SoundBars == {c \in [high : 1 .. Top - 1, low : 1 .. Top - 1, close : 1 .. Top - 1, volume : Nat] :
                c.low <= c.close /\ c.close <= c.high}
ASSUME ShapesType == Top \in Nat /\ Shapes \subseteq SoundBars

VARIABLE candles

figureVars == <<candles, equityVars>>

Bar(low, close, high, volume) == [high |-> high, low |-> low, close |-> close, volume |-> volume]

\* Still, rising and falling candles, with a gap, wide ones that grow on both sides
\* alike, and one without volume.
MCCandles ==
  {Bar(1, 1, 1, 0), Bar(1, 2, 2, 1), Bar(2, 2, 2, 2), Bar(1, 1, 3, 1), Bar(2, 3, 4, 1)}
MCPnls == {-2, 0, 3}

FiguresInit == candles = <<>> /\ EquityInit

NextCandle ==
  /\ trades = <<>> /\ snaps = <<>> /\ reading = Idle
  /\ Len(candles) < MaxCandles
  /\ \E c \in Shapes : candles' = Append(candles, c)
  /\ UNCHANGED equityVars

Trade == candles = <<>> /\ EquityNext /\ UNCHANGED candles

FiguresNext == NextCandle \/ Trade

FiguresSpec == FiguresInit /\ [][FiguresNext]_figureVars

-----------------------------------------------------------------------------
P == 2       \* the period of every indicator

Closes(cs) == [i \in DOMAIN cs |-> Whole(cs[i].close)]
Mirrored(cs) ==
  [i \in DOMAIN cs |-> [high |-> Top - cs[i].low, low |-> Top - cs[i].high,
                        close |-> Top - cs[i].close, volume |-> cs[i].volume]]
Reflect(prices) == [i \in DOMAIN prices |-> Top - prices[i]]
LeftOf(x, whole) == IF x = Missing THEN Missing ELSE Less(whole, x)

\* Long and short are judged alike: over the mirrored market RSI is what is left of it
\* to one, MACD and averages are mirrored and slope the other way, ATR, ADX and the
\* volume ratio stay, highs and lows change places, and a missing value is missing in
\* both.  Only where no close ever moved is RSI one on both sides.
MirrorImage ==
  LET m == Mirrored(candles)
      xs == Closes(candles)
      ys == Closes(m)
      ex == Ema(xs, P)
      ey == Ema(ys, P)
      here == SwingLevels(candles, 1, 1, 2)
      there == SwingLevels(m, 1, 1, 2)
  IN /\ Rsi(ys, P) = IF \A i, j \in DOMAIN xs : xs[i] = xs[j]
                     THEN Rsi(xs, P) ELSE LeftOf(Rsi(xs, P), Whole(1))
     /\ \A i \in DOMAIN xs : ey[i] = Less(Whole(Top), ex[i])
     /\ Len(xs) > 1 => /\ EmaSlope(ex, 1).num > 0 <=> EmaSlope(ey, 1).num < 0
                       /\ EmaSlope(ex, 1).num < 0 <=> EmaSlope(ey, 1).num > 0
     /\ Macd(xs, 1, P, 1) # Missing =>
          Macd(ys, 1, P, 1).hist = Neg(Macd(xs, 1, P, 1).hist)
     /\ Atr(m, P) = Atr(candles, P) /\ AtrWilder(m, P) = AtrWilder(candles, P)
     /\ Adx(m, P) = Adx(candles, P)
     /\ VolumeRatio(m, P) = VolumeRatio(candles, P)
     /\ RollingVwap(m, P) = LeftOf(RollingVwap(candles, P), Whole(Top))
     /\ there.res = Reflect(here.sup) /\ there.sup = Reflect(here.res)
     /\ \A price \in 1 .. Top - 1 :
          NearestLevel(there.res, Top - price, "below")
            = LeftOf(NearestLevel(here.sup, price, "above"), Whole(Top))

Between(x, xs) == (\E y \in ToSet(xs) : AtMost(y, x)) /\ (\E y \in ToSet(xs) : AtMost(x, y))

\* No average leaves what it averages, RSI and ADX stay between none and all, and RSI is
\* all exactly where no close ever fell.  The engine works on the candles that are cached,
\* not on all there were: a first candle more or less moves the exponential average by no
\* more than what is left of its weight.
Bounded ==
  LET xs == Closes(candles)
      n == Len(candles)
      ex == Ema(xs, P)
      trs == TrueRanges(candles)
      share(x) == x = Missing \/ (x.num >= 0 /\ x.num <= x.den)
      left[k \in 0 .. n] == IF k = 0 THEN Whole(1) ELSE Times(left[k - 1], Frac(P - 1, P + 1))
      gap(s) == Less(Last(ex), Last(Ema(SubSeq(xs, s, n), P)))
      most(s) == Times(left[n - s], Whole(Top))
  IN /\ \A i \in DOMAIN xs : Between(ex[i], SubSeq(xs, 1, i))
     /\ \A s \in 2 .. n : AtMost(gap(s), most(s)) /\ AtMost(Neg(gap(s)), most(s))
     /\ share(Rsi(xs, P)) /\ share(Adx(candles, P))
     /\ n > P => /\ Between(Atr(candles, P), LastOf(trs, P))
                 /\ Between(AtrWilder(candles, P), trs)
                 /\ Rsi(xs, P) = Whole(1) <=> \A i \in 2 .. n : candles[i].close >= candles[i - 1].close
     /\ RollingVwap(candles, P) # Missing =>
          Between(RollingVwap(candles, P),
                  Fractions([i \in 1 .. P |-> LastOf(candles, P)[i].low])
                    \o Fractions([i \in 1 .. P |-> LastOf(candles, P)[i].high]))

\* A level, once found, is neither moved nor taken back by later candles: it only gives
\* way to newer ones.
LevelsStay ==
  [][LET old == SwingLevels(candles, 1, 1, 2)
         new == SwingLevels(candles', 1, 1, 2)
         follows(a, b) == b = a \/ \E x \in 1 .. Top : b = Latest(Append(a, x), 2)
     IN follows(old.res, new.res) /\ follows(old.sup, new.sup)]_candles
=============================================================================
