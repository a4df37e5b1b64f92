--------------------------- MODULE MCSignalEngine ---------------------------
(***************************************************************************)
(* A small instance of SignalEngine.  The views combine the indicators     *)
(* that only one direction can pass with the ones both may pass at once.   *)
(***************************************************************************)
EXTENDS SignalEngine

\* Order of the EMAs, slope, price and ADX of the trend timeframe.
Trends == {<<1, 1, 1, TRUE>>, <<1, 1, -1, TRUE>>, <<1, -1, 1, TRUE>>, <<1, 0, 1, FALSE>>,
           <<-1, -1, -1, TRUE>>, <<-1, 1, -1, TRUE>>, <<-1, 0, -1, FALSE>>,
           <<0, 1, 1, TRUE>>, <<0, -1, -1, FALSE>>}
\* RSI, histogram and its move, from one side to the other.
Oscillators == {<<1, 1, 1>>, <<0, 1, -1>>, <<-2, -1, -1>>}
\* A last candle in favour of one side, of the other, or of both; and the ATR.
Lasts == {<<1, {}, 3>>, <<-1, {}, 3>>, <<1, {-1}, 3>>, <<-1, {1}, 4>>}

MCView(htf, entry, osc, candle, near, volume) ==
  [usable |-> TRUE, volatile |-> {},
   htfEmas |-> htf[1], htfSlope |-> htf[2], htfPrice |-> htf[3], trending |-> htf[4],
   emas |-> entry[1], vwap |-> entry[2], price |-> entry[2], broke |-> entry[3],
   rsi |-> osc[1], hist |-> osc[2], histMove |-> osc[3],
   body |-> candle[1], wicks |-> candle[2], atr |-> candle[3], extended |-> FALSE,
   near |-> near, volume |-> volume, adx |-> volume]

Calm == {MCView(htf, entry, osc, candle, near, volume) :
           htf \in Trends, entry \in Signs \X Sides \X Signs,
           osc \in Oscillators, candle \in Lasts, near \in BOOLEAN, volume \in BOOLEAN}

\* A strong market that is volatile, or whose candles are not usable or have
\* gone too far.
Strong == MCView(<<1, 1, 1, TRUE>>, <<1, 1, 1>>, <<1, 1, 1>>, <<1, {}, 3>>, TRUE, TRUE)
MCViews == Calm \cup {[Strong EXCEPT !.volatile = {"htf"}],
                      [Strong EXCEPT !.volatile = {"entry"}],
                      [Strong EXCEPT !.usable = FALSE], [Strong EXCEPT !.extended = TRUE]}
=============================================================================
