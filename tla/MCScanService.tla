--------------------------- MODULE MCScanService ---------------------------
(* An instance of ScanService for TLC. *)
EXTENDS ScanService

Quote(bars, price, volume, favor) ==
  [bars |-> bars, price |-> price, prev_close |-> 10, volume |-> volume, favor |-> favor]

\* The first symbol rises by 20% with a MACD in its favour and the second by
\* 30% without, unless they have no bars; the third rises by 20%.
MCQuotes ==
  <<{NoQuote, Quote(TRUE, 12, 3, 15)}, {NoQuote, Quote(TRUE, 13, 3, 0)},
    {Quote(TRUE, 12, 3, 0)}>>

\* A float below the limit and one above it.
MCFloats == {10, 30}

\* One active ticker; no news is required, as the callers pass none, and a
\* relative volume that can be reached.
MCCfg ==
  [min_price |-> 1, max_price |-> 20, gap_up_min_pct |-> 5,
   relative_volume_min |-> 50, max_float_shares |-> 20,
   include_unknown_float |-> FALSE, require_news |-> FALSE,
   pre_open_lead |-> 1, scan_duration |-> 3, active_tickers_n |-> 1]
=============================================================================
