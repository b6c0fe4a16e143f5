---------------------------- MODULE MCTradeGuard -----------------------------
(* Requests of every shape the proxy tells apart, in small sets: orders    *)
(* that together exceed the daily cap, one over the order cap, ambiguous   *)
(* or unsized ones, one with a second amount that only the broker can      *)
(* read, envelopes it refuses, a read and a tool listing.                  *)
EXTENDS TradeGuard

CONSTANTS place, exchangeTool, read,
          two, one, one2, comma, over, minus, both, shares, unread, batch, huge, bare, listing, news, swap

Plain(meanings) == {[means |-> m, parses |-> TRUE] : m \in meanings}

Asks(tool, ns, qs) ==
    [form |-> "json", tool |-> tool,
     written |-> [symbol |-> Plain({"AAPL"}), notional |-> Plain(ns),
                  quantity |-> Plain(qs), currency |-> {}]]
As(form, b) == [b EXCEPT !.form = form]

MCBody ==
    [r \in Requests |->
        CASE r = two    -> Asks(place, {2}, {})
          [] r \in {one, one2} -> Asks(place, {1}, {})
          [] r = comma  -> [Asks(place, {1}, {}) EXCEPT
                                !.written.notional = @ \cup {[means |-> 3, parses |-> FALSE]}]
          [] r = over   -> Asks(place, {3}, {})
          [] r = minus  -> Asks(place, {-1}, {})
          [] r = both   -> Asks(place, {1}, {3})
          [] r = shares -> Asks(place, {}, {3})
          [] r = unread -> As("unreadable", Asks(place, {3}, {}))
          [] r = batch  -> As("batch", Asks(place, {3}, {}))
          [] r = huge   -> As("huge", Asks(place, {3}, {}))
          [] r = bare   -> [Asks(place, {1}, {}) EXCEPT !.written.symbol = {}]
          [] r = listing -> Asks(NoTool, {}, {})
          [] r = news   -> Asks(read, {}, {})
          [] r = swap   -> Asks(exchangeTool, {3}, {})]

MCTools == {place, exchangeTool, read}
MCListings == {{place, read}, {exchangeTool, read}}
GoodListing == {{place, read}}
=============================================================================
