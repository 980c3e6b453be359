-------------------------- MODULE MCSubscriptionSync --------------------------
(* SubscriptionSync for TLC: one or two subscriptions and their sources. *)
EXTENDS SubscriptionSync, TLC

CONSTANTS StripeSubs, RcSubs

MCSource == [s \in StripeSubs |-> "stripe"] @@ [s \in RcSubs |-> "revenuecat"]
\* Bounds: a behaviour uses one of the subscriptions (they share no row, lock or
\* dunning case), and RevenueCat sends MaxRcEvents: it sends one event where
\* Stripe sends two.
MaxRcEvents == 3

OneSource ==
    /\ Cardinality({s \in Subs : store[s].status # "none"}) <= 1
    /\ (\E s \in RcSubs : store[s].status # "none") => Len(events) <= MaxRcEvents

HandlerSymmetry == Permutations(Handlers)
=============================================================================
