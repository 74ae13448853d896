------------------------------ MODULE MCMarket ------------------------------
(* Small instances of Market for TLC.                                      *)
EXTENDS Market

CONSTANTS dev, usr, sound, lax

Terms(payFlag, currency, usePeriod) ==
    [creator |-> dev, approveSecurityCouncil |-> dev, payFlag |-> payFlag,
     paymentCurrency |-> currency, usePeriod |-> usePeriod]

MCNoContents ==
    [creator |-> NoAddr, approveSecurityCouncil |-> NoAddr, payFlag |-> 0,
     paymentCurrency |-> NoAddr, usePeriod |-> 0]

\* A free app, one for the instant of payment, one for longer in a lax token.
MCContents == {Terms(0, NoAddr, 0), Terms(1, sound, 0), Terms(1, lax, 1)}
=============================================================================
