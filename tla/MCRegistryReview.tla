------------------------- MODULE MCRegistryReview ---------------------------
(* Small instances of RegistryReview for TLC.                              *)
EXTENDS RegistryReview

CONSTANTS adm, dev

AppContents(creator, council, body) ==
    [creator |-> creator, approveSecurityCouncil |-> council, body |-> body]

MCNoContents == AppContents(NoAddr, NoAddr, 0)

\* Two versions of the developer's app, one of them naming a firm.
MCContents == {AppContents(dev, NoAddr, 1), AppContents(dev, dev, 2)}
=============================================================================
