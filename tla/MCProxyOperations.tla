-------------------------- MODULE MCProxyOperations --------------------------
(***************************************************************************)
(* Small migrations for TLC, each with the operations whose interplay it   *)
(* is about.                                                               *)
(***************************************************************************)
EXTENDS ProxyOperations, TLC

CONSTANTS Box, BoxV2

\* Deploying, upgrading and adopting proxies, two contract versions.
MCProxies == [operations |-> {"deployProxy", "upgradeProxy", "forceImport"},
              contracts |-> {Box, BoxV2}, kinds |-> {"uups"}, redeploys |-> {"onchange"},
              foreign |-> {}, calls |-> 3, txs |-> 5, crashes |-> 0]

\* Calls repeated after failures and a dead run.
MCRerun == [operations |-> {"deployProxy", "deployImplementation", "prepareUpgrade"},
            contracts |-> {Box}, kinds |-> {"uups"}, redeploys |-> {"onchange", "never"},
            foreign |-> {}, calls |-> 3, txs |-> 5, crashes |-> 1]

\* Beacons and their proxies.
MCBeacons == [operations |-> {"deployBeacon", "deployBeaconProxy", "upgradeBeacon"},
              contracts |-> {Box, BoxV2}, kinds |-> {"uups"}, redeploys |-> {"onchange"},
              foreign |-> {}, calls |-> 3, txs |-> 5, crashes |-> 0]

\* Several addresses of one version in the record, beside a proxy somebody else deployed.
MCAdoption == [operations |-> {"deployProxy", "upgradeProxy", "forceImport"},
               contracts |-> {Box}, kinds |-> {"uups"}, redeploys |-> {"always"},
               foreign |-> {Box}, calls |-> 3, txs |-> 5, crashes |-> 1]

\* A transparent proxy whose admin is given away, once or more, before and after upgrades.
MCAdmin == [operations |-> {"deployProxy", "upgradeProxy", "transferProxyAdminOwnership"},
            contracts |-> {Box}, kinds |-> {"transparent"}, redeploys |-> {"onchange"},
            foreign |-> {}, calls |-> 3, txs |-> 4, crashes |-> 0]

MCMigrations == {MCProxies, MCRerun, MCBeacons, MCAdoption, MCAdmin}

\* Two calls are enough for the counterexamples.
MCShort == {[MCProxies EXCEPT !.operations = {"deployProxy", "upgradeProxy"},
                              !.calls = 2, !.txs = 4]}
MCStandalone == {[MCRerun EXCEPT !.operations = {"deployProxy", "deployImplementation"},
                                 !.redeploys = {"onchange"}, !.calls = 2, !.txs = 3,
                                 !.crashes = 0]}

\* The two versions are interchangeable.
Versions == Permutations({Box, BoxV2})
=============================================================================
