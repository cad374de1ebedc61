------------------------- MODULE MCHardhatOperations -------------------------
\* A small instance of HardhatOperations: two contracts, one of them with an
\* upgrade function, in projects of two or three concurrent calls.
EXTENDS HardhatOperations

Of(start, of, operations, contracts, asked, redeploys, n, codes, crash) ==
  [start |-> start, of |-> of, operations |-> operations, contracts |-> contracts, asked |-> asked,
   redeploys |-> redeploys, calls |-> n, codes |-> codes, crashes |-> crash]

MCContracts == {"Box", "BoxUUPS"}
MCUpgradeable == {"BoxUUPS"}
Named == {"infer", "uups", "transparent"}

\* A first deployment by two callers, one of whom may die, and an upgrade.
MCFresh == Of("fresh", "Box", {"deployProxy", "upgradeProxy"}, {"BoxUUPS"}, {"infer"}, {"onchange"}, 3, 4, 1)
\* Records of an old version, met by two calls at once.
MCLegacy == Of("legacy", "Box", {"deployProxy", "upgradeProxy", "validateUpgrade"}, MCContracts, Named,
               {"onchange"}, 2, 5, 1)
MCDrifted == Of("drifted", "BoxUUPS", {"upgradeProxy", "forceImport"}, {"BoxUUPS"}, {"infer"}, {"always"}, 3, 5, 0)
\* An entry the chain lost, under every setting.
MCStale == Of("stale", "Box", {"deployImplementation"}, {"Box"}, {"infer"}, {"onchange", "always", "never"}, 2, 4, 1)
\* Adoption of what others deployed, beside a stale entry of its version.
MCForeign == Of("stale-and-foreign", "Box", {"forceImport", "prepareUpgrade"}, {"Box"}, {"transparent"},
                {"onchange"}, 3, 5, 0)
MCAdopted == Of("foreign", "BoxUUPS", {"forceImport", "upgradeProxy"}, MCContracts, {"infer"}, {"onchange"}, 2, 4, 1)
MCBeacons == Of("fresh", "Box", {"deployBeacon", "deployBeaconProxy", "upgradeBeacon", "forceImport"}, {"Box"}, {"infer"},
                {"always"}, 3, 4, 0)

MCProjects == {MCFresh, MCLegacy, MCDrifted, MCStale, MCForeign, MCAdopted, MCBeacons}
=============================================================================
