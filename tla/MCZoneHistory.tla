--------------------------- MODULE MCZoneHistory ---------------------------
(* The instance TLC checks: a zone with two NS records, a name that holds  *)
(* an address or a CNAME, and the glue of a delegated child.               *)
EXTENDS ZoneHistory

CONSTANTS e1, e2, ns1, ns2, a, cname, glue

MCRec == {ns1, ns2, a, cname, glue}
MCApexNS == {ns1, ns2}
MCChild == {glue}
MCRRsets == {{ns1, ns2}}
MCClash == {<<a, cname>>, <<cname, a>>}
MCZone0 == {ns1, a, glue}
=============================================================================
