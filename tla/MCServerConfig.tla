---------------------------- MODULE MCServerConfig ----------------------------
(* Instance of ServerConfig for TLC: values that are valid, invalid alone, *)
(* invalid together, and no numbers.                                       *)
EXTENDS ServerConfig

Only(s, v) == [x \in {s} |-> v]

MCBodies ==
    {Only("soft_limit_pct", v) : v \in {10, 97, Junk}}
    \union {Only("hard_limit_pct", v) : v \in {5, 99, 101}}
    \union {Only("per_ip_rpm", v) : v \in {0, 7, Junk}}
    \union {[s \in Floats |-> IF s = "soft_limit_pct" THEN 97 ELSE 99]}

MCEnvironments ==
    {Nothing, Only("soft_limit_pct", 20), Only("hard_limit_pct", Junk), Only("per_ip_rpm", Junk)}

MCBaseFiles ==
    {Nothing, Only("soft_limit_pct", 98), Only("hard_limit_pct", 30), Only("per_ip_rpm", Junk)}
=============================================================================
