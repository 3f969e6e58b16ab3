----------------------------- MODULE MCLightControl -----------------------------
(* An instance of LightControl for TLC, with the requests and hubs of MCRgbwApi. *)
EXTENDS MCRgbwApi, LightControl

Hashes == [c \in Hex |-> IF c = "00FF00" THEN "#00FF00" ELSE c]
Hues == [c \in Hex |-> IF c = "#00FF00" THEN 120 ELSE 0]
Numbers == [v \in {"40", "100"} |-> IF v = "40" THEN 40 ELSE 100]

=============================================================================
