--------------------------- MODULE MCWindowsBuild ----------------------------
(* Reviewed releases, each with one place changed, and two runs.  Where the *)
(* desktop or its runtime library is another, it may demand the archive or  *)
(* any.                                                                     *)
EXTENDS WindowsBuild, TLC

Changed(v) ==
  {Source(v, d, {}, Bound(v), TRUE) : d \in DriftsOf(WindowsPasses(v))}
    \cup {Source(v, NoDrift, {p}, Bound(v), TRUE) : p \in Parts}
    \cup {Source(v, NoDrift, {p}, ~Bound(v), TRUE) : p \in {"chatgpt", "chrome"}}
    \cup {Source(v, d, {"chatgpt"}, TRUE, TRUE) : d \in DriftsOf(WindowsPasses(v))}
MCSources == UNION {{Reviewed(v)} \cup Changed(v) : v \in WindowsVersions}
               \cup {[Reviewed("26.930") EXCEPT !.layout = FALSE]}

\* Two runs meet over one release; the others are patched by one run.
OneReleaseShared == source = Reviewed("26.930") \/ pc[2] = "idle"
=============================================================================
