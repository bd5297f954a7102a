CONSTANTS
    p = p  q = q  v1 = v1  v2 = v2  v3 = v3
    None = None
    Worker = {w1}
    Event = {e1}
    Policy = {p}
    Version = {v1, v2, v3}
    PolicySeverity = {"HIGH"}
    Plugin <- OneFamily
    Deployed <- DeployedOfFamily
SPECIFICATION Spec
PROPERTIES ShadowNeverSurfaces
