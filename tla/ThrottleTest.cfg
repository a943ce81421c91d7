SPECIFICATION ThrottleSpec
CONSTANTS
    Hosts = {h1, h2, h3}
    Ttl = 3
PROPERTY
    ReportedOncePerTtl
