SPECIFICATION Spec
CONSTANTS
    r1 = r1  r2 = r2  u1 = u1  u2 = u2  web = web  db = db  c1 = c1  c2 = c2
    None = None  Missing = Missing  Torn = Torn
    Repos = {r1, r2}
    Urls = {u1, u2}
    Charts = {web, db}
    Versions = {1, 2}
    Catalog <- MCCatalog
    Offers <- MCOffers
    Offered <- MCOffered
    Stored <- MCStored
    Calls = {c1, c2}
    MaxCli = 1
    MaxPublished = 1
    MaxCrashes = 1
SYMMETRY Symmetric
CHECK_DEADLOCK FALSE
INVARIANTS TypeOK CachedSinceEdit ConfigurationHolds ServesWhatIsThere
