SPECIFICATION Spec
CHECK_DEADLOCK FALSE
CONSTANT Families = {"plain", "peers", "members", "yarn", "pnpm", "ranges", "overrides", "archive", "image", "http", "delay", "tokens",
                     "identity", "closure", "link", "npm", "upgrade", "work", "auth", "config", "routes", "patch", "derived"}
INVARIANTS ResolutionSound LocksFaithful PackagesExact RequestsSafe IdentityExact RoutesAgree
